----------------------------- MODULE TaskProofs -----------------------------
(***************************************************************************)
(* The steps that join, detach, delete, start and switch tasks keep the    *)
(* inductive invariant IInv of module StepProofs, and the theorems         *)
(* that follow from it, for any number of TCBs and priorities, for         *)
(* programs that keep to the usage the API expects (Unguarded = {}) on an  *)
(* architecture that keeps the interrupt contract of module Sched.         *)
(***************************************************************************)
EXTENDS WellFoundedInduction, StepProofs

(* Zenon proves the leaves that name no other prover. *)
USE Zenon

(* OsSchedTaskSwitch *)
LEMMA SwitchInv ==
    ASSUME HasLeast, Inv(k, call, tick), Switch
    PROVE  Inv(k', call', tick')
<1>1. /\ Semi(k, call) /\ Core(k) /\ Leaves(k, tick) /\ tick \in BOOLEAN
      /\ call' = call /\ tick' = tick /\ k.switch
  BY DEF Inv, Semi, Switch, NoCallChange
<1>2. Core(k') /\ Switched(k, k')
  BY <1>1, SwitchCore DEF Switch
<1>3. /\ k'.run \in Task /\ ~k'.switch /\ k'.sched = k.sched
      /\ k'.status[k'.run] \cap Waits = {} /\ \A u \in Task : Kept(k, k', u)
  BY <1>2 DEF Switched
<1>4. Own(k', call)
  <2>1. \A u \in Task : Steady(k, k', u)
    BY <1>3, KeptSteady
  <2>2. \A u \in Task : Moved(k, k', u)
    BY <1>3 DEF Moved
  <2> QED BY <1>1, <1>2, <1>3, <2>1, <2>2, OwnFrame DEF Semi
<1>5. ASSUME NEW u \in Task PROVE Alive(k', u)
  <2>1. CASE u = k'.run
    BY <2>1 DEF Alive
  <2>2. CASE u # k'.run /\ ("READY" \in k.status[u] \/ (u = k.run /\ k.status[u] \cap Waits = {}))
    <3>1. "READY" \in k'.status[u]
      BY <1>2, <2>2 DEF Switched
    <3> QED BY <3>1 DEF Alive
  <2>3. CASE "UNUSED" \in k.status[u] \/ k.status[u] \cap Waits # {}
    BY <1>3, <2>3 DEF Alive, Kept, Waits, Status
  <2>4. Alive(k, u)
    BY <1>1 DEF Semi
  <2> QED BY <2>1, <2>2, <2>3, <2>4 DEF Alive, Waits
<1>6. k.sched
  BY <1>1 DEF Leaves
<1> QED BY <1>1, <1>2, <1>3, <1>4, <1>5, <1>6, TaskFacts DEF Inv, Semi, Leaves

(* LOS_TaskJoin up to LOS_Schedule, also from LOS_TaskDetach *)
LEMMA JoinInv ==
    ASSUME Inv(k, call, tick), Unguarded = {}, NEW t \in Task, Join(t) \/ DetachExited(t)
    PROVE  Inv(k', call', tick')
<1> DEFINE c == k.run
           a == IF Has(k, t, {"EXIT"}) THEN k ELSE OsSchedTaskWait(k, JoinList(t), TRUE)
<1>1. /\ tick' = tick /\ tick \in BOOLEAN /\ Executing /\ k.sched /\ call[c] = None
      /\ MayJoin(t) /\ JoinOK(k, t) /\ k' = JoinPend(k, t) /\ GoesOn(c, CJoin(t))
      /\ Leaves(k, tick)
  BY DEF Join, DetachExited, InTask, Inv, CJoin
<1>2. /\ call \in [Context -> CallStates] /\ Own(k, call) /\ Core(k) /\ Semi(k, call)
      /\ CJoin(t) \in CallStates /\ k \in SchedState
  BY CallFacts DEF Inv, Semi, Core, Base
<1>3. RunsFreely(k) /\ c \in Task \ {Idle}
  BY <1>1, ExecFacts DEF RunsFreely
<1>4. /\ Place(k, c, {}) /\ "RUNNING" \in k.status[c] /\ "UNUSED" \notin k.status[c]
      /\ "EXIT" \notin k.status[c] /\ "PEND_TIME" \notin k.status[c]
  BY <1>2, <1>3, RunsFreelyFacts
<1>5. /\ c # t /\ k.taskLock = 0 /\ "UNUSED" \notin k.status[t]
      /\ "EXIT" \notin k.status[t] => Unjoined(k, t) /\ "JOINABLE" \in k.status[t]
  BY <1>1, <1>2, UnjoinedEmpty DEF JoinOK, Has
<1>6. "JOINABLE" \in k.status[t]
  BY <1>2, <1>5 DEF Own, OwnT
<1>7. \A d \in Context : call[d] # CEnQueue(t) /\ call[d] # CJoin(t)
  BY <1>1 DEF MayJoin, MayUse, BeingMade, BeingJoined, CEnQueue, CJoin
<1>8. /\ Replaced(call, call', c) /\ call'[c] = CJoin(t)
      /\ call' \in [Context -> CallStates]
  BY <1>1, <1>2, CallStep
<1>9. k' = LOS_Schedule(a)
  BY <1>1 DEF JoinPend
<1>10. /\ Core(a) /\ SameGlobals(k, a) /\ \A u \in Task : u # c => SameAt(k, a, u)
       /\ \/ SameAt(k, a, c) /\ "EXIT" \in k.status[t]
          \/ /\ a.status[c] = k.status[c] \cup {"PEND"} /\ Place(a, c, {JoinList(t)})
             /\ Unjoined(k, t) /\ "EXIT" \notin k.status[t]
  <2>1. CASE "EXIT" \in k.status[t]
    <3>1. a = k
      BY <2>1 DEF Has
    <3> QED BY <1>2, <2>1, <3>1 DEF SameGlobals, SameAt
  <2>2. CASE "EXIT" \notin k.status[t]
    <3>1. a = OsSchedTaskWait(k, JoinList(t), TRUE) /\ JoinList(t) \in WaitLists
      BY <2>2, HeadFacts DEF Has
    <3> HIDE DEF a
    <3>2. /\ Core(a) /\ Only(k, a, c) /\ Place(a, c, {JoinList(t)})
          /\ a.status[c] = k.status[c] \cup {"PEND"}
      <4>1. PICK h \in WaitLists, forever \in BOOLEAN :
               /\ h = JoinList(t) /\ forever = TRUE
               /\ a = OsSchedTaskWait(k, h, forever)
        BY <3>1
      <4>2. Core(k) /\ RunsFreely(k) /\ c = k.run /\ a = OsSchedTaskWait(k, h, forever)
        BY <1>2, <1>3, <4>1
      <4> HIDE DEF c
      <4>3. /\ Core(a) /\ Only(k, a, c) /\ Place(a, c, {h})
            /\ a.status[c] = k.status[c] \cup
                               (IF forever THEN {"PEND"} ELSE {"PEND", "PEND_TIME"})
        BY SMTT(20), <4>2, WaitCore
      <4> QED BY <4>1, <4>3
    <3> QED BY <1>5, <2>2, <3>2 DEF Only
  <2> QED BY <2>1, <2>2
<1> HIDE DEF a, c
<1>11. Own(a, call')
  <2>1. a.sched = k.sched /\ c \in Task \ {Idle, t}
    BY <1>3, <1>5, <1>10 DEF SameGlobals
  <2> QED BY <1>1, <1>2, <1>4, <1>5, <1>6, <1>7, <1>8, <1>10, <2>1, OwnJoined
<1>12. \A u \in Task : Alive(a, u)
  <2>1. \A u \in Task : Alive(k, u)
    BY <1>2 DEF Semi
  <2>2. a.run = k.run /\ a.run = c
    BY <1>10 DEF SameGlobals, c
  <2> QED BY <1>10, <2>1, <2>2 DEF Alive, SameAt
<1>13. Semi(a, call')
  BY <1>8, <1>10, <1>11, <1>12 DEF Semi
<1>14. /\ Semi(k', call') /\ SameButSwitch(a, k') /\ k'.taskLock = a.taskLock
       /\ k'.switch <=> a.switch \/ (a.sched /\ a.taskLock = 0)
  BY <1>9, <1>13, ScheduleSemi
<1> QED BY <1>1, <1>5, <1>10, <1>14 DEF Inv, Leaves, SameButSwitch, SameGlobals

(* LOS_TaskJoin after LOS_Schedule *)
LEMMA JoinFinishInv ==
    ASSUME Inv(k, call, tick), NEW t \in Task, JoinFinish(t)
    PROVE  Inv(k', call', tick')
<1> DEFINE a == ClrStatus(k, t, {"JOINABLE"})
<1>1. /\ tick' = tick /\ Executing /\ call[k.run] = CJoin(t) /\ GoesOn(k.run, None)
      /\ k' = OsRecycleTaskResources(a, t) /\ None \in Plain /\ Plain \subseteq CallStates
  BY CallFacts DEF JoinFinish, JoinReclaim, CJoin, Returns, GoesOn
<1>2. /\ call \in [Context -> CallStates] /\ Own(k, call) /\ Core(k) /\ Base(k)
      /\ k.run \in Context /\ Local(k, t)
  BY <1>1, ExecFacts DEF Inv, Semi, Core
<1>3. /\ "EXIT" \in k.status[t] /\ "UNUSED" \notin k.status[t] /\ k.run # t /\ t # Idle
  BY JoinedExited
<1>4. /\ Unjoined(k, t) /\ call[t] = None
  BY <1>2, <1>3 DEF Own, OwnT, OwnSelf
<1>5. /\ "READY" \notin k.status[t] /\ "PEND" \notin k.status[t] /\ t \notin k.sortLink
  BY <1>2, <1>3 DEF Local
<1>6. Place(k, t, {})
  <2>1. k.status[t] \cap {"READY", "PEND", "UNUSED"} = {}
    BY <1>3, <1>5
  <2> QED BY <1>2, <2>1, UnlinkedIf
<1>7. /\ Base(a) /\ Only(k, a, t) /\ SamePlace(k, a, t) /\ a.sortLink = k.sortLink
      /\ a.status[t] = k.status[t] \ {"JOINABLE"}
  <2>1. {"JOINABLE"} \in SUBSET Status
    BY DEF Status
  <2> QED BY SMT, <1>2, <2>1, SetClrEffect
<1> HIDE DEF a
<1>8. /\ Place(a, t, {}) /\ t \notin a.sortLink /\ a.run # t /\ "JOINABLE" \notin a.status[t]
  BY <1>3, <1>5, <1>6, <1>7 DEF Place, SamePlace, Only, SameGlobals
<1>9. Unjoined(a, t)
  <2>1. JoinList(t) \in Head_
    BY HeadFacts
  <2> QED BY <1>4, <1>7, <2>1 DEF Unjoined, Only, SameAt, SamePlace
<1>10. Freed(k, k', t)
  BY <1>1, <1>2, <1>3, <1>7, <1>8, <1>9, RecycleCore
<1>11. /\ Replaced(call, call', k.run) /\ call'[k.run] = None /\ OwnSelf(k, call')
       /\ call' \in [Context -> CallStates]
  BY <1>1, CallStep
<1>12. OnlyCaller(call, k.run, t)
  <2>1. ASSUME NEW d \in Context
        PROVE  call[d] # CInit(t) /\ call[d] # CEnQueue(t) /\ (d # k.run => call[d] # CJoin(t))
    <3>1. OwnC(k, call, d, t)
      BY <1>2 DEF Own
    <3>2. call[d] # CInit(t) /\ call[d] # CEnQueue(t)
      BY <1>3, <3>1 DEF OwnC, Making, Fresh
    <3>3. d # k.run => call[d] # CJoin(t)
      BY <1>1, <1>2 DEF Own, OwnCalls
    <3> QED BY <3>2, <3>3
  <2> QED BY <1>1, <2>1, CallFacts DEF OnlyCaller
<1>13. call'[t] = None
  BY <1>3, <1>4, <1>11 DEF Replaced, Context
<1>14. Own(k', call')
  BY <1>1, <1>2, <1>3, <1>4, <1>10, <1>11, <1>12, <1>13, OwnFreed
<1>15. Core(k') /\ Only(k, k', t) /\ Alive(k', t)
  BY <1>10 DEF Freed, Alive
<1> QED BY <1>1, <1>3, <1>11, <1>14, <1>15, QuietInv

(* LOS_TaskDetach of a task that has not exited *)
LEMMA DetachInv ==
    ASSUME Inv(k, call, tick), Unguarded = {}, NEW t \in Task, Detach(t)
    PROVE  Inv(k', call', tick')
<1>1. /\ tick' = tick /\ tick \in BOOLEAN /\ call' = call /\ Executing /\ call[k.run] = None
      /\ MayJoin(t) /\ DetachOK(k, t) /\ k' = ClrStatus(k, t, {"JOINABLE"}) /\ Leaves(k, tick)
  BY DEF Detach, InTask, NoCallChange, OsTaskSetDetachUnsafe, Inv
<1>2. /\ call \in [Context -> CallStates] /\ Own(k, call) /\ Core(k) /\ Base(k)
      /\ k.run \in Context /\ Local(k, t) /\ k \in SchedState
      /\ \A u \in Task : Alive(k, u)
  BY <1>1, ExecFacts DEF Inv, Semi, Core, Base
<1>3. /\ t # Idle /\ "UNUSED" \notin k.status[t] /\ "EXIT" \notin k.status[t] /\ Unjoined(k, t)
      /\ "JOINABLE" \in k.status[t]
  BY <1>1, <1>2, UnjoinedEmpty DEF DetachOK, Has
<1>4. \A d \in Context : call[d] # CEnQueue(t) /\ call[d] # CJoin(t)
  BY <1>1 DEF MayJoin, MayUse, BeingMade, BeingJoined, CEnQueue, CJoin
<1>5. /\ Base(k') /\ Only(k, k', t) /\ SamePlace(k, k', t) /\ k'.sortLink = k.sortLink
      /\ k'.status[t] = k.status[t] \ {"JOINABLE"} /\ k'.priority[t] = k.priority[t]
  <2>1. {"JOINABLE"} \in SUBSET Status
    BY DEF Status
  <2> QED BY SMT, <1>1, <1>2, <2>1, SetClrEffect
<1>6. Own(k', call)
  BY <1>1, <1>2, <1>3, <1>4, <1>5, OwnDetached
<1>7. Local(k', t)
  <2>1. /\ \A h \in WaitLists \cup {FreeTask, RecycleList} : On(k', t, h) <=> On(k, t, h)
        /\ \A p \in Prio : On(k', t, PriQueue(p)) <=> On(k, t, PriQueue(p))
    BY <1>5, HeadFacts DEF SamePlace
  <2>2. ~On(k, t, FreeTask) /\ ~On(k, t, RecycleList)
    BY <1>2, <1>3 DEF Local
  <2>3. k'.run = k.run
    BY <1>5 DEF Only, SameGlobals
  <2> QED BY <1>2, <1>3, <1>5, <2>1, <2>2, <2>3 DEF Local
<1>8. Core(k')
  BY <1>2, <1>5, <1>7, CoreFromOnly
<1>9. \A u \in Task : Alive(k', u)
  BY <1>2, <1>5 DEF Alive, Only, SameGlobals, SameAt
<1>10. /\ k'.run = k.run /\ k'.sched = k.sched /\ k'.switch = k.switch
       /\ k'.taskLock = k.taskLock
       /\ k'.status[k'.run] \cap Waits = k.status[k.run] \cap Waits
  <2>1. k'.run = k.run /\ k'.sched = k.sched /\ k'.switch = k.switch /\ k'.taskLock = k.taskLock
    BY <1>5 DEF Only, SameGlobals
  <2>2. CASE k.run = t
    BY <1>5, <2>1, <2>2 DEF Waits
  <2>3. CASE k.run # t
    BY SMT, <1>2, <1>5, <2>1, <2>3 DEF Only, SameGlobals, SameAt, Context
  <2> QED BY <2>1, <2>2, <2>3
<1> QED BY <1>1, <1>2, <1>6, <1>8, <1>9, <1>10 DEF Inv, Semi, Leaves

(* LOS_TaskDelete *)
LEMMA DeleteInv ==
    ASSUME Inv(k, call, tick), Unguarded = {}, NEW t \in Task, Delete(t)
    PROVE  Inv(k', call', tick')
<1>1. /\ tick' = tick /\ tick \in BOOLEAN /\ MayDelete(t) /\ DeleteOK(k, t)
      /\ k' = LOS_TaskDelete(k, t) /\ call' = [call EXCEPT ![t] = None] /\ Leaves(k, tick)
  BY DEF Delete, Returns, Inv
<1>2. /\ call \in [Context -> CallStates] /\ Own(k, call) /\ Core(k)
      /\ t \in Context /\ k.run \in Task \cup {Shadow} /\ \A u \in Task : Alive(k, u)
  BY DEF Inv, Semi, Core, Base, SchedState, Context
<1>3. t # Idle /\ "UNUSED" \notin k.status[t] /\ "EXIT" \notin k.status[t]
  BY <1>1 DEF DeleteOK, Has
<1>4. /\ \A c \in Context : call[c] # CEnQueue(t)
      /\ \A u \in Task : call[t] # CInit(u)
  <2>1. call[t][1] \notin {"recycle", "pop", "init", "enqueue"}
    BY <1>1 DEF MayDelete, Creating
  <2>2. \A u \in Task : call[t] # CInit(u)
    BY SMT, <2>1 DEF CInit
  <2> QED BY <1>1, <2>2 DEF MayDelete, MayUse, BeingMade, CEnQueue
<1>5. k.run = t => k.sched
  BY <1>1, TaskFacts DEF Leaves
<1>6. \A u, v \in Task : On(k, u, JoinList(t)) /\ On(k, v, JoinList(t)) => u = v
  <2> SUFFICES ASSUME NEW u \in Task, NEW v \in Task,
                      On(k, u, JoinList(t)), On(k, v, JoinList(t))
               PROVE  u = v
    OBVIOUS
  <2>1. u \in Context /\ v \in Context /\ OwnC(k, call, u, t) /\ OwnC(k, call, v, t)
    BY <1>2 DEF Own, Context
  <2>2. call[u] = CJoin(t) /\ call[v] = CJoin(t)
    BY <2>1 DEF OwnC
  <2> QED BY <1>2, <2>1, <2>2 DEF Own, OwnCalls
<1>7. ~On(k, t, JoinList(t))
  <2>1. OwnC(k, call, t, t)
    BY <1>2 DEF Own
  <2> QED BY <1>2, <2>1 DEF OwnC, Own, OwnCalls
<1>8. "JOINABLE" \notin k.status[t] => Unjoined(k, t)
  BY <1>2 DEF Own, OwnT
<1>9. Gone(k, k', t)
  BY <1>1, <1>2, <1>3, <1>5, <1>6, <1>7, <1>8, DeleteCore
<1>10. Replaced(call, call', t) /\ call'[t] = None /\ call' \in [Context -> CallStates]
  <2>1. None \in CallStates
    BY CallFacts
  <2> QED BY <1>1, <1>2, <2>1 DEF Replaced
<1>11. Own(k', call')
  BY <1>2, <1>3, <1>4, <1>9, <1>10, OwnDeleted
<1>12. /\ Core(k') /\ k'.sched = k.sched /\ GoneSelf(k, k', t) /\ GoneRun(k, k', t)
       /\ \A u \in Task : u # t => GoneJoiner(k, k', t, u)
  BY <1>9 DEF Gone
<1>13. ASSUME NEW u \in Task, u # t, Woken(k, k', u), "PEND" \in k.status[u]
       PROVE  /\ "READY" \in k'.status[u] \/ "SUSPEND" \in k'.status[u]
                 \/ "RUNNING" \in k.status[u]
              /\ k'.status[u] \cap Waits \subseteq k.status[u] \cap Waits
  BY <1>13 DEF Woken, Waits
<1>14. ASSUME NEW u \in Task, On(k, u, JoinList(t)) PROVE "PEND" \in k.status[u]
  <2>1. Local(k, u) /\ Base(k) /\ JoinList(t) \in WaitLists /\ JoinList(t) \in Head_
    BY <1>2, HeadFacts DEF Core
  <2> QED BY <1>14, <2>1 DEF Local, Base, ListsDisjoint, On
<1>15. ASSUME NEW u \in Task PROVE Alive(k', u)
  <2>1. CASE u = t
    BY <1>12, <2>1 DEF GoneSelf, Alive
  <2>2. CASE u # t /\ SameAt(k, k', u)
    <3>1. k.run = u => k'.run = u
      BY <1>12, <2>2 DEF GoneRun
    <3> QED BY <1>2, <2>2, <3>1 DEF Alive, SameAt
  <2>3. CASE u # t /\ On(k, u, JoinList(t)) /\ Woken(k, k', u)
    <3>1. "RUNNING" \in k.status[u] => k.run = u
      <4>1. Local(k, u) /\ "PEND" \in k.status[u]
        BY <1>2, <1>14, <2>3 DEF Core
      <4> QED BY <4>1 DEF Local
    <3>2. k.run = u => k'.run = u
      BY <1>12, <2>3 DEF GoneRun
    <3> QED BY <1>13, <1>14, <2>3, <3>1, <3>2 DEF Alive
  <2> QED BY <1>12, <2>1, <2>2, <2>3 DEF GoneJoiner
<1>16. Leaves(k', tick')
  <2>1. CASE k.run = t
    BY <1>1, <1>5, <1>12, <2>1 DEF Leaves, GoneRun
  <2>2. CASE k.run # t
    <3>1. k'.run = k.run /\ k'.switch = k.switch /\ k'.taskLock = k.taskLock
      BY <1>12, <2>2 DEF GoneRun
    <3>2. k.run \in Task => k'.status[k.run] \cap Waits \subseteq k.status[k.run] \cap Waits
      BY <1>12, <1>13, <1>14, <2>2 DEF GoneJoiner, SameAt
    <3> QED BY <1>1, <1>2, <1>12, <3>1, <3>2 DEF Leaves
  <2> QED BY <2>1, <2>2
<1> QED BY <1>1, <1>10, <1>11, <1>12, <1>15, <1>16 DEF Inv, Semi

(* LOS_Start *)
LEMMA StartInv ==
    ASSUME HasLeast, Inv(k, call, tick), LOS_Start
    PROVE  Inv(k', call', tick')
<1>1. /\ tick' = tick /\ tick \in BOOLEAN /\ call' = call /\ Executing /\ ~k.sched
      /\ call[Shadow] = None /\ k' = StartToRun(k) /\ Leaves(k, tick)
  BY DEF LOS_Start, StartToRun, NoCallChange, Inv
<1>2. /\ call \in [Context -> CallStates] /\ Own(k, call) /\ Core(k)
      /\ k.run = Shadow /\ ~k.switch /\ \A u \in Task : Alive(k, u)
  BY <1>1 DEF Inv, Semi, Leaves, Executing
<1>3. Core(k') /\ Started(k, k')
  BY <1>1, <1>2, StartCore
<1>4. \A c \in Context : call[c] = None
  BY <1>1, <1>2 DEF Own, OwnSelf, Context
<1>5. Own(k', call)
  BY <1>2, <1>3, <1>4, OwnStarted
<1>6. \A u \in Task : Alive(k', u)
  BY SMT, <1>2, <1>3, TaskFacts DEF Alive, Started, SameAt
<1>7. Leaves(k', tick')
  BY <1>1, <1>2, <1>3, TaskFacts DEF Started, Leaves, Waits
<1> QED BY <1>1, <1>2, <1>3, <1>5, <1>6, <1>7 DEF Inv, Semi

(* The state after osInit: every TCB but idle's is on the free list. *)
LEMMA InitInv ==
    ASSUME TaskInit PROVE IInv
<1> USE TaskFacts
<1> DEFINE L == [i \in 1 .. TskLimit |-> i]
<1>1. /\ TskLimit \in Nat /\ Task = 0 .. TskLimit /\ Idle = 0
      /\ L \in Seq(Task) /\ IsInjective(L) /\ Range(L) = Task \ {Idle}
  BY SMT, SchedConstants DEF Task, Idle, IsInjective, Range
<1>2. <<>> \in Seq(Task) /\ IsInjective(<<>>) /\ Range(<<>>) = {}
  BY SMT DEF IsInjective, Range
<1> HIDE DEF L
<1>3. /\ k.list = [h \in Head_ |-> IF h = FreeTask THEN L ELSE <<>>]
      /\ k.bitmap = {} /\ k.sortLink = {} /\ k.run = Shadow /\ k.taskLock = 0
      /\ k.sched = FALSE /\ k.switch = FALSE /\ k.fault = FALSE
      /\ call = [c \in Context |-> None] /\ tick = FALSE
  BY DEF TaskInit, L
<1>4. /\ k.status[Idle] = {"READY", "STACK_FREE"} /\ k.status[Shadow] = {"UNUSED", "RUNNING"}
      /\ \A t \in Task \ {Idle} : k.status[t] = {"UNUSED"}
  BY DEF TaskInit, Context
<1>5. k \in SchedState
  <2>1. k.list \in [Head_ -> Seq(Task)]
    BY <1>1, <1>2, <1>3
  <2>2. [t \in Context |-> CASE t = Idle   -> {"READY", "STACK_FREE"}
                              [] t = Shadow -> {"UNUSED", "RUNNING"}
                              [] OTHER      -> {"UNUSED"}]
           \in [Task \cup {Shadow} -> SUBSET Status]
    BY DEF Context, Status
  <2>3. [t \in Task |-> IF t = Idle THEN PriNum - 1 ELSE 0] \in [Task -> Prio]
    BY SMT, SchedConstants DEF Prio
  <2> QED BY <2>1, <2>2, <2>3 DEF TaskInit, SchedState
<1>6. /\ OnList(k, FreeTask) = Task \ {Idle}
      /\ \A h \in Head_ : h # FreeTask => k.list[h] = <<>> /\ OnList(k, h) = {}
      /\ \A h \in Head_ : IsInjective(k.list[h])
  BY <1>1, <1>2, <1>3, HeadFacts DEF OnList
<1>7. ListsDisjoint(k)
  BY <1>6 DEF ListsDisjoint
<1>8. StatusMatchesLists(k)
  <2>1. \A p \in Prio : PriQueue(p) # FreeTask /\ PriQueue(p) \in Head_
    BY HeadFacts
  <2>2. \A h \in WaitLists : h # FreeTask /\ h \in Head_
    BY HeadFacts
  <2>3. RecycleList # FreeTask /\ RecycleList \in Head_
    BY HeadFacts
  <2> QED BY SMT, <1>3, <1>4, <1>6, <2>1, <2>2, <2>3 DEF StatusMatchesLists, Has, Waiting
<1>9. StatusExclusive(k)
  BY SMTT(20), <1>3, <1>4 DEF StatusExclusive, Has, Blocked
<1>10. NoTaskLost
  BY <1>4 DEF NoTaskLost, Has
<1>11. BlockedLeaves
  BY <1>3 DEF BlockedLeaves
<1>12. TaskTypeOK
  BY <1>3, <1>5, CallFacts DEF TaskTypeOK
<1>13. TcbOwned
  <2>1. \A c \in Context, t \in Task :
           call[c] = None /\ call[c] # CInit(t) /\ call[c] # CEnQueue(t) /\ call[c] # CJoin(t)
    BY SMT, <1>3, CallFacts
  <2>2. \A u, x \in Task : ~On(k, u, JoinList(x))
    BY SMT, <1>6, HeadFacts DEF On
  <2>3. \A t \in Task : OwnT(k, call, t)
    BY SMT, <1>4, <1>6, <2>2 DEF OwnT, On, Unjoined
  <2>4. \A c \in Context, t \in Task : OwnC(k, call, c, t)
    BY <2>1, <2>2 DEF OwnC
  <2>5. OwnCalls(call)
    BY <2>1 DEF OwnCalls
  <2>6. OwnSelf(k, call)
    BY <1>3 DEF OwnSelf, Context
  <2>7. Own(k, call)
    BY <2>3, <2>4, <2>5, <2>6 DEF Own
  <2> QED BY <1>5, <1>12, <2>7, OwnMeans DEF TcbOwned, TaskTypeOK
<1>14. NoFault /\ SchedConsistent
  BY <1>3, <1>7, <1>8, <1>9 DEF NoFault, SchedConsistent
<1> QED BY <1>10, <1>11, <1>12, <1>13, <1>14 DEF IInv

----------------------------------------------------------------------------
(* What calls on IPC objects do to the tasks: a task waits, is woken, and  *)
(* goes on after its wait.                                                 *)

(* The rest of an IPC call is the rest of no other call. *)
LEMMA IpcCallOther ==
    /\ \A o \in IpcList : CIpc(o) \in CallStates /\ CIpc(o) # None
    /\ \A o, u : CIpc(o) # CInit(u) /\ CIpc(o) # CEnQueue(u) /\ CIpc(o) # CJoin(u)
BY SMT DEF CIpc, CInit, CEnQueue, CJoin, CallStates, None

(* Ownership when c begins to wait on o. *)
LEMMA OwnWait ==
    ASSUME NEW s, Core(s), NEW r, NEW C, NEW D, NEW o \in IpcList, NEW c \in Task \ {Idle},
           Own(s, C), C[c] = None, Replaced(C, D, c), D[c] = CIpc(o),
           r.sched, s.sched, \A u \in Task : u # c => SameAt(s, r, u),
           "UNUSED" \notin s.status[c], "EXIT" \notin s.status[c], "RUNNING" \in s.status[c],
           Place(s, c, {}), Place(r, c, {Ipc(o)}),
           NEW X \in SUBSET {"PEND", "PEND_TIME"}, r.status[c] = s.status[c] \cup X
    PROVE  Own(r, D)
<1>1. c \in Context /\ \A u \in Task : \A b \in {"UNUSED", "EXIT", "JOINABLE"} :
                           b \in r.status[u] <=> b \in s.status[u]
  BY DEF SameAt, Context
<1>2. \A u \in Task : /\ On(r, u, FreeTask) <=> On(s, u, FreeTask)
                      /\ On(r, u, RecycleList) <=> On(s, u, RecycleList)
  BY NotJoinLists, IpcFacts DEF SameAt, Place
<1>3. \A u, x \in Task : On(r, u, JoinList(x)) <=> On(s, u, JoinList(x))
  <2>1. \A x \in Task : JoinList(x) \in Head_ /\ JoinList(x) # Ipc(o)
    BY HeadFacts, IpcFacts
  <2> QED BY <2>1 DEF SameAt, Place
<1>4. \A x \in Task : ~On(s, c, JoinList(x))
  BY HeadFacts DEF Place
<1>5. \A u \in Task : D[c] # CInit(u) /\ D[c] # CEnQueue(u) /\ D[c] # CJoin(u)
  BY IpcCallOther
<1>6. ASSUME NEW d \in Context PROVE C[d] # CInit(c) /\ C[d] # CEnQueue(c)
  <2>1. OwnC(s, C, d, c)
    BY DEF Own
  <2> QED BY <2>1 DEF OwnC, Fresh, Making
<1>7. ASSUME NEW u \in Task PROVE OwnT(r, D, u)
  <2>1. OwnT(s, C, u)
    BY DEF Own
  <2>2. \A d \in Context : C[d] = CInit(u) => D[d] = CInit(u)
    BY SMTT(60), CallFacts DEF Replaced
  <2>3. Unjoined(r, u) <=> Unjoined(s, u)
    BY <1>3 DEF Unjoined
  <2> QED BY <1>1, <1>2, <2>1, <2>2, <2>3 DEF OwnT
<1>8. ASSUME NEW d \in Context, NEW u \in Task PROVE OwnC(r, D, d, u)
  <2>1. OwnC(s, C, d, u)
    BY DEF Own
  <2>2. CASE d = c
    BY <1>3, <1>4, <1>5, <2>2 DEF OwnC
  <2>3. CASE d # c
    <3>1. D[d] = C[d]
      BY <2>3 DEF Replaced
    <3>2. C[d] = CInit(u) => Fresh(r, u)
      BY <1>6, <2>1 DEF OwnC, Fresh, SameAt, Place
    <3>3. C[d] = CEnQueue(u) => Making(r.status[u])
      BY <1>6, <2>1 DEF OwnC, SameAt
    <3>4. C[d] = CJoin(u) => d \in Task
      BY DEF Own, OwnCalls, Context
    <3>5. d \in Task => r.status[d] = s.status[d]
      BY <2>3 DEF SameAt
    <3> QED BY <1>1, <1>3, <2>1, <3>1, <3>2, <3>3, <3>4, <3>5 DEF OwnC
  <2> QED BY <2>2, <2>3
<1>9. OwnCalls(D)
  BY <1>1, <1>5, CallsReplaced DEF Own
<1>10. OwnSelf(r, D)
  <2>1. D[Shadow] = C[Shadow]
    BY TaskFacts DEF Replaced, Context
  <2> QED BY <1>1, <2>1 DEF Own, OwnSelf, Replaced, Context
<1> QED BY <1>7, <1>8, <1>9, <1>10 DEF Own

(* OsSchedTaskWait and LOS_Schedule of a call that waits on o. *)
LEMMA PendInv ==
    ASSUME NEW s, Inv(s, call, tick), RunsFreely(s), s.sched, s.taskLock = 0,
           call[s.run] = None, NEW o \in IpcList, NEW forever \in BOOLEAN,
           NEW r, r = LOS_Schedule(OsSchedTaskWait(s, Ipc(o), forever)),
           GoesOn(s.run, CIpc(o))
    PROVE  Inv(r, call', tick)
<1>1. /\ Core(s) /\ Own(s, call) /\ Leaves(s, tick) /\ s \in SchedState /\ Semi(s, call)
      /\ call \in [Context -> CallStates] /\ tick \in BOOLEAN
  BY DEF Inv, Semi, Core, Base
<1>2. PICK c : c = s.run
  OBVIOUS
<1>3. c \in Task \ {Idle} /\ RunsFreely(s) /\ c \in Context
  BY <1>2 DEF RunsFreely, Context
<1>4. /\ "RUNNING" \in s.status[c] /\ "UNUSED" \notin s.status[c] /\ "EXIT" \notin s.status[c]
  BY <1>1, <1>2, <1>3, RunsFreelyFacts
<1>5. PICK h \in WaitLists : h = Ipc(o)
  BY IpcFacts
<1>6. PICK a : a = OsSchedTaskWait(s, h, forever)
  OBVIOUS
<1>7. /\ Core(a) /\ Only(s, a, c) /\ Place(s, c, {}) /\ Place(a, c, {h})
      /\ a.status[c] = s.status[c] \cup (IF forever THEN {"PEND"} ELSE {"PEND", "PEND_TIME"})
  <2>1. /\ Core(s) /\ RunsFreely(s) /\ c = s.run /\ h \in WaitLists /\ forever \in BOOLEAN
        /\ a = OsSchedTaskWait(s, h, forever)
    BY <1>1, <1>2, <1>3, <1>6
  <2> QED BY SMTT(20), <2>1, WaitCore
<1>8. PICK X \in SUBSET {"PEND", "PEND_TIME"} :
         X = (IF forever THEN {"PEND"} ELSE {"PEND", "PEND_TIME"})
  OBVIOUS
<1>9. r = LOS_Schedule(a) /\ a.status[c] = s.status[c] \cup X /\ Place(a, c, {Ipc(o)})
  BY SMTT(20), <1>5, <1>6, <1>7, <1>8
<1>10. /\ Replaced(call, call', c) /\ call'[c] = CIpc(o) /\ call' \in [Context -> CallStates]
  <2>1. CIpc(o) \in CallStates /\ call' = [call EXCEPT ![c] = CIpc(o)]
    BY <1>2, IpcCallOther DEF GoesOn
  <2> QED BY <1>1, <1>3, <2>1 DEF Replaced
<1>11. a.sched = s.sched /\ a.run = s.run /\ a.taskLock = s.taskLock
       /\ \A u \in Task : u # c => SameAt(s, a, u)
  BY <1>7 DEF Only, SameGlobals
<1>12. Own(a, call')
  <2>1. /\ Core(s) /\ c \in Task \ {Idle} /\ Own(s, call) /\ call[c] = None
        /\ Replaced(call, call', c) /\ call'[c] = CIpc(o) /\ a.sched /\ s.sched
        /\ \A u \in Task : u # c => SameAt(s, a, u)
        /\ "UNUSED" \notin s.status[c] /\ "EXIT" \notin s.status[c]
        /\ "RUNNING" \in s.status[c] /\ Place(s, c, {}) /\ Place(a, c, {Ipc(o)})
        /\ X \in SUBSET {"PEND", "PEND_TIME"} /\ a.status[c] = s.status[c] \cup X
    BY <1>1, <1>2, <1>3, <1>4, <1>7, <1>8, <1>9, <1>10, <1>11
  <2> QED BY <2>1, OwnWait
<1>13. \A u \in Task : Alive(a, u)
  <2>1. \A u \in Task : Alive(s, u)
    BY <1>1 DEF Semi
  <2> QED BY <1>2, <1>11, <2>1 DEF Alive, SameAt
<1>14. Semi(a, call')
  BY <1>7, <1>10, <1>12, <1>13 DEF Semi
<1>15. /\ Semi(r, call') /\ SameButSwitch(a, r) /\ r.taskLock = a.taskLock
       /\ r.switch <=> a.switch \/ (a.sched /\ a.taskLock = 0)
  BY <1>9, <1>14, ScheduleSemi
<1> QED
  BY <1>1, <1>11, <1>15 DEF Inv, Leaves, SameButSwitch

(* OsSchedTaskWake of a task that waits on an IPC object. *)
LEMMA WakeSemi ==
    ASSUME NEW s, NEW C, Semi(s, C), NEW tk, Leaves(s, tk), NEW t \in Task, NEW o \in IpcList,
           On(s, t, Ipc(o)), NEW r, r = OsSchedTaskWake(s, t)
    PROVE  Semi(r, C) /\ Leaves(r, tk)
<1>1. Core(s) /\ Own(s, C) /\ Base(s) /\ Local(s, t) /\ s \in SchedState
  BY DEF Semi, Core, Base
<1>2. Ipc(o) \in Head_ /\ Ipc(o) \in WaitLists
  BY IpcFacts
<1>3. t # Idle
  BY <1>1, <1>2 DEF Base, ListsDisjoint, On
<1>4. "PEND" \in s.status[t]
  BY <1>1, <1>2, <1>3 DEF Local
<1>5. Core(r) /\ Only(s, r, t) /\ Woken(s, r, t) /\ OffLists(r, t)
  BY <1>1, <1>4, WakeCore
<1>6. "UNUSED" \notin s.status[t] /\ "EXIT" \notin s.status[t]
  BY <1>1, <1>4 DEF Local
<1>7. Settled(s, C, t)
  <2>1. \A c \in Context : OwnC(s, C, c, t)
    BY <1>1 DEF Own
  <2> QED BY <1>4, <1>6, <2>1 DEF Settled, OwnC, Making
<1>8. \A h \in Head_ : On(s, t, h) => h = Ipc(o)
  BY <1>1, <1>2 DEF Base, ListsDisjoint, On
<1>9. Steady(s, r, t)
  <2>1. \A x \in Task : ~On(s, t, JoinList(x)) /\ ~On(r, t, JoinList(x))
    BY <1>5, <1>8, IpcFacts, HeadFacts DEF OffLists
  <2>2. ~On(s, t, FreeTask) /\ ~On(s, t, RecycleList) /\ ~On(r, t, FreeTask)
        /\ ~On(r, t, RecycleList)
    BY <1>5, <1>8, IpcFacts, HeadFacts DEF OffLists
  <2>3. /\ "UNUSED" \in r.status[t] <=> "UNUSED" \in s.status[t]
        /\ "EXIT" \in r.status[t] <=> "EXIT" \in s.status[t]
        /\ "JOINABLE" \in r.status[t] <=> "JOINABLE" \in s.status[t]
        /\ "PEND_TIME" \in r.status[t] => "PEND_TIME" \in s.status[t]
    BY SMT, <1>5 DEF Woken
  <2> QED BY <2>1, <2>2, <2>3 DEF Steady
<1>10. r.run = s.run /\ r.sched = s.sched /\ r.switch = s.switch /\ r.taskLock = s.taskLock
       /\ r.status[Shadow] = s.status[Shadow]
       /\ \A u \in Task : u # t => r.status[u] = s.status[u]
  BY <1>5 DEF Only, SameGlobals, SameAt
<1>11. Alive(r, t)
  <2>1. "RUNNING" \in s.status[t] => s.run = t
    BY <1>1, <1>2, <1>8, IpcFacts, HeadFacts DEF Local
  <2> QED BY <1>5, <1>10, <2>1 DEF Woken, Alive
<1>12. Semi(r, C)
  BY <1>5, <1>7, <1>9, <1>11, TouchSemi
<1>13. Leaves(r, tk)
  <2>1. r.status[t] \cap Waits \subseteq s.status[t] \cap Waits
    BY <1>5 DEF Woken, Waits
  <2>2. s.run \in Task \cup {Shadow}
    BY <1>1 DEF SchedState
  <2>3. r.status[s.run] \cap Waits \subseteq s.status[s.run] \cap Waits
    BY <1>10, <2>1, <2>2
  <2>4. r.status[r.run] \cap Waits # {} => s.status[s.run] \cap Waits # {}
    BY <1>10, <2>3
  <2> QED BY <1>10, <2>4 DEF Leaves
<1> QED BY <1>12, <1>13

(* A wake-up that asks for a switch. *)
LEMMA WakeInv ==
    ASSUME NEW s, Inv(s, call, tick), NEW t \in Task, NEW o \in IpcList, On(s, t, Ipc(o)),
           NEW r, r = LOS_Schedule(OsSchedTaskWake(s, t))
    PROVE  Inv(r, call, tick)
<1>1. PICK a : a = OsSchedTaskWake(s, t)
  OBVIOUS
<1>2. Semi(s, call) /\ Leaves(s, tick) /\ tick \in BOOLEAN
  BY DEF Inv
<1>3. Semi(a, call) /\ Leaves(a, tick)
  BY <1>1, <1>2, WakeSemi
<1>4. /\ Semi(r, call) /\ SameButSwitch(a, r) /\ r.taskLock = a.taskLock
      /\ r.switch <=> a.switch \/ (a.sched /\ a.taskLock = 0)
  BY <1>1, <1>3, ScheduleSemi
<1> QED BY <1>2, <1>3, <1>4 DEF Inv, Leaves, SameButSwitch

(* A task that runs freely in an IPC call has been woken. *)
LEMMA ReturnInv ==
    ASSUME Inv(k, call, tick), Executing, NEW o \in IpcList, call[k.run] = CIpc(o),
           call[Shadow] # CIpc(o), k' = ClrStatus(k, k.run, {"TIMEOUT"}),
           Returns(k.run), tick' = tick
    PROVE  Inv(k', call', tick')
<1>1. /\ Core(k) /\ Own(k, call) /\ Leaves(k, tick) /\ k \in SchedState /\ Semi(k, call)
      /\ call \in [Context -> CallStates] /\ tick \in BOOLEAN /\ Base(k)
  BY DEF Inv, Semi, Core, Base
<1>2. PICK c : c = k.run
  OBVIOUS
<1>3. c # Shadow
  BY <1>2
<1>4. c \in Task \ {Idle} /\ RunsFreely(k) /\ c \in Context /\ k.sched
  BY <1>2, <1>3, ExecFacts DEF RunsFreely
<1>5. /\ "UNUSED" \notin k.status[c] /\ "EXIT" \notin k.status[c] /\ "RUNNING" \in k.status[c]
      /\ Place(k, c, {}) /\ Local(k, c)
  BY <1>1, <1>2, <1>4, RunsFreelyFacts
<1>6. Own(k, call') /\ call' \in [Context -> CallStates]
  <2>1. call' = [call EXCEPT ![c] = None] /\ None \in Plain
    BY <1>2, CallFacts DEF Returns
  <2>2. \A u \in Task : call[c] # CInit(u) /\ call[c] # CJoin(u)
    BY <1>2, IpcCallOther
  <2> QED BY <1>1, <1>3, <1>4, <1>5, <2>1, <2>2, OwnCallEnds
<1>7. {"TIMEOUT"} \in SUBSET Status /\ k' = ClrStatus(k, c, {"TIMEOUT"})
  BY <1>2 DEF Status
<1>8. /\ Base(k') /\ Only(k, k', c) /\ SamePlace(k, k', c) /\ k'.sortLink = k.sortLink
      /\ k'.status[c] = k.status[c] \ {"TIMEOUT"} /\ k'.priority[c] = k.priority[c]
  BY SMT, <1>1, <1>4, <1>7, SetClrEffect
<1>9. k'.run = k.run /\ k'.sched = k.sched /\ k'.switch = k.switch /\ k'.taskLock = k.taskLock
      /\ \A u \in Task : u # c => k'.status[u] = k.status[u]
  BY <1>8 DEF Only, SameGlobals, SameAt
<1>10. /\ \A h \in WaitLists \cup {FreeTask, RecycleList} : On(k', c, h) <=> On(k, c, h)
       /\ \A p \in Prio : On(k', c, PriQueue(p)) <=> On(k, c, PriQueue(p))
       /\ \A b \in Status \ {"TIMEOUT"} : b \in k'.status[c] <=> b \in k.status[c]
  BY <1>8, HeadFacts DEF SamePlace
<1>11. Place(k', c, {}) /\ c \notin k'.sortLink /\ k'.run = c /\ "RUNNING" \in k'.status[c]
       /\ k'.status[c] \cap {"READY", "PEND", "SUSPEND", "DELAY", "PEND_TIME",
                             "EXIT", "UNUSED"} = {}
  <2>1. c \notin k.sortLink /\ k.status[c] \cap {"READY", "UNUSED", "PEND", "SUSPEND", "DELAY",
                                                 "PEND_TIME", "EXIT"} = {}
    BY <1>1, <1>2, <1>4, RunsFreelyFacts
  <2>2. Place(k', c, {})
    BY <1>5, <1>8 DEF Place, SamePlace
  <2> QED BY <1>2, <1>5, <1>8, <1>9, <2>1, <2>2
<1>12. Core(k')
  <2>1. Local(k', c)
    BY <1>4, <1>8, <1>11, LocalRunning
  <2> QED BY <1>1, <1>4, <1>8, <2>1, CoreFromOnly
<1>13. Settled(k, call', c)
  <2>1. \A d \in Context : OwnC(k, call', d, c)
    BY <1>4, <1>6 DEF Own
  <2> QED BY <1>5, <2>1 DEF Settled, OwnC, Making
<1>14. Steady(k, k', c) /\ Alive(k', c)
  <2>1. {"UNUSED", "EXIT", "JOINABLE", "PEND_TIME"} \subseteq Status \ {"TIMEOUT"}
    BY DEF Status
  <2>2. Steady(k, k', c)
    BY <1>4, <1>10, <2>1, SteadyIf
  <2> QED BY <1>11, <2>2 DEF Alive
<1>15. Semi(k', call')
  <2>1. Semi(k, call')
    BY <1>1, <1>6 DEF Semi
  <2> QED BY <1>4, <1>8, <1>12, <1>13, <1>14, <2>1, TouchSemi
<1> QED
  <2>1. k'.status[k'.run] \cap Waits = {} /\ k'.run # Shadow
    BY <1>3, <1>11 DEF Waits
  <2>2. k'.switch => k'.sched /\ k'.taskLock = 0
    BY <1>1, <1>9 DEF Leaves
  <2> QED BY <1>1, <1>4, <1>9, <1>15, <2>1, <2>2 DEF Inv, Leaves

----------------------------------------------------------------------------
(* A set of numbers that is not empty has a smallest member. *)
LEMMA NatMin == HasLeast
<1> SUFFICES ASSUME NEW T \in SUBSET Nat, T # {}
             PROVE  \E x \in T : \A y \in T : x <= y
  BY DEF HasLeast
<1> DEFINE R == OpToRel(<, Nat)
<1>1. IsWellFoundedOn(R, Nat)
  BY NatLessThanWellFounded
<1>2. \A x, y \in Nat : y < x => <<y, x>> \in R
  BY DEF OpToRel
<1> HIDE DEF R
<1>3. \E x \in T : \A y \in T : ~(<<y, x>> \in R)
  BY <1>1, WFMin
<1>4. \A x, y \in Nat : ~(y < x) => x <= y
  BY SMT
<1> QED BY <1>2, <1>3, <1>4

(* Every step of the program and of the interrupt handlers keeps IInv. *)
LEMMA NextInv ==
    ASSUME Unguarded = {}, IInv, [TaskNext]_taskVars PROVE IInv'
<1>1. Inv(k, call, tick)
  BY IInvMeans
<1> SUFFICES Inv(k', call', tick')
  BY IInvMeans
<1>2. ASSUME NEW t \in Task, Resume(t) PROVE Inv(k', call', tick')
  BY <1>1, <1>2, ResumeInv
<1>3. ASSUME NEW t \in Task, Suspend(t) PROVE Inv(k', call', tick')
  BY <1>1, <1>3, SuspendInv
<1>4. ASSUME NEW t \in Task, Delete(t) PROVE Inv(k', call', tick')
  BY <1>1, <1>4, DeleteInv
<1>5. ASSUME NEW t \in Task, Join(t) \/ DetachExited(t) PROVE Inv(k', call', tick')
  BY <1>1, <1>5, JoinInv
<1>6. ASSUME NEW t \in Task, JoinFinish(t) PROVE Inv(k', call', tick')
  BY <1>1, <1>6, JoinFinishInv
<1>7. ASSUME NEW t \in Task, Detach(t) PROVE Inv(k', call', tick')
  BY <1>1, <1>7, DetachInv
<1>8. ASSUME NEW t \in Task, CreateEnQueue(t) PROVE Inv(k', call', tick')
  BY <1>1, <1>8, CreateEnQueueInv
<1>9. ASSUME NEW t \in Task, TickExpire(t) PROVE Inv(k', call', tick')
  BY <1>1, <1>9, TickExpireInv
<1>10. ASSUME NEW t \in Task, NEW p \in Prio, PriSet(t, p) PROVE Inv(k', call', tick')
  BY <1>1, <1>10, PriSetInv
<1>11. ASSUME NEW t \in Task, NEW p \in 0 .. (PriNum - 2), NEW attr \in Attrs,
              CreateInit(t, p, attr)
       PROVE  Inv(k', call', tick')
  BY <1>1, <1>11, CreateInitInv
<1>12. CASE Yield \/ TickEnd
  BY <1>1, <1>12, YieldInv
<1>13. CASE Delay
  BY <1>1, <1>13, DelayInv
<1>14. CASE Lock \/ Unlock
  BY <1>1, <1>14, LockInv
<1>15. CASE CreateRecycle
  BY <1>1, <1>15, CreateRecycleInv
<1>16. CASE CreatePop
  BY <1>1, <1>16, CreatePopInv
<1>17. CASE IdleRecycle
  BY <1>1, <1>17, IdleRecycleInv
<1>18. CASE LOS_Start
  BY <1>1, <1>18, StartInv, NatMin
<1>19. CASE Switch
  BY <1>1, <1>19, SwitchInv, NatMin
<1>20. CASE TickBegin
  BY <1>1, <1>20, TickBeginInv
<1>21. CASE UNCHANGED taskVars
  BY <1>1, <1>21, Zenon DEF taskVars
<1> QED
  BY <1>2, <1>3, <1>4, <1>5, <1>6, <1>7, <1>8, <1>9, <1>10, <1>11, <1>12, <1>13, <1>14,
     <1>15, <1>16, <1>17, <1>18, <1>19, <1>20, <1>21 DEF TaskNext

(* The inductive invariant holds in every state of a program that keeps to *)
(* the API, whatever the interleaving of tasks, interrupts and ticks.      *)
THEOREM TaskSafe ==
    ASSUME Unguarded = {} PROVE TaskSpec => []IInv
<1>1. TaskInit => IInv
  BY InitInv
<1>2. IInv /\ [TaskNext]_taskVars => IInv'
  BY NextInv
<1> QED BY <1>1, <1>2, PTL DEF TaskSpec

(* The state of the scheduler, of the calls and of the tick keeps its type. *)
THEOREM TaskTypeCorrect ==
    ASSUME Unguarded = {} PROVE TaskSpec => []TaskTypeOK
<1>1. IInv => TaskTypeOK
  BY DEF IInv
<1> QED BY <1>1, TaskSafe, PTL

(* Where LOS_IntRestore nests and OsSchedTaskSwitch is masked, and no      *)
(* handler resumes the task it interrupted, no LOS_ASSERT of los_sched.c   *)
(* fails and no doubly linked list is torn by a second LOS_ListDelete or   *)
(* by wiping a TCB that is still linked.                                   *)
THEOREM TaskNoFault ==
    ASSUME Unguarded = {} PROVE TaskSpec => []NoFault
<1>1. IInv => NoFault
  BY DEF IInv
<1> QED BY <1>1, TaskSafe, PTL

(* taskStatus agrees with the ready queues, the bitmap, the wait lists and *)
(* the sort link at the end of every outermost interrupt-locked section,   *)
(* where inner LOS_IntRestore calls end none.                              *)
THEOREM TaskSchedConsistent ==
    ASSUME Unguarded = {} PROVE TaskSpec => []SchedConsistent
<1>1. IInv => SchedConsistent
  BY DEF IInv
<1> QED BY <1>1, TaskSafe, PTL

(* No live task falls out of every queue of the scheduler. *)
THEOREM TaskNotLost ==
    ASSUME Unguarded = {} PROVE TaskSpec => []NoTaskLost
<1>1. IInv => NoTaskLost
  BY DEF IInv
<1> QED BY <1>1, TaskSafe, PTL

(* A task that has blocked, suspended or deleted itself is switched out    *)
(* before its code goes on, and no switch is asked for under a task lock.  *)
THEOREM TaskBlockedLeaves ==
    ASSUME Unguarded = {} PROVE TaskSpec => []BlockedLeaves
<1>1. IInv => BlockedLeaves
  BY DEF IInv
<1> QED BY <1>1, TaskSafe, PTL

(* The free list, the recycle list, a LOS_TaskCreate in progress and the   *)
(* joiner never lay claim to the same TCB, and a deleted one is always     *)
(* claimed, where LOS_TaskDelete is one locked section: the inner          *)
(* LOS_IntRestore of LOS_EventDestroy does not end it.                     *)
THEOREM TaskTcbOwned ==
    ASSUME Unguarded = {} PROVE TaskSpec => []TcbOwned
<1>1. IInv => TcbOwned
  BY DEF IInv
<1> QED BY <1>1, TaskSafe, PTL

(* LOS_TaskJoin, when it goes on after its wait, meets the task it waited  *)
(* for and not one created on the same TCB in the meantime.                *)
THEOREM TaskJoinReclaims ==
    ASSUME Unguarded = {} PROVE TaskSpec => JoinReclaimsExited
<1>1. IInv => [\A t \in Task : JoinFinish(t) => Has(k, t, {"EXIT"})]_taskVars
  <2> SUFFICES ASSUME IInv, NEW t \in Task, JoinFinish(t) PROVE Has(k, t, {"EXIT"})
    OBVIOUS
  <2>1. "EXIT" \in k.status[t]
    BY IInvMeans, JoinedExited
  <2> QED BY <2>1 DEF Has
<1> QED BY <1>1, TaskSafe, PTL DEF JoinReclaimsExited

(* LOS_TaskYield, and a tick that finds the slice used up, give way: the   *)
(* switch does not come back to the task while another of its priority or  *)
(* a better one is ready.                                                  *)
THEOREM TaskYieldGivesWay ==
    ASSUME Unguarded = {} PROVE TaskSpec => YieldGivesWay
<1>1. IInv => [\A t \in Task \ {Idle} :
                  /\ Switch /\ k.run = t /\ ~k.slice[t]
                  /\ \E u \in Task \ {Idle} :
                        Has(k, u, {"READY"}) /\ k.priority[u] <= k.priority[t]
                  => k'.run # t]_taskVars
  <2> SUFFICES ASSUME IInv, NEW t \in Task \ {Idle}, Switch, k.run = t, ~k.slice[t],
                      NEW u \in Task \ {Idle}, Has(k, u, {"READY"}),
                      k.priority[u] <= k.priority[t]
               PROVE  k'.run # t
    OBVIOUS
  <2>1. Core(k)
    BY IInvMeans DEF Inv, Semi
  <2>2. "READY" \in k.status[u]
    BY DEF Has
  <2>3. PICK spent \in BOOLEAN : k' = OsSchedTaskSwitch(k, spent)
    BY DEF Switch
  <2> QED BY <2>1, <2>2, <2>3, GivesWay, NatMin
<1> QED BY <1>1, TaskSafe, PTL DEF YieldGivesWay
============================================================================
