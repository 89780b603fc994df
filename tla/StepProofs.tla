----------------------------- MODULE StepProofs -----------------------------
(***************************************************************************)
(* The inductive invariant of module Task, and that it is kept by the      *)
(* calls on one task, by the tick, and by recycling and creating.          *)
(*                                                                         *)
(* The invariant IInv is the conjunction of the type invariant and of the  *)
(* safety invariants the runs check.  SchedConsistent alone is not         *)
(* inductive: that LOS_TaskJoin reclaims a TCB which hangs on no list      *)
(* rests on TcbOwned, and TcbOwned needs BlockedLeaves, by which a task    *)
(* that waits on a joinList does not go on with its call.                  *)
(***************************************************************************)
EXTENDS SchedProofs

(* Zenon proves the leaves that name no other prover. *)
USE Zenon

(* Own is Owned in other words. *)
LEMMA OwnMeans ==
    ASSUME NEW s \in SchedState, NEW C \in [Context -> CallStates]
    PROVE  Owned(s, C) <=> Own(s, C)
<1> DEFINE A1 == \A t \in Task :
          /\ Has(s, t, {"UNUSED"}) =>
                \/ t \in OnList(s, FreeTask) \cup OnList(s, RecycleList)
                \/ \E c \in Context : C[c] = <<"init", t>>
          /\ OnList(s, JoinList(t)) # {} =>
                Has(s, t, {"JOINABLE"}) /\ ~Has(s, t, {"EXIT", "UNUSED"})
          /\ Has(s, t, {"EXIT"}) => Has(s, t, {"JOINABLE", "UNUSED"})
    A2 == \A c \in Context, t \in Task :
          /\ C[c] = <<"init", t>> => s.status[t] = {"UNUSED"} /\ ~Linked(s, t)
          /\ C[c] = <<"enqueue", t>> =>
                Has(s, t, {"SUSPEND"})
                /\ ~Has(s, t, {"RUNNING", "READY", "PEND", "DELAY", "EXIT", "UNUSED"})
          /\ C[c] = <<"join", t>> =>
                /\ Has(s, t, {"JOINABLE"}) /\ ~Has(s, t, {"UNUSED"})
                /\ c \in OnList(s, JoinList(t)) \/ Has(s, t, {"EXIT"})
          /\ c \in OnList(s, JoinList(t)) =>
                C[c] = <<"join", t>> /\ ~Has(s, c, {"PEND_TIME"})
    A3 == \A c, d \in Context : c # d /\ C[c] = C[d] =>
          C[c][1] \in {"none", "recycle", "pop", "ipc"}
    A4 == \A c, d \in Context, t \in Task :
          C[c] = <<"join", t>> => c # t /\ C[d] # <<"enqueue", t>>
    A5 == \A c \in Task : C[c] # None => c # Idle /\ ~Has(s, c, {"UNUSED", "EXIT"})
    A6 == C[Shadow][1] # "join"
    A7 == /\ s.sched => C[Shadow] = None
          /\ ~s.sched => \A c \in Task : C[c] = None
<1>1. Owned(s, C) <=> A1 /\ A2 /\ A3 /\ A4 /\ A5 /\ A6 /\ A7
  BY DEF Owned
<1>2. \A h \in Head_ : OnList(s, h) \subseteq Task
  BY MembersAreTasks
<1>3. \A t \in Task : JoinList(t) \in Head_
  BY HeadFacts
<1>4. A1 <=> \A t \in Task : OwnT(s, C, t)
  <2>1. ASSUME NEW t \in Task PROVE OnList(s, JoinList(t)) # {} <=> ~Unjoined(s, t)
    BY UnjoinedEmpty
  <2> QED BY <2>1 DEF OwnT, Has, On, CInit
<1>5. A2 <=> \A c \in Context, t \in Task : OwnC(s, C, c, t)
  <2>1. ASSUME NEW c \in Context, NEW t \in Task
        PROVE  c \in OnList(s, JoinList(t)) <=> c \in Task /\ On(s, c, JoinList(t))
    BY <1>2, <1>3 DEF On
  <2>2. ASSUME NEW t \in Task PROVE ~Linked(s, t) <=> Place(s, t, {})
    BY DEF Linked, Place, On
  <2>3. ASSUME NEW c \in Context, NEW t \in Task
        PROVE  c \in OnList(s, JoinList(t)) <=> On(s, c, JoinList(t))
    BY DEF On
  <2> QED BY SMT, <2>1, <2>2, <2>3 DEF OwnC, Has, CInit, CEnQueue, CJoin, Fresh, Making
<1>6. A3 /\ A4 /\ A6 <=> OwnCalls(C)
  <2>1. \A c \in Context : C[c] \in CallStates
    OBVIOUS
  <2>2. Shadow \in Context
    BY DEF Context
  <2>3. A3 <=> \A c, d \in Context, t \in Task :
                /\ C[c] = CInit(t) /\ C[d] = CInit(t) => c = d
                /\ C[c] = CEnQueue(t) /\ C[d] = CEnQueue(t) => c = d
                /\ C[c] = CJoin(t) /\ C[d] = CJoin(t) => c = d
    BY SMT, <2>1 DEF CallStates, None, CInit, CEnQueue, CJoin
  <2>4. A6 <=> \A t \in Task : C[Shadow] # CJoin(t)
    BY SMT, <2>1, <2>2 DEF CallStates, None, CJoin
  <2> QED BY SMT, <2>2, <2>3, <2>4 DEF OwnCalls, CEnQueue, CJoin
<1>7. A5 /\ A7 <=> OwnSelf(s, C)
  BY DEF OwnSelf, Has
<1> HIDE DEF A1, A2, A3, A4, A5, A6, A7
<1> QED BY <1>1, <1>4, <1>5, <1>6, <1>7 DEF Own

(* What no operation but creating, deleting, joining and detaching changes *)
(* of a task u.                                                            *)
Steady(s, r, u) ==
    /\ "UNUSED" \in r.status[u] <=> "UNUSED" \in s.status[u]
    /\ "EXIT" \in r.status[u] <=> "EXIT" \in s.status[u]
    /\ "JOINABLE" \in r.status[u] <=> "JOINABLE" \in s.status[u]
    /\ "PEND_TIME" \in r.status[u] => "PEND_TIME" \in s.status[u]
    /\ \A x \in Task : On(r, u, JoinList(x)) <=> On(s, u, JoinList(x))
    /\ On(r, u, FreeTask) <=> On(s, u, FreeTask)
    /\ On(r, u, RecycleList) <=> On(s, u, RecycleList)

(* The TCB is in use and its ID has been returned. *)
Settled(s, C, u) ==
    "UNUSED" \notin s.status[u] /\ \A c \in Context : C[c] # CEnQueue(u)

(* A switch moves a task between ready and running only. *)
Moved(s, r, u) == Kept(s, r, u) /\ (r.run = u => r.status[u] \cap Waits = {})

(* A task that is not touched is steady. *)
LEMMA SameSteady ==
    ASSUME NEW s, NEW r, NEW u \in Task, SameAt(s, r, u)
    PROVE  Steady(s, r, u)
<1>1. /\ \A x \in Task : JoinList(x) \in Head_
      /\ FreeTask \in Head_ /\ RecycleList \in Head_
  BY HeadFacts
<1>2. r.status[u] = s.status[u] /\ \A h \in Head_ : On(r, u, h) <=> On(s, u, h)
  BY DEF SameAt
<1> QED BY <1>1, <1>2 DEF Steady

(* So is one that keeps its bits and its wait list. *)
LEMMA KeptSteady ==
    ASSUME NEW s, NEW r, NEW u \in Task, Kept(s, r, u)
    PROVE  Steady(s, r, u)
<1>1. \A x \in Task : JoinList(x) \in WaitLists
  BY HeadFacts
<1> QED BY <1>1 DEF Steady, Kept, Status

(* A TCB that is being created stays as it is. *)
LEMMA FreshFrame ==
    ASSUME NEW s, Core(s), NEW r, Core(r), NEW u \in Task, Fresh(s, u),
           SameAt(s, r, u) \/ Moved(s, r, u)
    PROVE  Fresh(r, u)
<1>1. CASE SameAt(s, r, u)
  BY <1>1 DEF Fresh, SameAt, Place
<1>2. CASE Moved(s, r, u)
  <2>1. /\ Base(r) /\ Local(r, u) /\ r.status[u] \in SUBSET Status
    BY DEF Core, Base, SchedState
  <2>2. Kept(s, r, u) /\ s.status[u] = {"UNUSED"}
    BY <1>2 DEF Moved, Fresh
  <2>3. \A h \in WaitLists \cup {FreeTask, RecycleList} : ~On(r, u, h)
    <3>1. \A h \in WaitLists \cup {FreeTask, RecycleList} : h \in Head_
      BY HeadFacts
    <3> QED BY <2>2, <3>1 DEF Kept, Fresh, Place
  <2>4. \A b \in Status \ {"READY", "RUNNING"} : b \in r.status[u] <=> b = "UNUSED"
    BY <2>2 DEF Kept
  <2>5. "UNUSED" \in r.status[u]
    BY <2>4 DEF Status
  <2>6. "READY" \notin r.status[u] /\ "RUNNING" \notin r.status[u] /\ u # Idle
    BY <2>1, <2>3, <2>5 DEF Local
  <2>7. r.status[u] = {"UNUSED"}
    BY <2>1, <2>4, <2>5, <2>6
  <2>8. \A p \in Prio : ~On(r, u, PriQueue(p))
    BY <2>1, <2>6 DEF Local
  <2>9. Place(r, u, {})
    BY SMT, <2>3, <2>8, HeadFacts DEF Place
  <2> QED BY <2>7, <2>9 DEF Fresh
<1> QED BY <1>1, <1>2

(* And so does one that LOS_TaskCreate has yet to make ready. *)
LEMMA MakingFrame ==
    ASSUME NEW s, Core(s), NEW r, Core(r), NEW u \in Task, Making(s.status[u]),
           SameAt(s, r, u) \/ Moved(s, r, u)
    PROVE  Making(r.status[u])
<1>1. CASE SameAt(s, r, u)
  BY <1>1 DEF SameAt
<1>2. CASE Moved(s, r, u)
  <2>1. Local(r, u)
    BY DEF Core
  <2>2. /\ "SUSPEND" \in r.status[u] /\ "PEND" \notin r.status[u]
        /\ "DELAY" \notin r.status[u] /\ "EXIT" \notin r.status[u]
        /\ "UNUSED" \notin r.status[u]
    BY <1>2 DEF Moved, Kept, Making, Status
  <2>3. r.run # u
    BY <1>2, <2>2 DEF Moved, Waits
  <2>4. "READY" \notin r.status[u] /\ "RUNNING" \notin r.status[u]
    BY <2>1, <2>2, <2>3 DEF Local
  <2> QED BY <2>2, <2>4 DEF Making
<1> QED BY <1>1, <1>2

(* Ownership survives every step that leaves the calls alone, keeps every  *)
(* task steady, and touches only settled tasks or moves them.              *)
LEMMA OwnFrame ==
    ASSUME NEW s, Core(s), NEW r, Core(r), NEW C, Own(s, C), r.sched = s.sched,
           \A u \in Task : Steady(s, r, u),
           \A u \in Task : SameAt(s, r, u) \/ Moved(s, r, u) \/ Settled(s, C, u)
    PROVE  Own(r, C)
<1>1. ASSUME NEW t \in Task PROVE OwnT(r, C, t)
  <2>1. OwnT(s, C, t) /\ Steady(s, r, t)
    BY DEF Own
  <2>2. Unjoined(r, t) <=> Unjoined(s, t)
    BY DEF Steady, Unjoined
  <2> QED BY <2>1, <2>2 DEF OwnT, Steady
<1>2. ASSUME NEW c \in Context, NEW t \in Task PROVE OwnC(r, C, c, t)
  <2>1. OwnC(s, C, c, t) /\ Steady(s, r, t)
    BY DEF Own
  <2>2. C[c] = CInit(t) => Fresh(r, t)
    BY <2>1, FreshFrame DEF OwnC, Settled, Fresh
  <2>3. C[c] = CEnQueue(t) => Making(r.status[t])
    BY <2>1, MakingFrame DEF OwnC, Settled
  <2>4. C[c] = CJoin(t) => c \in Task
    BY DEF Own, OwnCalls, Context
  <2>5. c \in Task => Steady(s, r, c)
    OBVIOUS
  <2> QED BY <2>1, <2>2, <2>3, <2>4, <2>5 DEF OwnC, Steady
<1>3. OwnSelf(r, C)
  <2>1. OwnSelf(s, C)
    BY DEF Own
  <2> QED BY <2>1 DEF OwnSelf, Steady
<1> QED BY <1>1, <1>2, <1>3 DEF Own

(* A call that neither takes a new TCB nor joins may end or begin.         *)
LEMMA OwnCallEnds ==
    ASSUME NEW s, NEW C \in [Context -> CallStates], Own(s, C), NEW c \in Context,
           \A t \in Task : C[c] # CInit(t) /\ C[c] # CJoin(t),
           NEW v \in Plain, NEW D, D = [C EXCEPT ![c] = v],
           c \in Task => c # Idle /\ "UNUSED" \notin s.status[c] /\ "EXIT" \notin s.status[c],
           IF s.sched THEN c # Shadow ELSE c = Shadow
    PROVE  Own(s, D) /\ D \in [Context -> CallStates]
<1>1. /\ D \in [Context -> CallStates] /\ D[c] \in Plain
      /\ \A d \in Context : d # c => D[d] = C[d]
  BY CallFacts
<1>2. \A t \in Task : D[c] # CInit(t) /\ D[c] # CJoin(t) /\ D[c] # CEnQueue(t)
  BY SMT, <1>1, CallFacts
<1>3. ASSUME NEW t \in Task PROVE OwnT(s, D, t)
  BY <1>1, <1>2 DEF Own, OwnT
<1>4. ASSUME NEW d \in Context, NEW t \in Task PROVE OwnC(s, D, d, t)
  BY SMT, <1>1, <1>2 DEF Own, OwnC
<1>5. OwnCalls(D)
  BY SMT, <1>1, <1>2 DEF Own, OwnCalls
<1>6. OwnSelf(s, D)
  BY <1>1, TaskFacts DEF Own, OwnSelf, Context
<1> QED BY <1>1, <1>3, <1>4, <1>5, <1>6 DEF Own

(* The calls D differ from C in what c does next. *)
Replaced(C, D, c) ==
    /\ D \in [Context -> CallStates]
    /\ \A d \in Context : d # c => D[d] = C[d]

(* No call but that of c is about the TCB t, and that of c about no other. *)
OnlyCaller(C, c, t) ==
    /\ \A d \in Context : d # c => /\ C[d] # CInit(t) /\ C[d] # CEnQueue(t)
                                   /\ C[d] # CJoin(t)
    /\ \A u \in Task : u # t => C[c] # CInit(u) /\ C[c] # CJoin(u)

(* A call that goes on without a TCB, or with one no other call is about, is not in the way. *)
LEMMA CallsReplaced ==
    ASSUME NEW C, NEW D, NEW c \in Context, OwnCalls(C), Replaced(C, D, c),
           \A u \in Task :
              \/ D[c] # CInit(u) /\ D[c] # CEnQueue(u) /\ D[c] # CJoin(u)
              \/ /\ D[c] # CJoin(u)
                 /\ \A d \in Context : d # c => /\ C[d] # CInit(u) /\ C[d] # CEnQueue(u)
                                                /\ C[d] # CJoin(u)
    PROVE  OwnCalls(D)
<1> SUFFICES ASSUME NEW a \in Context, NEW d \in Context, NEW u \in Task
             PROVE  /\ D[a] = CInit(u) /\ D[d] = CInit(u) => a = d
                    /\ D[a] = CEnQueue(u) /\ D[d] = CEnQueue(u) => a = d
                    /\ D[a] = CJoin(u) /\ D[d] = CJoin(u) => a = d
                    /\ D[a] = CJoin(u) => a # u /\ a # Shadow /\ D[d] # CEnQueue(u)
  BY DEF OwnCalls
<1>1. /\ C[a] = CInit(u) /\ C[d] = CInit(u) => a = d
      /\ C[a] = CEnQueue(u) /\ C[d] = CEnQueue(u) => a = d
      /\ C[a] = CJoin(u) /\ C[d] = CJoin(u) => a = d
      /\ C[a] = CJoin(u) => a # u /\ a # Shadow /\ C[d] # CEnQueue(u)
  BY DEF OwnCalls
<1>2. (a # c => D[a] = C[a]) /\ (d # c => D[d] = C[d])
  BY DEF Replaced
<1> QED BY <1>1, <1>2

(* Joiners stay joiners when a task that joins nothing is touched. *)
LEMMA JoinersFrame ==
    ASSUME NEW s, NEW r, NEW C, NEW t \in Task, Own(s, C), Only(s, r, t), C[t] = None,
           \A x \in Task : ~On(r, t, JoinList(x))
    PROVE  \A u, x \in Task : On(r, u, JoinList(x)) <=> On(s, u, JoinList(x))
<1> SUFFICES ASSUME NEW u \in Task, NEW x \in Task
             PROVE  On(r, u, JoinList(x)) <=> On(s, u, JoinList(x))
  OBVIOUS
<1>1. JoinList(x) \in Head_
  BY HeadFacts
<1>2. CASE u # t
  BY <1>1, <1>2 DEF Only, SameAt
<1>3. CASE u = t
  <2>1. OwnC(s, C, t, x)
    BY DEF Own, Context
  <2>2. CJoin(x) # None
    BY CallFacts
  <2> QED BY <1>3, <2>1, <2>2 DEF OwnC
<1> QED BY <1>2, <1>3

(* A step of c that touches the TCB t, the one its call is about: what it  *)
(* does to the other tasks and calls need not be looked at.                *)
LEMMA OwnTouch ==
    ASSUME NEW s, NEW r, NEW C, NEW D, NEW t \in Task, NEW c \in Context,
           Own(s, C), Only(s, r, t), OnlyCaller(C, c, t), Replaced(C, D, c),
           \A u, x \in Task : On(r, u, JoinList(x)) <=> On(s, u, JoinList(x)),
           "PEND_TIME" \in r.status[t] => "PEND_TIME" \in s.status[t],
           \A u \in Task : u # t => /\ D[c] # CInit(u) /\ D[c] # CEnQueue(u)
                                    /\ D[c] # CJoin(u),
           OwnT(r, D, t), \A d \in Context : OwnC(r, D, d, t), OwnCalls(D), OwnSelf(r, D)
    PROVE  Own(r, D)
<1>1. \A u \in Task : u # t => SameAt(s, r, u)
  BY DEF Only
<1>5. ASSUME NEW u \in Task, u # t PROVE OwnT(r, D, u)
  <2>1. Steady(s, r, u)
    BY <1>1, <1>5, SameSteady
  <2>2. Unjoined(r, u) <=> Unjoined(s, u)
    BY DEF Unjoined
  <2>3. \A d \in Context : C[d] = CInit(u) => D[d] = CInit(u)
    BY <1>5 DEF OnlyCaller, Replaced
  <2>4. OwnT(s, C, u)
    BY DEF Own
  <2> QED BY <2>1, <2>2, <2>3, <2>4 DEF OwnT, Steady
<1>6. ASSUME NEW d \in Context, NEW u \in Task, u # t PROVE OwnC(r, D, d, u)
  <2>1. OwnC(s, C, d, u)
    BY DEF Own
  <2>2. SameAt(s, r, u) /\ Steady(s, r, u)
    BY <1>1, <1>6, SameSteady
  <2>3. D[d] \in {CInit(u), CEnQueue(u), CJoin(u)} => d # c /\ D[d] = C[d]
    BY <1>6 DEF Replaced
  <2>4. C[d] = CJoin(u) => d # c /\ d \in Task
    BY <1>6 DEF OnlyCaller, Own, OwnCalls, Context
  <2>5. D[d] = CInit(u) => Fresh(r, u)
    BY <2>1, <2>2, <2>3 DEF OwnC, Fresh, SameAt, Place
  <2>6. D[d] = CEnQueue(u) => Making(r.status[u])
    BY <2>1, <2>2, <2>3 DEF OwnC, SameAt
  <2>7. d \in Task /\ On(r, d, JoinList(u)) =>
           D[d] = CJoin(u) /\ "PEND_TIME" \notin r.status[d]
    <3> SUFFICES ASSUME d \in Task, On(r, d, JoinList(u))
                 PROVE  D[d] = CJoin(u) /\ "PEND_TIME" \notin r.status[d]
      OBVIOUS
    <3>1. On(s, d, JoinList(u)) /\ C[d] = CJoin(u) /\ "PEND_TIME" \notin s.status[d]
      BY <2>1 DEF OwnC
    <3> QED BY <1>1, <2>4, <3>1 DEF SameAt, Replaced
  <2>8. D[d] = CJoin(u) => /\ "JOINABLE" \in r.status[u] /\ "UNUSED" \notin r.status[u]
                           /\ "EXIT" \notin r.status[u] => On(r, d, JoinList(u))
    BY <2>1, <2>2, <2>3, <2>4 DEF OwnC, Steady
  <2> QED BY <2>5, <2>6, <2>7, <2>8 DEF OwnC
<1> QED BY <1>5, <1>6 DEF Own

(* The TCB t goes to the free list, and the call of c that was about it,   *)
(* if any, ends.                                                           *)
LEMMA OwnFreed ==
    ASSUME NEW s, NEW r, NEW C, NEW D, NEW t \in Task \ {Idle}, NEW c \in Context,
           Own(s, C), Freed(s, r, t), Unjoined(s, t), OnlyCaller(C, c, t),
           Replaced(C, D, c), D[c] \in Plain, C[t] = None, D[t] = None, OwnSelf(s, D)
    PROVE  Own(r, D)
<1>1. /\ Only(s, r, t) /\ Place(r, t, {FreeTask}) /\ r.status[t] = {"UNUSED"}
      /\ \A u \in Task : u # t => SameAt(s, r, u)
      /\ r.sched = s.sched
  BY DEF Freed, Only, SameGlobals
<1>2. \A x \in Task : ~On(r, t, JoinList(x))
  BY SMTT(20), <1>1, HeadFacts DEF Place
<1>3. \A u, x \in Task : On(r, u, JoinList(x)) <=> On(s, u, JoinList(x))
  BY <1>1, <1>2, JoinersFrame
<1>4. \A u \in Task : D[c] # CInit(u) /\ D[c] # CJoin(u) /\ D[c] # CEnQueue(u)
  BY SMT, CallFacts
<1>5. OwnT(r, D, t)
  <2>1. On(r, t, FreeTask) /\ Unjoined(r, t)
    BY <1>1, <1>3, HeadFacts DEF Place, Unjoined
  <2> QED BY <1>1, <2>1 DEF OwnT
<1>6. ASSUME NEW d \in Context PROVE OwnC(r, D, d, t)
  <2>1. D[d] # CInit(t) /\ D[d] # CEnQueue(t) /\ D[d] # CJoin(t)
    BY <1>4 DEF OnlyCaller, Replaced
  <2>2. d \in Task => ~On(r, d, JoinList(t))
    BY <1>3 DEF Unjoined
  <2> QED BY <2>1, <2>2 DEF OwnC
<1>7. OwnCalls(D)
  BY SMT, <1>4 DEF Own, OwnCalls, Replaced
<1>8. OwnSelf(r, D)
  <2>1. \A u \in Task : u # t => r.status[u] = s.status[u]
    BY <1>1 DEF SameAt
  <2> QED BY <1>1, <2>1 DEF OwnSelf
<1>9. "PEND_TIME" \notin r.status[t]
  BY <1>1
<1> QED BY <1>1, <1>3, <1>4, <1>5, <1>6, <1>7, <1>8, <1>9, OwnTouch

(* LOS_TaskCreateOnly takes a TCB from the free list. *)
LEMMA OwnPopped ==
    ASSUME NEW s, Core(s), NEW r, NEW C, NEW D, NEW t \in Task \ {Idle}, NEW c \in Context,
           Own(s, C), On(s, t, FreeTask), Only(s, r, t), Place(r, t, {}),
           r.status = s.status, C[c] \in Plain, Replaced(C, D, c), D[c] = CInit(t),
           OwnSelf(s, D)
    PROVE  Own(r, D)
<1>1. s.status[t] = {"UNUSED"}
  BY DEF Core, Local
<1>2. ~Place(s, t, {})
  BY HeadFacts DEF Place
<1>3. C[t] = None
  BY <1>1 DEF Own, OwnSelf
<1>4. \A x \in Task : ~On(r, t, JoinList(x))
  BY HeadFacts DEF Place
<1>5. \A u, x \in Task : On(r, u, JoinList(x)) <=> On(s, u, JoinList(x))
  BY <1>3, <1>4, JoinersFrame
<1>6. ASSUME NEW d \in Context PROVE C[d] # CInit(t) /\ C[d] # CEnQueue(t) /\ C[d] # CJoin(t)
  <2>1. OwnC(s, C, d, t)
    BY DEF Own
  <2> QED BY <1>1, <1>2, <2>1 DEF OwnC, Fresh, Making
<1>7. OnlyCaller(C, c, t)
  BY SMTT(20), <1>6, CallFacts DEF OnlyCaller
<1>8. Unjoined(r, t)
  <2>1. OwnT(s, C, t)
    BY DEF Own
  <2> QED BY <1>1, <1>5, <2>1 DEF OwnT, Unjoined
<1>9. OwnT(r, D, t)
  BY <1>1, <1>8 DEF OwnT
<1>10. ASSUME NEW d \in Context PROVE OwnC(r, D, d, t)
  <2>1. Fresh(r, t)
    BY <1>1 DEF Fresh
  <2>2. D[d] # CEnQueue(t) /\ D[d] # CJoin(t)
    BY <1>6, CallFacts DEF Replaced
  <2>3. d \in Task => ~On(r, d, JoinList(t))
    BY <1>8 DEF Unjoined
  <2> QED BY <2>1, <2>2, <2>3 DEF OwnC
<1>11. \A u \in Task : u # t => D[c] # CInit(u) /\ D[c] # CEnQueue(u) /\ D[c] # CJoin(u)
  BY CallFacts
<1>12. OwnCalls(D)
  <2>1. OwnCalls(C)
    BY DEF Own
  <2>2. D[c] # CEnQueue(t) /\ D[c] # CJoin(t)
    BY CallFacts
  <2>3. \A u \in Task :
           \/ D[c] # CInit(u) /\ D[c] # CEnQueue(u) /\ D[c] # CJoin(u)
           \/ /\ D[c] # CJoin(u)
              /\ \A d \in Context : d # c => C[d] # CInit(u) /\ C[d] # CEnQueue(u) /\ C[d] # CJoin(u)
    BY <1>6, <1>11, <2>2
  <2> QED BY <2>1, <2>3, CallsReplaced
<1>13. OwnSelf(r, D)
  BY DEF OwnSelf, Only, SameGlobals
<1> QED BY <1>5, <1>7, <1>9, <1>10, <1>11, <1>12, <1>13, OwnTouch

(* OsNewTaskInit fills the TCB, whose ID is then returned or, in           *)
(* LOS_TaskCreate, first queued.                                           *)
LEMMA OwnNew ==
    ASSUME NEW s, NEW r, NEW C, NEW D, NEW t \in Task, NEW c \in Context,
           Own(s, C), C[c] = CInit(t), Only(s, r, t), SamePlace(s, r, t),
           NEW attr \in SUBSET {"JOINABLE", "STACK_FREE"},
           r.status[t] = {"SUSPEND"} \cup attr,
           Replaced(C, D, c), D[c] = None \/ D[c] = CEnQueue(t), OwnSelf(s, D)
    PROVE  Own(r, D)
<1>1. s.status[t] = {"UNUSED"} /\ Place(s, t, {})
  BY DEF Own, OwnC, Fresh
<1>2. Making(r.status[t]) /\ "PEND_TIME" \notin r.status[t]
  BY DEF Making
<1>3. C[t] = None /\ c # t
  BY SMTT(60), <1>1, CallFacts DEF Own, OwnSelf
<1>4. \A x \in Task : ~On(r, t, JoinList(x))
  BY <1>1, HeadFacts DEF Place, SamePlace
<1>5. \A u, x \in Task : On(r, u, JoinList(x)) <=> On(s, u, JoinList(x))
  BY <1>3, <1>4, JoinersFrame
<1>6. ASSUME NEW d \in Context
      PROVE  (d # c => C[d] # CInit(t)) /\ C[d] # CEnQueue(t) /\ C[d] # CJoin(t)
  <2>1. OwnC(s, C, d, t) /\ OwnCalls(C)
    BY DEF Own
  <2>2. "UNUSED" \in s.status[t]
    BY <1>1
  <2>3. d # c => C[d] # CInit(t)
    BY <2>1 DEF OwnCalls
  <2>4. C[d] # CEnQueue(t) /\ C[d] # CJoin(t)
    BY <2>1, <2>2 DEF OwnC, Making
  <2> QED BY <2>3, <2>4
<1>7. OnlyCaller(C, c, t)
  BY <1>6, CallFacts DEF OnlyCaller
<1>8. Unjoined(r, t)
  <2>1. OwnT(s, C, t)
    BY DEF Own
  <2> QED BY <1>1, <1>5, <2>1 DEF OwnT, Unjoined
<1>9. OwnT(r, D, t)
  BY <1>2, <1>8 DEF OwnT, Making
<1>10. ASSUME NEW d \in Context PROVE OwnC(r, D, d, t)
  <2>1. D[d] # CInit(t) /\ D[d] # CJoin(t)
    BY SMTT(20), <1>6, CallFacts DEF Replaced
  <2>2. d \in Task => ~On(r, d, JoinList(t))
    BY <1>8 DEF Unjoined
  <2> QED BY <1>2, <2>1, <2>2 DEF OwnC
<1>11. \A u \in Task : u # t => D[c] # CInit(u) /\ D[c] # CEnQueue(u) /\ D[c] # CJoin(u)
  BY SMTT(20), CallFacts
<1>12. OwnCalls(D)
  <2>1. OwnCalls(C)
    BY DEF Own
  <2>2. D[c] # CInit(t) /\ D[c] # CJoin(t)
    BY SMT, CallFacts
  <2>3. \A u \in Task :
           \/ D[c] # CInit(u) /\ D[c] # CEnQueue(u) /\ D[c] # CJoin(u)
           \/ /\ D[c] # CJoin(u)
              /\ \A d \in Context : d # c => C[d] # CInit(u) /\ C[d] # CEnQueue(u) /\ C[d] # CJoin(u)
    BY <1>6, <1>11, <2>2
  <2> QED BY <2>1, <2>3, CallsReplaced
<1>13. OwnSelf(r, D)
  <2>1. \A u \in Task : u # t => r.status[u] = s.status[u]
    BY DEF Only, SameAt
  <2>2. D[t] = None
    BY <1>3 DEF Replaced, Context
  <2> QED BY <2>1, <2>2 DEF OwnSelf, Only, SameGlobals
<1> QED BY <1>2, <1>5, <1>7, <1>9, <1>10, <1>11, <1>12, <1>13, OwnTouch

(* LOS_TaskDetach of a task that has not exited and nobody joins. *)
LEMMA OwnDetached ==
    ASSUME NEW s, NEW r, NEW C \in [Context -> CallStates], NEW t \in Task, NEW c \in Context,
           Own(s, C), C[c] = None, Only(s, r, t), SamePlace(s, r, t),
           r.status[t] = s.status[t] \ {"JOINABLE"},
           "UNUSED" \notin s.status[t], "EXIT" \notin s.status[t], Unjoined(s, t),
           \A d \in Context : C[d] # CEnQueue(t) /\ C[d] # CJoin(t)
    PROVE  Own(r, C)
<1>1. \A u, x \in Task : On(r, u, JoinList(x)) <=> On(s, u, JoinList(x))
  <2>1. \A x \in Task : JoinList(x) \in Head_
    BY HeadFacts
  <2> QED BY <2>1 DEF Only, SameAt, SamePlace
<1>2. ASSUME NEW d \in Context PROVE C[d] # CInit(t)
  <2>1. OwnC(s, C, d, t)
    BY DEF Own
  <2> QED BY <2>1 DEF OwnC, Fresh
<1>3. OnlyCaller(C, c, t)
  BY SMTT(20), <1>2, CallFacts DEF OnlyCaller
<1>4. Replaced(C, C, c)
  BY DEF Replaced
<1>5. Unjoined(r, t) /\ OwnT(r, C, t)
  BY <1>1 DEF Unjoined, OwnT
<1>6. \A d \in Context : OwnC(r, C, d, t)
  BY <1>2, <1>5 DEF Unjoined, OwnC
<1>7. OwnCalls(C)
  BY DEF Own
<1>8. OwnSelf(r, C)
  <2>1. \A u \in Task : u # t => r.status[u] = s.status[u]
    BY DEF Only, SameAt
  <2> QED BY <2>1 DEF Own, OwnSelf, Only, SameGlobals
<1>9. \A u \in Task : C[c] # CInit(u) /\ C[c] # CEnQueue(u) /\ C[c] # CJoin(u)
  BY SMTT(20), CallFacts
<1> QED BY <1>1, <1>3, <1>4, <1>5, <1>6, <1>7, <1>8, <1>9, OwnTouch

(* The lists of TCBs nobody uses are not joinLists. *)
LEMMA NotJoinLists ==
    /\ FreeTask \in Head_ /\ RecycleList \in Head_
    /\ \A t \in Task : FreeTask # JoinList(t) /\ RecycleList # JoinList(t)
  BY SMT, HeadFacts

(* LOS_TaskJoin: the caller c waits for t unless t has exited. *)
LEMMA OwnJoined ==
    ASSUME NEW s, Core(s), NEW r, NEW C, NEW D, NEW t \in Task, NEW c \in Task \ {Idle, t},
           Own(s, C), C[c] = None, Replaced(C, D, c), D[c] = CJoin(t),
           r.sched, s.sched, \A u \in Task : u # c => SameAt(s, r, u),
           "JOINABLE" \in s.status[t], "UNUSED" \notin s.status[t],
           \A d \in Context : C[d] # CEnQueue(t) /\ C[d] # CJoin(t),
           "UNUSED" \notin s.status[c], "EXIT" \notin s.status[c],
           "RUNNING" \in s.status[c], Place(s, c, {}), "PEND_TIME" \notin s.status[c],
           \/ SameAt(s, r, c) /\ "EXIT" \in s.status[t]
           \/ /\ r.status[c] = s.status[c] \cup {"PEND"} /\ Place(r, c, {JoinList(t)})
              /\ Unjoined(s, t) /\ "EXIT" \notin s.status[t]
    PROVE  Own(r, D)
<1>1. /\ c \in Context
      /\ \A u \in Task : \A b \in {"UNUSED", "EXIT", "JOINABLE", "PEND_TIME"} :
            b \in r.status[u] <=> b \in s.status[u]
  BY DEF SameAt, Context
<1>2. \A u \in Task : /\ On(r, u, FreeTask) <=> On(s, u, FreeTask)
                      /\ On(r, u, RecycleList) <=> On(s, u, RecycleList)
  BY NotJoinLists DEF SameAt, Place
<1>3. \A u, x \in Task : u # c => (On(r, u, JoinList(x)) <=> On(s, u, JoinList(x)))
  BY HeadFacts DEF SameAt
<1>4. \A x \in Task : ~On(s, c, JoinList(x))
  BY HeadFacts DEF Place
<1>5. \A x \in Task : On(r, c, JoinList(x)) <=> x = t /\ "EXIT" \notin s.status[t]
  <2>1. \A x \in Task : JoinList(x) \in Head_ /\ (JoinList(x) = JoinList(t) => x = t)
    BY HeadFacts
  <2> QED BY <1>4, <2>1 DEF SameAt, Place
<1>6. ASSUME NEW d \in Context PROVE C[d] # CInit(c) /\ C[d] # CEnQueue(c)
  <2>1. OwnC(s, C, d, c)
    BY DEF Own
  <2> QED BY <2>1 DEF OwnC, Fresh, Making
<1>7. ASSUME NEW u \in Task PROVE OwnT(r, D, u)
  <2>1. OwnT(s, C, u)
    BY DEF Own
  <2>2. \A d \in Context : C[d] = CInit(u) => D[d] = CInit(u)
    BY SMTT(60), CallFacts DEF Replaced
  <2>3. ~Unjoined(r, u) => ~Unjoined(s, u) \/ (u = t /\ "EXIT" \notin s.status[t])
    BY <1>3, <1>5 DEF Unjoined
  <2> QED BY <1>1, <1>2, <2>1, <2>2, <2>3 DEF OwnT
<1>8. ASSUME NEW d \in Context, NEW u \in Task PROVE OwnC(r, D, d, u)
  <2>1. OwnC(s, C, d, u)
    BY DEF Own
  <2>2. CASE d = c
    <3>1. D[c] # CInit(u) /\ D[c] # CEnQueue(u) /\ (D[c] = CJoin(u) => u = t)
      BY CallFacts
    <3> QED BY <1>1, <1>5, <2>2, <3>1 DEF OwnC
  <2>3. CASE d # c
    <3>1. D[d] = C[d]
      BY <2>3 DEF Replaced
    <3>2. C[d] = CInit(u) => Fresh(r, u)
      BY <1>6, <2>1 DEF OwnC, Fresh, SameAt, Place
    <3>3. C[d] = CEnQueue(u) => Making(r.status[u])
      BY <1>6, <2>1 DEF OwnC, SameAt
    <3>4. C[d] = CJoin(u) => d \in Task
      BY DEF Own, OwnCalls, Context
    <3>5. d \in Task => (On(r, d, JoinList(u)) <=> On(s, d, JoinList(u)))
      BY <1>3, <2>3
    <3> QED BY <1>1, <2>1, <3>1, <3>2, <3>3, <3>4, <3>5 DEF OwnC
  <2> QED BY <2>2, <2>3
<1>9. OwnCalls(D)
  <2>1. OwnCalls(C)
    BY DEF Own
  <2>2. \A u \in Task : D[c] # CInit(u) /\ D[c] # CEnQueue(u) /\ (D[c] = CJoin(u) => u = t)
    BY CallFacts
  <2>3. c # t /\ c # Shadow /\ \A d \in Context : d # c => D[d] = C[d]
    BY TaskFacts DEF Replaced
  <2>4. SUFFICES ASSUME NEW a \in Context, NEW b \in Context, NEW u \in Task
        PROVE  /\ D[a] = CInit(u) /\ D[b] = CInit(u) => a = b
               /\ D[a] = CEnQueue(u) /\ D[b] = CEnQueue(u) => a = b
               /\ D[a] = CJoin(u) /\ D[b] = CJoin(u) => a = b
               /\ D[a] = CJoin(u) => a # u /\ a # Shadow /\ D[b] # CEnQueue(u)
    BY DEF OwnCalls
  <2>5. CASE a # c /\ b # c
    <3>1. D[a] = C[a] /\ D[b] = C[b]
      BY <2>3, <2>5
    <3>2. /\ C[a] = CInit(u) /\ C[b] = CInit(u) => a = b
          /\ C[a] = CEnQueue(u) /\ C[b] = CEnQueue(u) => a = b
          /\ C[a] = CJoin(u) /\ C[b] = CJoin(u) => a = b
          /\ C[a] = CJoin(u) => a # u /\ a # Shadow /\ C[b] # CEnQueue(u)
      BY <2>1 DEF OwnCalls
    <3> QED BY <3>1, <3>2
  <2>6. CASE a = c
    BY <2>2, <2>3, <2>6
  <2>7. CASE b = c /\ a # c
    <3>1. D[a] = C[a] /\ (D[a] = CJoin(u) => a # u /\ a # Shadow)
      BY <2>1, <2>3, <2>7 DEF OwnCalls
    <3> QED BY <2>2, <2>7, <3>1
  <2> QED BY <2>5, <2>6, <2>7
<1>10. OwnSelf(r, D)
  <2>1. D[Shadow] = C[Shadow]
    BY TaskFacts DEF Replaced, Context
  <2> QED BY <1>1, <2>1 DEF Own, OwnSelf, Replaced, Context
<1> QED BY <1>7, <1>8, <1>9, <1>10 DEF Own

(* LOS_Start: there are no calls. *)
LEMMA OwnStarted ==
    ASSUME NEW s, Core(s), NEW r, NEW C, Own(s, C), \A c \in Context : C[c] = None, Started(s, r)
    PROVE  Own(r, C)
<1>1. \A c \in Context, t \in Task : C[c] # CInit(t) /\ C[c] # CEnQueue(t) /\ C[c] # CJoin(t)
  BY SMT, CallFacts
<1>2. \A u, x \in Task : ~On(s, u, JoinList(x))
  BY <1>1 DEF Own, OwnC, Context
<1>3. \A u, x \in Task : ~On(r, u, JoinList(x))
  <2>1. \A x \in Task : JoinList(x) \in Head_
    BY HeadFacts
  <2> QED BY SMT, <1>2, <2>1 DEF Started, SameAt, Place
<1>4. ASSUME NEW t \in Task PROVE OwnT(r, C, t)
  <2>1. CASE t = r.run
    BY <1>3, <2>1 DEF Started, OwnT, Unjoined
  <2>2. CASE t # r.run
    <3>1. SameAt(s, r, t) /\ OwnT(s, C, t)
      BY <2>2 DEF Started, Own
    <3>2. Steady(s, r, t)
      BY <3>1, SameSteady
    <3> QED BY <1>3, <3>1, <3>2 DEF OwnT, Steady, Unjoined
  <2> QED BY <2>1, <2>2
<1>5. \A c \in Context, t \in Task : OwnC(r, C, c, t)
  BY <1>1, <1>3 DEF OwnC
<1>6. OwnCalls(C) /\ OwnSelf(r, C)
  BY DEF Own, OwnSelf, Started, Context
<1> QED BY <1>4, <1>5, <1>6 DEF Own

(* Ownership survives LOS_TaskDelete, and the call of t is over. *)
LEMMA OwnDeleted ==
    ASSUME NEW s, Core(s), NEW r, NEW C, NEW D, NEW t \in Task \ {Idle}, Own(s, C),
           Gone(s, r, t), "UNUSED" \notin s.status[t], Replaced(C, D, t), D[t] = None,
           \A u \in Task : C[t] # CInit(u), \A c \in Context : C[c] # CEnQueue(t)
    PROVE  Own(r, D)
<1>0. /\ t \in Context /\ \A x \in Task : JoinList(x) \in WaitLists /\ JoinList(x) \in Head_
      /\ FreeTask \in Head_ /\ RecycleList \in Head_
  BY HeadFacts DEF Context
<1>1. \A x \in Task : ~On(r, t, JoinList(x))
  <2>1. FreeTask \notin WaitLists /\ RecycleList \notin WaitLists
    BY HeadFacts
  <2>2. Place(r, t, {}) \/ Place(r, t, {FreeTask}) \/ Place(r, t, {RecycleList})
    BY DEF Gone, GoneSelf
  <2> QED BY <1>0, <2>1, <2>2 DEF Place
<1>2. ASSUME NEW u \in Task, u # t
      PROVE  /\ "UNUSED" \in r.status[u] <=> "UNUSED" \in s.status[u]
             /\ "EXIT" \in r.status[u] <=> "EXIT" \in s.status[u]
             /\ "JOINABLE" \in r.status[u] <=> "JOINABLE" \in s.status[u]
             /\ "PEND_TIME" \in r.status[u] => "PEND_TIME" \in s.status[u]
  <2>1. CASE r.status[u] = s.status[u]
    BY <2>1
  <2>2. CASE Woken(s, r, u)
    BY SMT, <2>2 DEF Woken
  <2>3. GoneJoiner(s, r, t, u)
    BY <1>2 DEF Gone
  <2> QED BY <2>1, <2>2, <2>3 DEF GoneJoiner, SameAt
<1>3. ASSUME NEW u \in Task, u # t, NEW x \in Task
      PROVE  On(r, u, JoinList(x)) <=> On(s, u, JoinList(x)) /\ x # t
  <2>1. CASE SameAt(s, r, u) /\ ~On(s, u, JoinList(t))
    BY <1>0, <2>1 DEF SameAt
  <2>2. CASE On(s, u, JoinList(t)) /\ OffLists(r, u)
    <3>1. On(s, u, JoinList(x)) => x = t
      BY <1>0, <2>2, HeadFacts DEF Core, Base, ListsDisjoint, On
    <3> QED BY <1>0, <2>2, <3>1 DEF OffLists
  <2> QED BY <1>3, <2>1, <2>2 DEF Gone, GoneJoiner
<1>4. ASSUME NEW u \in Task, ~On(s, u, JoinList(t)), u # t PROVE SameAt(s, r, u)
  BY <1>4 DEF Gone, GoneJoiner
<1>5. ASSUME NEW u \in Task, u # t, "UNUSED" \in s.status[u] \/ Making(s.status[u])
      PROVE  SameAt(s, r, u)
  <2>1. Local(s, u) /\ Base(s)
    BY DEF Core
  <2>2. "PEND" \notin s.status[u]
    BY <1>5, <2>1 DEF Local, Making
  <2>3. ~On(s, u, JoinList(t))
    BY <1>0, <2>1, <2>2 DEF Local, Base, ListsDisjoint, On
  <2> QED BY <1>4, <1>5, <2>3
<1>6. ASSUME NEW u \in Task PROVE OwnT(r, D, u)
  <2>1. OwnT(s, C, u)
    BY DEF Own
  <2>2. CASE u = t
    <3>1. Unjoined(r, t)
      BY <1>1, <1>3 DEF Unjoined
    <3>2. "UNUSED" \in r.status[t] => On(r, t, FreeTask) \/ On(r, t, RecycleList)
      BY <1>0 DEF Gone, GoneSelf, Place
    <3>3. "JOINABLE" \in r.status[t] \/ "UNUSED" \in r.status[t]
      BY DEF Gone, GoneSelf
    <3> QED BY <2>2, <3>1, <3>2, <3>3 DEF OwnT
  <2>3. CASE u # t
    <3>1. Unjoined(s, u) => Unjoined(r, u)
      BY <1>1, <1>3 DEF Unjoined
    <3>2. \A c \in Context : C[c] = CInit(u) => D[c] = CInit(u)
      BY DEF Replaced
    <3>3. "UNUSED" \in s.status[u] =>
             /\ On(r, u, FreeTask) <=> On(s, u, FreeTask)
             /\ On(r, u, RecycleList) <=> On(s, u, RecycleList)
      BY <1>0, <1>5, <2>3 DEF SameAt
    <3> QED BY <1>2, <2>1, <2>3, <3>1, <3>2, <3>3 DEF OwnT
  <2> QED BY <2>2, <2>3
<1>7. ASSUME NEW c \in Context, NEW u \in Task PROVE OwnC(r, D, c, u)
  <2>1. OwnC(s, C, c, u)
    BY DEF Own
  <2>2. CASE c = t
    <3>1. D[t] # CInit(u) /\ D[t] # CEnQueue(u) /\ D[t] # CJoin(u)
      BY SMT, CallFacts
    <3> QED BY <1>1, <2>2, <3>1 DEF OwnC
  <2>3. CASE c # t
    <3>1. D[c] = C[c]
      BY <2>3 DEF Replaced
    <3>2. C[c] = CInit(u) => Fresh(r, u)
      <4>1. C[c] = CInit(u) => u # t /\ "UNUSED" \in s.status[u] /\ Fresh(s, u)
        BY <2>1 DEF OwnC, Fresh
      <4> QED BY <1>5, <4>1 DEF Fresh, SameAt, Place
    <3>3. C[c] = CEnQueue(u) => Making(r.status[u])
      BY <1>5, <2>1 DEF OwnC, SameAt
    <3>4. C[c] = CJoin(u) => c \in Task
      BY DEF Own, OwnCalls, Context
    <3>5. CASE u = t
      <4>1. C[c] = CJoin(t) => /\ "JOINABLE" \in r.status[t] /\ "UNUSED" \notin r.status[t]
                               /\ "EXIT" \in r.status[t]
        BY <2>1, <3>5 DEF OwnC, Gone, GoneSelf
      <4>2. c \in Task => ~On(r, c, JoinList(t))
        BY <1>3, <2>3
      <4> QED BY <3>1, <3>2, <3>3, <3>5, <4>1, <4>2 DEF OwnC
    <3>6. CASE u # t
      <4>1. c \in Task => (On(r, c, JoinList(u)) <=> On(s, c, JoinList(u)))
        BY <1>3, <2>3, <3>6
      <4>2. c \in Task => ("PEND_TIME" \in r.status[c] => "PEND_TIME" \in s.status[c])
        BY <1>2, <2>3
      <4> QED BY <1>2, <2>1, <3>1, <3>2, <3>3, <3>4, <3>6, <4>1, <4>2 DEF OwnC
    <3> QED BY <3>5, <3>6
  <2> QED BY <2>2, <2>3
<1>8. OwnCalls(D)
  <2>1. OwnCalls(C)
    BY DEF Own
  <2>2. \A u \in Task : D[t] # CInit(u) /\ D[t] # CEnQueue(u) /\ D[t] # CJoin(u)
    BY SMTT(20), CallFacts
  <2>3. t \in Context
    BY DEF Context
  <2> QED BY <2>1, <2>2, <2>3, CallsReplaced
<1>9. OwnSelf(r, D)
  <2>1. D[Shadow] = C[Shadow]
    BY TaskFacts DEF Replaced, Context
  <2>2. \A c \in Task : c # t => D[c] = C[c]
    BY DEF Replaced, Context
  <2>3. r.sched = s.sched
    BY DEF Gone
  <2> QED BY <1>2, <2>1, <2>2, <2>3 DEF Own, OwnSelf
<1> QED BY <1>6, <1>7, <1>8, <1>9 DEF Own

----------------------------------------------------------------------------
IInv == /\ TaskTypeOK /\ NoFault /\ SchedConsistent
        /\ NoTaskLost /\ BlockedLeaves /\ TcbOwned

(* NoTaskLost and BlockedLeaves, for any state. *)
Lives(s) ==
    \A t \in Task : \/ Has(s, t, {"UNUSED", "EXIT", "READY"} \cup Blocked)
                    \/ s.run = t

Leaving(s, tk) ==
    /\ s.sched /\ (s.run = Shadow \/ Has(s, s.run, Blocked \cup {"EXIT"})) => s.switch
    /\ s.switch => s.sched /\ s.taskLock = 0
    /\ ~s.sched => s.run = Shadow /\ ~tk

(* IInv in the words the lemmas use. *)
LEMMA InvMeans ==
    ASSUME NEW s, NEW C, NEW tk
    PROVE  Inv(s, C, tk) <=>
              /\ s \in SchedState /\ C \in [Context -> CallStates] /\ tk \in BOOLEAN
              /\ ~s.fault /\ ListsDisjoint(s) /\ StatusMatchesLists(s) /\ StatusExclusive(s)
              /\ Lives(s) /\ Leaving(s, tk) /\ Owned(s, C)
<1>1. Core(s) => s \in SchedState
  BY DEF Core, Base
<1>2. ASSUME s \in SchedState
      PROVE  Core(s) <=> /\ ~s.fault /\ ListsDisjoint(s)
                         /\ StatusMatchesLists(s) /\ StatusExclusive(s)
  BY <1>2, CoreMeans
<1>3. ASSUME s \in SchedState, C \in [Context -> CallStates]
      PROVE  Owned(s, C) <=> Own(s, C)
  BY <1>3, OwnMeans
<1>4. (\A t \in Task : Alive(s, t)) <=> Lives(s)
  BY DEF Alive, Lives, Has, Blocked
<1>5. Leaves(s, tk) <=> Leaving(s, tk)
  BY DEF Leaves, Leaving, Has, Blocked, Waits
<1> QED BY <1>1, <1>2, <1>3, <1>4, <1>5 DEF Inv, Semi

(* IInv now and IInv after a step. *)
LEMMA IInvMeans ==
    (IInv <=> Inv(k, call, tick)) /\ (IInv' <=> Inv(k', call', tick'))
<1>1. IInv <=> /\ k \in SchedState /\ call \in [Context -> CallStates] /\ tick \in BOOLEAN
               /\ ~k.fault /\ ListsDisjoint(k) /\ StatusMatchesLists(k) /\ StatusExclusive(k)
               /\ Lives(k) /\ Leaving(k, tick) /\ Owned(k, call)
  BY DEF IInv, TaskTypeOK, NoFault, SchedConsistent, NoTaskLost, BlockedLeaves, TcbOwned,
         Lives, Leaving
<1>2. IInv' <=> /\ k' \in SchedState /\ call' \in [Context -> CallStates] /\ tick' \in BOOLEAN
                /\ ~k'.fault /\ ListsDisjoint(k') /\ StatusMatchesLists(k')
                /\ StatusExclusive(k')
                /\ Lives(k') /\ Leaving(k', tick') /\ Owned(k', call')
  BY DEF IInv, TaskTypeOK, NoFault, SchedConsistent, NoTaskLost, BlockedLeaves, TcbOwned,
         Lives, Leaving
<1> QED BY <1>1, <1>2, InvMeans

(* LOS_Schedule changes nothing but the request for a switch. *)
LEMMA ScheduleSemi ==
    ASSUME NEW s, NEW C, Semi(s, C), NEW r, r = LOS_Schedule(s)
    PROVE  /\ Semi(r, C) /\ SameButSwitch(s, r) /\ r.taskLock = s.taskLock
           /\ r.switch <=> s.switch \/ (s.sched /\ s.taskLock = 0)
<1>1. /\ Core(r) /\ SameButSwitch(s, r) /\ r.taskLock = s.taskLock
      /\ r.switch <=> s.switch \/ (s.sched /\ s.taskLock = 0)
  BY ScheduleCore DEF Semi
<1>2. \A u \in Task : SameAt(s, r, u)
  BY <1>1 DEF SameButSwitch, SameAt, On, OnList
<1>3. \A u \in Task : Steady(s, r, u)
  BY <1>2, SameSteady
<1>4. Own(r, C)
  BY <1>1, <1>2, <1>3, OwnFrame DEF Semi, SameButSwitch
<1>5. \A t \in Task : Alive(r, t)
  BY <1>1 DEF Semi, Alive, SameButSwitch
<1> QED BY <1>1, <1>4, <1>5 DEF Semi

(* The same for every change that spares status, lists and runTask. *)
LEMMA SameSemi ==
    ASSUME NEW s, NEW C, Semi(s, C), NEW r, Core(r), SameButSwitch(s, r)
    PROVE  Semi(r, C)
<1>2. \A u \in Task : SameAt(s, r, u)
  BY DEF SameButSwitch, SameAt, On, OnList
<1>3. \A u \in Task : Steady(s, r, u)
  BY <1>2, SameSteady
<1>4. Own(r, C)
  BY <1>2, <1>3, OwnFrame DEF Semi, SameButSwitch
<1>5. \A t \in Task : Alive(r, t)
  BY DEF Semi, Alive, SameButSwitch
<1> QED BY <1>4, <1>5 DEF Semi

(* An operation on one settled task that keeps it steady. *)
LEMMA TouchSemi ==
    ASSUME NEW s, NEW C, Semi(s, C), NEW r, NEW t \in Task, Core(r), Only(s, r, t),
           Settled(s, C, t), Steady(s, r, t), Alive(r, t)
    PROVE  Semi(r, C)
<1>1. r.sched = s.sched /\ r.run = s.run /\ \A u \in Task : u # t => SameAt(s, r, u)
  BY DEF Only, SameGlobals
<1>2. \A u \in Task : Steady(s, r, u)
  BY <1>1, SameSteady
<1>3. Own(r, C)
  BY <1>1, <1>2, OwnFrame DEF Semi
<1>4. \A u \in Task : Alive(r, u)
  BY <1>1 DEF Semi, Alive, SameAt
<1> QED BY <1>3, <1>4 DEF Semi

(* Who keeps its bits and its place on the wait lists is steady. *)
LEMMA SteadyIf ==
    ASSUME NEW s, NEW r, NEW t \in Task,
           \A h \in WaitLists \cup {FreeTask, RecycleList} : On(r, t, h) <=> On(s, t, h),
           \A b \in {"UNUSED", "EXIT", "JOINABLE", "PEND_TIME"} :
               b \in r.status[t] <=> b \in s.status[t]
    PROVE  Steady(s, r, t)
<1>1. \A x \in Task : JoinList(x) \in WaitLists
  BY HeadFacts
<1> QED BY <1>1 DEF Steady

(* A task that may be used and whose TCB is in use is settled. *)
LEMMA SettledIf ==
    ASSUME Unguarded = {}, NEW t \in Task, MayUse(t), "UNUSED" \notin k.status[t]
    PROVE  Settled(k, call, t)
BY DEF MayUse, BeingMade, Settled, CEnQueue

(* LOS_TaskResume *)
LEMMA ResumeInv ==
    ASSUME Inv(k, call, tick), Unguarded = {}, NEW t \in Task, Resume(t)
    PROVE  Inv(k', call', tick')
<1> DEFINE a == OsSchedResume(k, t)
<1>1. /\ Semi(k, call) /\ Core(k) /\ Leaves(k, tick) /\ tick \in BOOLEAN
      /\ call' = call /\ tick' = tick
  BY DEF Inv, Semi, Resume, NoCallChange
<1>2. /\ "UNUSED" \notin k.status[t] /\ "SUSPEND" \in k.status[t]
      /\ "RUNNING" \notin k.status[t] /\ "EXIT" \notin k.status[t] /\ MayUse(t)
  <2>1. /\ "UNUSED" \notin k.status[t] /\ "SUSPEND" \in k.status[t]
        /\ t # k.run /\ "EXIT" \notin k.status[t] /\ MayUse(t)
    BY DEF Resume, ResumeOK, MayResume, Has
  <2> QED BY <1>1, <2>1 DEF Core, Local
<1>3. Settled(k, call, t)
  BY <1>2, SettledIf
<1>4. k' = IF ResumeMakesReady(k, t) THEN LOS_Schedule(a) ELSE a
  BY DEF Resume, LOS_TaskResume
<1>5. k.run # t
  BY <1>1, <1>2 DEF Core, Local
<1>6. /\ Core(a) /\ Only(k, a, t)
      /\ a.status[t] = IF ResumeMakesReady(k, t)
                       THEN (k.status[t] \ {"SUSPEND"}) \cup {"READY"}
                       ELSE k.status[t] \ {"SUSPEND"}
      /\ \A h \in WaitLists \cup {FreeTask, RecycleList} : On(a, t, h) <=> On(k, t, h)
  <2>1. k.status[t] \cap {"UNUSED", "EXIT", "RUNNING"} = {}
    BY <1>2
  <2> QED BY <1>1, <1>2, <2>1, ResumeCore
<1> HIDE DEF a
<1>7. Steady(k, a, t)
  <2>1. \A b \in {"UNUSED", "EXIT", "JOINABLE", "PEND_TIME"} :
           b \in a.status[t] <=> b \in k.status[t]
    BY <1>6
  <2> QED BY <1>6, <2>1, SteadyIf
<1>8. Alive(a, t)
  BY <1>6 DEF Alive, ResumeMakesReady, Has
<1>9. Semi(a, call)
  BY <1>1, <1>3, <1>6, <1>7, <1>8, TouchSemi
<1>10. /\ a.run = k.run /\ a.sched = k.sched /\ a.switch = k.switch /\ a.taskLock = k.taskLock
       /\ a.status[a.run] = k.status[k.run]
  <2>1. k.run \in Task \cup {Shadow}
    BY <1>1 DEF Core, Base, SchedState
  <2> QED BY SMT, <1>5, <1>6, <2>1 DEF Only, SameGlobals, SameAt
<1>11. CASE ResumeMakesReady(k, t)
  <2>1. /\ Semi(k', call) /\ SameButSwitch(a, k') /\ k'.taskLock = a.taskLock
        /\ k'.switch <=> a.switch \/ (a.sched /\ a.taskLock = 0)
    BY <1>4, <1>9, <1>11, ScheduleSemi
  <2> QED BY <1>1, <1>10, <2>1 DEF Inv, Leaves, SameButSwitch
<1>12. CASE ~ResumeMakesReady(k, t)
  <2>1. k' = a
    BY <1>4, <1>12
  <2> QED BY <1>1, <1>9, <1>10, <2>1 DEF Inv, Leaves
<1> QED BY <1>11, <1>12

(* LOS_TaskSuspend *)
LEMMA SuspendInv ==
    ASSUME Inv(k, call, tick), Unguarded = {}, NEW t \in Task, Suspend(t)
    PROVE  Inv(k', call', tick')
<1> DEFINE a == OsSchedSuspend(k, t)
<1>1. /\ Semi(k, call) /\ Core(k) /\ Leaves(k, tick) /\ tick \in BOOLEAN
      /\ call' = call /\ tick' = tick /\ k.run \in Task \cup {Shadow}
  BY DEF Inv, Semi, Suspend, NoCallChange, Core, Base, SchedState
<1>2. /\ t # Idle /\ "UNUSED" \notin k.status[t] /\ MayUse(t)
      /\ "RUNNING" \in k.status[t] => k.taskLock = 0
  BY DEF Suspend, SuspendOK, Has
<1>3. Settled(k, call, t)
  BY <1>2, SettledIf
<1>4. k' = IF t = k.run THEN LOS_Schedule(a) ELSE a
  BY DEF Suspend, LOS_TaskSuspend
<1>5. k.run = t => k.taskLock = 0 /\ k.sched
  BY <1>1, <1>2, TaskFacts DEF Core, Local, Leaves
<1>6. /\ Core(a) /\ Only(k, a, t)
      /\ a.status[t] = (k.status[t] \ {"READY"}) \cup {"SUSPEND"}
      /\ \A h \in WaitLists \cup {FreeTask, RecycleList} : On(a, t, h) <=> On(k, t, h)
  BY <1>1, <1>2, SuspendCore
<1> HIDE DEF a
<1>7. Steady(k, a, t)
  <2>1. \A b \in {"UNUSED", "EXIT", "JOINABLE", "PEND_TIME"} :
           b \in a.status[t] <=> b \in k.status[t]
    BY <1>6
  <2> QED BY <1>6, <2>1, SteadyIf
<1>8. Alive(a, t)
  BY <1>6 DEF Alive
<1>9. Semi(a, call)
  BY <1>1, <1>3, <1>6, <1>7, <1>8, TouchSemi
<1>10. a.run = k.run /\ a.sched = k.sched /\ a.switch = k.switch /\ a.taskLock = k.taskLock
  BY <1>6 DEF Only, SameGlobals
<1>11. CASE t = k.run
  <2>1. /\ Semi(k', call) /\ SameButSwitch(a, k') /\ k'.taskLock = a.taskLock
        /\ k'.switch <=> a.switch \/ (a.sched /\ a.taskLock = 0)
    BY <1>4, <1>9, <1>11, ScheduleSemi
  <2> QED BY <1>1, <1>5, <1>10, <1>11, <2>1 DEF Inv, Leaves, SameButSwitch
<1>12. CASE t # k.run
  <2>1. k' = a
    BY <1>4, <1>12
  <2>2. a.status[a.run] = k.status[k.run]
    BY <1>1, <1>6, <1>10, <1>12 DEF Only, SameGlobals, SameAt
  <2> QED BY <1>1, <1>9, <1>10, <2>1, <2>2 DEF Inv, Leaves
<1> QED BY <1>11, <1>12

(* OsSchedModifyTaskSchedParam, from LOS_TaskPriSet and from the mutexes *)
LEMMA ModifyInv ==
    ASSUME NEW s, NEW C, NEW tk, Inv(s, C, tk), NEW t \in Task, t # Idle,
           "UNUSED" \notin s.status[t], NEW p \in Prio,
           NEW r, r = OsSchedModifyTaskSchedParam(s, t, p)
    PROVE  /\ Inv(r, C, tk) /\ Only(s, r, t) /\ \A u \in Context : r.status[u] = s.status[u]
           /\ \A u \in Task, h \in WaitLists : On(r, u, h) <=> On(s, u, h)
<1>1. /\ Semi(s, C) /\ Core(s) /\ Leaves(s, tk) /\ tk \in BOOLEAN /\ Own(s, C)
      /\ s.run \in Context /\ Local(s, t)
  BY DEF Inv, Semi, Core, Base, SchedState, Context
<1>2. /\ Core(r) /\ Only(s, r, t) /\ r.status[t] = s.status[t]
      /\ \A h \in WaitLists \cup {FreeTask, RecycleList} : On(r, t, h) <=> On(s, t, h)
  BY <1>1, ModifyCore
<1>3. /\ r.run = s.run /\ r.sched = s.sched /\ r.switch = s.switch /\ r.taskLock = s.taskLock
      /\ \A u \in Task : u # t => SameAt(s, r, u)
      /\ \A u \in Context : r.status[u] = s.status[u]
  BY <1>2 DEF Only, SameGlobals, SameAt, Context
<1>4. \A u \in Task : Steady(s, r, u)
  <2>1. Steady(s, r, t)
    BY <1>2, SteadyIf
  <2> QED BY <1>3, <2>1, SameSteady
<1>5. ASSUME s.run = t PROVE Own(r, C)
  <2>1. "RUNNING" \in s.status[t]
    BY <1>1, <1>5 DEF Local
  <2>2. \A c \in Context : OwnC(s, C, c, t)
    BY <1>1 DEF Own
  <2>3. Settled(s, C, t)
    BY <2>1, <2>2 DEF Settled, OwnC, Making
  <2> QED BY <1>1, <1>2, <1>3, <1>4, <2>3, OwnFrame
<1>6. ASSUME s.run # t PROVE Own(r, C)
  <2>1. Moved(s, r, t)
    BY <1>2, <1>3, <1>6 DEF Moved, Kept
  <2> QED BY <1>1, <1>2, <1>3, <1>4, <2>1, OwnFrame
<1>7. Own(r, C)
  BY <1>5, <1>6
<1>8. Semi(r, C) /\ Leaves(r, tk)
  BY <1>1, <1>2, <1>3, <1>7 DEF Semi, Alive, Leaves, Context
<1>9. \A u \in Task, h \in WaitLists : On(r, u, h) <=> On(s, u, h)
  <2>1. WaitLists \subseteq Head_
    BY DEF Head_
  <2> QED BY <1>2, <1>3, <2>1 DEF SameAt
<1> QED BY <1>1, <1>2, <1>3, <1>8, <1>9 DEF Inv

(* LOS_TaskPriSet *)
LEMMA PriSetInv ==
    ASSUME Inv(k, call, tick), Unguarded = {}, NEW t \in Task, NEW p \in Prio, PriSet(t, p)
    PROVE  Inv(k', call', tick')
<1> DEFINE a == OsSchedModifyTaskSchedParam(k, t, p)
<1>1. /\ call' = call /\ tick' = tick /\ t # Idle /\ "UNUSED" \notin k.status[t]
      /\ k' = IF ModifyNeedsSched(k, t) THEN LOS_Schedule(a) ELSE a
  BY DEF PriSet, PriSetOK, Has, NoCallChange, LOS_TaskPriSet
<1>2. Inv(a, call, tick)
  BY <1>1, ModifyInv
<1> HIDE DEF a
<1>3. CASE ModifyNeedsSched(k, t)
  <2>1. /\ Semi(k', call) /\ SameButSwitch(a, k') /\ k'.taskLock = a.taskLock
        /\ k'.switch <=> a.switch \/ (a.sched /\ a.taskLock = 0)
    BY <1>1, <1>2, <1>3, ScheduleSemi DEF Inv
  <2> QED BY <1>1, <1>2, <2>1 DEF Inv, Leaves, SameButSwitch
<1>4. CASE ~ModifyNeedsSched(k, t)
  BY <1>1, <1>2, <1>4
<1> QED BY <1>3, <1>4

(* LOS_TaskYield, and the tick's charge on the slice *)
LEMMA YieldInv ==
    ASSUME Inv(k, call, tick), Yield \/ TickEnd
    PROVE  Inv(k', call', tick')
<1>1. /\ Semi(k, call) /\ Core(k) /\ Leaves(k, tick) /\ tick \in BOOLEAN /\ call' = call
      /\ k.run \in Task \cup {Shadow}
  BY DEF Inv, Semi, Yield, TickEnd, NoCallChange, Core, Base, SchedState
<1>2. tick' \in BOOLEAN /\ (tick' => tick)
  <2>1. tick' = tick \/ tick' = FALSE
    BY DEF Yield, TickEnd
  <2>2. CASE tick' = tick
    BY <1>1, <2>2, Zenon
  <2>3. CASE tick' = FALSE
    BY <2>3
  <2> QED BY <2>1, <2>2, <2>3
<1>3. \E spent \in BOOLEAN : \E a :
         /\ a = OsTimeSliceUpdate(k, spent) \/ (k.run \in Task /\ a = OsSchedYield(k))
         /\ k' = LOS_Schedule(a)
  <2>1. CASE Yield
    <3>1. k.run \in Task
      BY <1>1, <2>1 DEF Yield, InTask, Executing
    <3> QED BY <2>1, <3>1 DEF Yield, LOS_TaskYield
  <2>2. CASE TickEnd
    BY <2>2 DEF TickEnd
  <2> QED BY <2>1, <2>2
<1>4. PICK spent \in BOOLEAN : \E b :
         /\ b = OsTimeSliceUpdate(k, spent) \/ (k.run \in Task /\ b = OsSchedYield(k))
         /\ k' = LOS_Schedule(b)
  BY <1>3
<1>5. PICK a :
         /\ a = OsTimeSliceUpdate(k, spent) \/ (k.run \in Task /\ a = OsSchedYield(k))
         /\ k' = LOS_Schedule(a)
  BY <1>4
<1>6. Core(a) /\ SameButSwitch(k, a) /\ a.taskLock = k.taskLock /\ a.switch = k.switch
  BY <1>1, <1>5, SliceCore
<1>7. Semi(a, call)
  BY <1>1, <1>6, SameSemi
<1>8. /\ Semi(k', call) /\ SameButSwitch(a, k') /\ k'.taskLock = a.taskLock
      /\ k'.switch <=> a.switch \/ (a.sched /\ a.taskLock = 0)
  BY <1>5, <1>7, ScheduleSemi
<1> QED BY <1>1, <1>2, <1>6, <1>8 DEF Inv, Leaves, SameButSwitch

(* LOS_TaskDelay *)
LEMMA DelayInv ==
    ASSUME Inv(k, call, tick), Unguarded = {}, Delay
    PROVE  Inv(k', call', tick')
<1> DEFINE a == OsSchedDelay(k)
           t == k.run
<1>1. /\ Semi(k, call) /\ Core(k) /\ Leaves(k, tick) /\ tick \in BOOLEAN
      /\ call' = call /\ tick' = tick /\ k' = LOS_Schedule(a)
      /\ Executing /\ k.sched /\ k.taskLock = 0
  BY DEF Inv, Semi, Delay, InTask, NoCallChange, LOS_TaskDelay
<1>2. RunsFreely(k)
  BY <1>1, ExecFacts
<1>3. /\ t \in Task /\ Core(a) /\ Only(k, a, t) /\ Place(k, t, {}) /\ Place(a, t, {})
      /\ a.status[t] = k.status[t] \cup {"DELAY"}
  BY <1>1, <1>2, DelayCore DEF RunsFreely
<1>4. "UNUSED" \notin k.status[t] /\ "RUNNING" \in k.status[t]
  BY <1>1, <1>2, RunsFreelyFacts
<1>5. Settled(k, call, t)
  <2>1. \A c \in Context : OwnC(k, call, c, t)
    BY <1>1, <1>3 DEF Semi, Own
  <2> QED BY <1>4, <2>1 DEF Settled, OwnC, Making
<1> HIDE DEF a
<1>6. Steady(k, a, t)
  <2>1. \A b \in {"UNUSED", "EXIT", "JOINABLE", "PEND_TIME"} :
           b \in a.status[t] <=> b \in k.status[t]
    BY <1>3
  <2>2. \A h \in WaitLists \cup {FreeTask, RecycleList} : On(a, t, h) <=> On(k, t, h)
    BY <1>3, HeadFacts DEF Place
  <2> HIDE DEF t
  <2> QED BY <1>3, <2>1, <2>2, SteadyIf
<1>7. Semi(a, call)
  <2>1. Alive(a, t)
    BY <1>3 DEF Alive
  <2> HIDE DEF t
  <2> QED BY <1>1, <1>3, <1>5, <1>6, <2>1, TouchSemi
<1>8. a.run = k.run /\ a.sched = k.sched /\ a.switch = k.switch /\ a.taskLock = k.taskLock
  BY <1>3 DEF Only, SameGlobals
<1>9. /\ Semi(k', call) /\ SameButSwitch(a, k') /\ k'.taskLock = a.taskLock
      /\ k'.switch <=> a.switch \/ (a.sched /\ a.taskLock = 0)
  BY <1>1, <1>7, ScheduleSemi
<1> QED BY <1>1, <1>8, <1>9 DEF Inv, Leaves, SameButSwitch

(* LOS_TaskLock and LOS_TaskUnlock *)
LEMMA LockInv ==
    ASSUME Inv(k, call, tick), Lock \/ Unlock
    PROVE  Inv(k', call', tick')
<1>1. /\ Semi(k, call) /\ Core(k) /\ Leaves(k, tick) /\ tick \in BOOLEAN /\ call' = call
      /\ k.taskLock \in Nat /\ tick' = tick /\ Executing
  BY DEF Inv, Semi, Lock, Unlock, InTask, NoCallChange, Core, Base, SchedState
<1>2. ~k.switch
  BY <1>1, ExecFacts
<1>3. ASSUME NEW n \in Nat, NEW a, a = [k EXCEPT !.taskLock = n]
      PROVE  Semi(a, call) /\ SameButSwitch(k, a) /\ a.taskLock = n /\ a.switch = k.switch
  <2>1. Core(a) /\ SameButSwitch(k, a) /\ a.taskLock = n /\ a.switch = k.switch
    BY SMT, <1>1, <1>3, LockCore
  <2> QED BY <1>1, <2>1, SameSemi
<1>4. CASE \E n \in Nat : k' = [k EXCEPT !.taskLock = n]
  <2>1. Semi(k', call) /\ SameButSwitch(k, k') /\ k'.switch = k.switch
    BY <1>3, <1>4
  <2> QED BY <1>1, <1>2, <2>1 DEF Inv, Leaves, SameButSwitch
<1>5. CASE \E a : a = [k EXCEPT !.taskLock = 0] /\ k' = LOS_Schedule(a)
  <2>1. PICK a : a = [k EXCEPT !.taskLock = 0] /\ k' = LOS_Schedule(a)
    BY <1>5
  <2>2. Semi(a, call) /\ SameButSwitch(k, a) /\ a.taskLock = 0 /\ a.switch = k.switch
    BY <1>3, <2>1
  <2>3. /\ Semi(k', call) /\ SameButSwitch(a, k') /\ k'.taskLock = a.taskLock
        /\ k'.switch <=> a.switch \/ (a.sched /\ a.taskLock = 0)
    BY <2>1, <2>2, ScheduleSemi
  <2> QED BY <1>1, <2>2, <2>3 DEF Inv, Leaves, SameButSwitch
<1>6. CASE Lock
  BY SMT, <1>1, <1>4, <1>6 DEF Lock, LOS_TaskLock
<1>7. CASE Unlock
  <2>1. k.taskLock > 0 /\ k' = LOS_TaskUnlock(k)
    BY <1>7 DEF Unlock
  <2>2. CASE k.taskLock = 1
    BY <1>5, <2>1, <2>2 DEF LOS_TaskUnlock
  <2>3. CASE k.taskLock # 1
    <3>1. k.taskLock - 1 \in Nat /\ k' = [k EXCEPT !.taskLock = k.taskLock - 1]
      BY SMT, <1>1, <2>1, <2>3 DEF LOS_TaskUnlock
    <3> QED BY <1>4, <3>1
  <2> QED BY <2>2, <2>3
<1> QED BY <1>6, <1>7

(* The tick interrupt begins. *)
LEMMA TickBeginInv ==
    ASSUME Inv(k, call, tick), TickBegin
    PROVE  Inv(k', call', tick')
BY DEF Inv, Leaves, TickBegin, NoCallChange

(* OsSchedScanTimerList ends a time-out. *)
LEMMA TickExpireInv ==
    ASSUME Inv(k, call, tick), NEW t \in Task, TickExpire(t)
    PROVE  Inv(k', call', tick')
<1>1. /\ Semi(k, call) /\ Core(k) /\ Own(k, call) /\ Leaves(k, tick) /\ tick \in BOOLEAN
      /\ call' = call /\ tick' = tick /\ t \in k.sortLink
      /\ k' = OsSchedWakePendTimeTask(k, t) /\ k.run \in Task \cup {Shadow}
  BY DEF Inv, Semi, TickExpire, NoCallChange, Core, Base, SchedState
<1>2. Core(k') /\ Only(k, k', t) /\ Expired(k, k', t) /\ OffLists(k', t)
  BY <1>1, ExpireCore
<1>3. Local(k, t) /\ Base(k)
  BY <1>1 DEF Core
<1>4. /\ k.run # t /\ "UNUSED" \notin k.status[t]
      /\ "DELAY" \in k.status[t] \/ "PEND" \in k.status[t]
      /\ "DELAY" \in k.status[t] \/ "PEND_TIME" \in k.status[t]
  BY <1>1, <1>3 DEF Local
<1>5. Settled(k, call, t)
  <2>1. \A c \in Context : OwnC(k, call, c, t)
    BY <1>1 DEF Own
  <2> QED BY <1>4, <2>1 DEF Settled, OwnC, Making
<1>6. ASSUME NEW x \in Task PROVE ~On(k, t, JoinList(x))
  <2> SUFFICES ASSUME On(k, t, JoinList(x)) PROVE FALSE
    OBVIOUS
  <2>1. OwnC(k, call, t, x) /\ JoinList(x) \in WaitLists /\ JoinList(x) \in Head_
    BY <1>1, HeadFacts DEF Own, Context
  <2>2. "PEND_TIME" \notin k.status[t]
    BY <2>1 DEF OwnC
  <2>3. "PEND" \in k.status[t]
    BY <1>3, <2>1 DEF Local, Base, ListsDisjoint, On
  <2> QED BY <1>3, <1>4, <2>2, <2>3 DEF Local
<1>7. Steady(k, k', t)
  <2>1. ~On(k, t, FreeTask) /\ ~On(k, t, RecycleList)
    BY <1>3, <1>4 DEF Local
  <2>2. \A x \in Task : JoinList(x) \in WaitLists
    BY HeadFacts
  <2>3. /\ "UNUSED" \in k'.status[t] <=> "UNUSED" \in k.status[t]
        /\ "EXIT" \in k'.status[t] <=> "EXIT" \in k.status[t]
        /\ "JOINABLE" \in k'.status[t] <=> "JOINABLE" \in k.status[t]
        /\ "PEND_TIME" \notin k'.status[t]
    BY SMT, <1>2 DEF Expired
  <2> QED BY <1>2, <1>6, <2>1, <2>2, <2>3 DEF Steady, OffLists
<1>8. Alive(k', t)
  BY <1>2 DEF Alive, Expired
<1>9. Semi(k', call)
  BY <1>1, <1>2, <1>5, <1>7, <1>8, TouchSemi
<1>10. /\ k'.run = k.run /\ k'.sched = k.sched /\ k'.switch = k.switch
       /\ k'.taskLock = k.taskLock /\ k'.status[k'.run] = k.status[k.run]
  BY <1>1, <1>2, <1>4 DEF Only, SameGlobals, SameAt
<1> QED BY <1>1, <1>9, <1>10 DEF Inv, Leaves

(* The context in execution may begin, continue or end a call. *)
LEMMA CallStep ==
    ASSUME Inv(k, call, tick), Executing, NEW v \in CallStates, GoesOn(k.run, v)
    PROVE  /\ Replaced(call, call', k.run) /\ call'[k.run] = v
           /\ OwnSelf(k, call') /\ call' \in [Context -> CallStates]
<1>1. /\ k.run \in Context
      /\ \/ k.sched /\ RunsFreely(k)
         \/ ~k.sched /\ k.run = Shadow
  BY ExecFacts
<1>2. call \in [Context -> CallStates] /\ Core(k) /\ OwnSelf(k, call)
  BY DEF Inv, Semi, Own
<1>3. /\ Replaced(call, call', k.run) /\ call'[k.run] = v
      /\ call' \in [Context -> CallStates]
  BY <1>1, <1>2 DEF GoesOn, Replaced
<1>4. OwnSelf(k, call')
  <2>1. k.run \in Task => /\ k.run # Idle /\ k.sched /\ "UNUSED" \notin k.status[k.run]
                          /\ "EXIT" \notin k.status[k.run]
    BY <1>1, <1>2, RunsFreelyFacts, TaskFacts DEF RunsFreely
  <2>2. k.sched => k.run # Shadow
    BY <1>1, TaskFacts DEF RunsFreely
  <2> QED BY <1>1, <1>2, <1>3, <2>1, <2>2 DEF OwnSelf, Replaced, Context
<1> QED BY <1>3, <1>4

(* A step that touches one task t which does not run, without asking for   *)
(* a switch.                                                               *)
LEMMA QuietInv ==
    ASSUME Inv(k, call, tick), tick' = tick, NEW t \in Task, k.run # t,
           Core(k'), Only(k, k', t), Alive(k', t),
           call' \in [Context -> CallStates], Own(k', call')
    PROVE  Inv(k', call', tick')
<1>1. /\ \A u \in Task : Alive(k, u)
      /\ Leaves(k, tick) /\ tick \in BOOLEAN /\ k.run \in Task \cup {Shadow}
  BY DEF Inv, Semi, Core, Base, SchedState
<1>2. /\ k'.run = k.run /\ k'.sched = k.sched /\ k'.switch = k.switch
      /\ k'.taskLock = k.taskLock /\ k'.status[Shadow] = k.status[Shadow]
      /\ \A u \in Task : u # t => k'.status[u] = k.status[u]
  BY DEF Only, SameGlobals, SameAt
<1>3. \A u \in Task : Alive(k', u)
  BY <1>1, <1>2 DEF Alive
<1>4. k'.status[k'.run] = k.status[k.run]
  BY <1>1, <1>2
<1>5. Leaves(k', tick')
  BY <1>1, <1>2, <1>4 DEF Leaves
<1> QED BY <1>1, <1>3, <1>5 DEF Inv, Semi

(* No call is about a TCB on the recycle list, and nobody joins it. *)
LEMMA RecycledUnused ==
    ASSUME Inv(k, call, tick), NEW t \in Task, On(k, t, RecycleList)
    PROVE  /\ Unjoined(k, t) /\ call[t] = None /\ k.run # t
           /\ \A d \in Context : /\ call[d] # CInit(t) /\ call[d] # CEnQueue(t)
                                  /\ call[d] # CJoin(t)
<1>1. Core(k) /\ Own(k, call) /\ Local(k, t)
  BY DEF Inv, Semi, Core
<1>2. "UNUSED" \in k.status[t] /\ ~Place(k, t, {}) /\ k.run # t
  BY <1>1, HeadFacts DEF Local, Place
<1>3. Unjoined(k, t) /\ call[t] = None
  BY <1>1, <1>2 DEF Own, OwnT, OwnSelf
<1>4. ASSUME NEW d \in Context
      PROVE  call[d] # CInit(t) /\ call[d] # CEnQueue(t) /\ call[d] # CJoin(t)
  <2>1. OwnC(k, call, d, t)
    BY <1>1 DEF Own
  <2> QED BY <1>2, <2>1 DEF OwnC, Fresh, Making
<1> QED BY <1>2, <1>3, <1>4

(* A round of OsRecycleFinishedTask, from LOS_TaskCreateOnly or from idle. *)
LEMMA RecycleInv ==
    ASSUME Inv(k, call, tick), tick' = tick, k.list[RecycleList] # <<>>, k' = RecycleFirst(k),
           NEW c \in Context, \A u \in Task : call[c] # CInit(u) /\ call[c] # CJoin(u),
           Replaced(call, call', c), call'[c] \in Plain, OwnSelf(k, call'),
           c \in Task => "UNUSED" \notin k.status[c]
    PROVE  Inv(k', call', tick')
<1> DEFINE t == Head(k.list[RecycleList])
<1>1. Core(k) /\ Own(k, call) /\ k.list[RecycleList] \in Seq(Task)
  BY HeadFacts DEF Inv, Semi, Core, Base, SchedState
<1>2. t \in Task /\ On(k, t, RecycleList)
  BY <1>1, HeadProps DEF On, OnList
<1>3. /\ Unjoined(k, t) /\ call[t] = None /\ k.run # t
      /\ \A d \in Context : /\ call[d] # CInit(t) /\ call[d] # CEnQueue(t)
                             /\ call[d] # CJoin(t)
  BY <1>2, RecycledUnused
<1>4. t \in Task \ {Idle} /\ Freed(k, k', t)
  BY <1>1, <1>3, RecycleFirstCore
<1> HIDE DEF t
<1>5. OnlyCaller(call, c, t)
  BY <1>3 DEF OnlyCaller
<1>6. call'[t] = None
  <2>1. "UNUSED" \in k.status[t]
    BY <1>1, <1>2 DEF Core, Local
  <2> QED BY <1>2, <1>3, <2>1 DEF Replaced, Context
<1>7. Own(k', call')
  BY <1>1, <1>3, <1>4, <1>5, <1>6, OwnFreed
<1>8. Core(k') /\ Only(k, k', t) /\ "UNUSED" \in k'.status[t]
  BY <1>4 DEF Freed
<1>9. Alive(k', t) /\ call' \in [Context -> CallStates]
  BY <1>8 DEF Alive, Replaced
<1> QED BY <1>2, <1>3, <1>7, <1>8, <1>9, QuietInv

(* OsRecycleFinishedTask of the idle task *)
LEMMA IdleRecycleInv ==
    ASSUME Inv(k, call, tick), IdleRecycle
    PROVE  Inv(k', call', tick')
<1>1. /\ call' = call /\ tick' = tick /\ k.list[RecycleList] # <<>> /\ k' = RecycleFirst(k)
      /\ call \in [Context -> CallStates] /\ OwnSelf(k, call)
      /\ "UNUSED" \notin k.status[Idle]
  <2>1. Core(k) /\ k.run = Idle /\ Idle \in Task
    BY TaskFacts DEF Inv, Semi, IdleRecycle
  <2> QED BY <2>1 DEF IdleRecycle, NoCallChange, Inv, Semi, Own, Core, Local
<1>2. call[Idle] = None /\ Idle \in Context
  BY <1>1, TaskFacts DEF OwnSelf, Context
<1>3. call[Idle] \in Plain /\ \A u \in Task : call[Idle] # CInit(u) /\ call[Idle] # CJoin(u)
  BY SMT, <1>2, CallFacts
<1>4. Replaced(call, call', Idle) /\ call'[Idle] \in Plain /\ OwnSelf(k, call')
  BY <1>1, <1>3 DEF Replaced
<1> QED BY <1>1, <1>2, <1>3, <1>4, RecycleInv

(* OsRecycleFinishedTask of LOS_TaskCreateOnly *)
LEMMA CreateRecycleInv ==
    ASSUME Inv(k, call, tick), CreateRecycle
    PROVE  Inv(k', call', tick')
<1>1. /\ tick' = tick /\ Executing /\ call[k.run] \in Plain
      /\ <<"recycle", 0>> \in Plain /\ <<"pop", 0>> \in Plain /\ Plain \subseteq CallStates
  BY CallFacts DEF CreateRecycle, InTask
<1>2. k.run \in Context /\ \A u \in Task : call[k.run] # CInit(u) /\ call[k.run] # CJoin(u)
  BY SMT, <1>1, ExecFacts, CallFacts
<1>3. k.run \in Task => "UNUSED" \notin k.status[k.run]
  BY <1>1, ExecFacts, RunsFreelyFacts, TaskFacts DEF Inv, Semi
<1>4. CASE k.list[RecycleList] # <<>>
  <2>1. k' = RecycleFirst(k) /\ GoesOn(k.run, <<"recycle", 0>>)
    BY <1>4 DEF CreateRecycle
  <2>2. /\ Replaced(call, call', k.run) /\ call'[k.run] = <<"recycle", 0>> /\ OwnSelf(k, call')
    BY <1>1, <2>1, CallStep
  <2> QED BY <1>1, <1>2, <1>3, <1>4, <2>1, <2>2, RecycleInv
<1>5. CASE k.list[RecycleList] = <<>>
  <2>1. k' = k /\ GoesOn(k.run, <<"pop", 0>>)
    BY <1>5 DEF CreateRecycle
  <2>2. Own(k, call') /\ call' \in [Context -> CallStates]
    <3>1. /\ call \in [Context -> CallStates] /\ Own(k, call) /\ Core(k)
          /\ call' = [call EXCEPT ![k.run] = <<"pop", 0>>]
      BY <2>1 DEF Inv, Semi, GoesOn
    <3>2. /\ k.run \in Task => /\ k.run # Idle /\ "UNUSED" \notin k.status[k.run]
                               /\ "EXIT" \notin k.status[k.run]
          /\ IF k.sched THEN k.run # Shadow ELSE k.run = Shadow
      BY <1>1, <3>1, ExecFacts, RunsFreelyFacts, TaskFacts DEF RunsFreely
    <3> QED BY <1>1, <1>2, <3>1, <3>2, OwnCallEnds
  <2> QED BY <1>1, <2>1, <2>2 DEF Inv, Semi
<1> QED BY <1>4, <1>5

(* A free TCB is taken, or there is none and LOS_TaskCreateOnly fails. *)
LEMMA CreatePopInv ==
    ASSUME Inv(k, call, tick), CreatePop
    PROVE  Inv(k', call', tick')
<1>1. /\ tick' = tick /\ Executing /\ call[k.run] \in Plain /\ None \in Plain
      /\ Plain \subseteq CallStates
  BY CallFacts DEF CreatePop
<1>2. k.run \in Context /\ \A u \in Task : call[k.run] # CInit(u) /\ call[k.run] # CJoin(u)
  BY SMT, <1>1, ExecFacts, CallFacts
<1>3. call \in [Context -> CallStates] /\ Own(k, call) /\ Core(k)
  BY DEF Inv, Semi
<1>4. CASE k.list[FreeTask] = <<>>
  <2>1. k' = k /\ call' = [call EXCEPT ![k.run] = None]
    BY <1>4 DEF CreatePop, Returns
  <2>2. Own(k, call') /\ call' \in [Context -> CallStates]
    <3>1. /\ k.run \in Task => /\ k.run # Idle /\ "UNUSED" \notin k.status[k.run]
                               /\ "EXIT" \notin k.status[k.run]
          /\ IF k.sched THEN k.run # Shadow ELSE k.run = Shadow
      BY <1>1, <1>3, ExecFacts, RunsFreelyFacts, TaskFacts DEF RunsFreely
    <3> QED BY <1>1, <1>2, <1>3, <2>1, <3>1, OwnCallEnds
  <2> QED BY <1>1, <2>1, <2>2 DEF Inv, Semi
<1>5. CASE k.list[FreeTask] # <<>>
  <2> DEFINE t == Head(k.list[FreeTask])
  <2>1. k' = ListDelete(k, t) /\ GoesOn(k.run, CInit(t))
    BY <1>5 DEF CreatePop, CInit
  <2>2. t \in Task /\ On(k, t, FreeTask)
    <3>1. k.list[FreeTask] \in Seq(Task)
      BY <1>3, HeadFacts DEF Core, Base, SchedState
    <3> QED BY <1>5, <3>1, HeadProps DEF On, OnList
  <2> HIDE DEF t
  <2>3. Base(k) /\ Local(k, t) /\ CInit(t) \in CallStates
    BY <1>3, <2>2, CallFacts DEF Core
  <2>4. /\ Base(k') /\ Only(k, k', t) /\ Place(k', t, {}) /\ k'.status = k.status
        /\ k'.sortLink = k.sortLink
    BY <2>1, <2>2, <2>3, DeleteEffect
  <2>5. /\ Replaced(call, call', k.run) /\ call'[k.run] = CInit(t) /\ OwnSelf(k, call')
        /\ call' \in [Context -> CallStates]
    BY <1>1, <2>1, <2>3, CallStep
  <2>6. t # Idle
    BY <2>2, <2>3, HeadFacts DEF Base, ListsDisjoint, On
  <2>7. k.status[t] = {"UNUSED"} /\ k.run # t
    BY <2>2, <2>3 DEF Local
  <2>8. Own(k', call')
    BY <1>1, <1>2, <1>3, <2>2, <2>4, <2>5, <2>6, OwnPopped
  <2>9. Local(k', t)
    <3>1. k'.run # t /\ k'.status[t] = {"UNUSED"} /\ t \notin k'.sortLink
      BY <2>3, <2>4, <2>7 DEF Only, SameGlobals, Local
    <3> QED BY <2>2, <2>4, <2>6, <3>1, LocalUnlinked
  <2>10. Core(k') /\ Alive(k', t)
    BY <1>3, <2>2, <2>4, <2>7, <2>9, CoreFromOnly DEF Alive
  <2> QED BY <1>1, <2>2, <2>4, <2>5, <2>7, <2>8, <2>10, QuietInv
<1> QED BY <1>4, <1>5

(* OsNewTaskInit, or a stack that cannot be had. *)
LEMMA CreateInitInv ==
    ASSUME Inv(k, call, tick), NEW t \in Task, NEW p \in 0 .. (PriNum - 2), NEW attr \in Attrs,
           CreateInit(t, p, attr)
    PROVE  Inv(k', call', tick')
<1>1. /\ tick' = tick /\ Executing /\ call[k.run] = CInit(t) /\ None \in Plain
      /\ Plain \subseteq CallStates /\ CEnQueue(t) \in CallStates
  BY CallFacts DEF CreateInit, CInit
<1>2. k.run \in Context /\ k \in SchedState
  BY <1>1, ExecFacts DEF Inv, Semi, Core, Base
<1>3. call \in [Context -> CallStates] /\ Own(k, call) /\ Core(k)
  BY DEF Inv, Semi
<1>4. k.status[t] = {"UNUSED"} /\ Place(k, t, {})
  BY <1>1, <1>2, <1>3 DEF Own, OwnC, Fresh
<1>5. Base(k) /\ t # Idle /\ t \notin k.sortLink /\ k.run # t
  BY <1>3, <1>4 DEF Core, Local
<1>6. Unjoined(k, t) /\ call[t] = None
  BY <1>3, <1>4 DEF Own, OwnT, OwnSelf
<1>7. CASE k' = OsInsertTCBToFreeList(k, t) /\ Returns(k.run)
  <2>1. Only(k, k, t)
    BY DEF Only, SameGlobals, SameAt
  <2>2. Freed(k, k', t)
    BY <1>3, <1>4, <1>5, <1>6, <1>7, <2>1, InsertFreeCore
  <2>3. GoesOn(k.run, None)
    BY <1>7 DEF Returns, GoesOn
  <2>4. /\ Replaced(call, call', k.run) /\ call'[k.run] = None /\ OwnSelf(k, call')
        /\ call' \in [Context -> CallStates]
    BY <1>1, <2>3, CallStep
  <2>5. OnlyCaller(call, k.run, t)
    <3>1. ASSUME NEW d \in Context
          PROVE  (d # k.run => call[d] # CInit(t)) /\ call[d] # CEnQueue(t) /\ call[d] # CJoin(t)
      <4>1. OwnC(k, call, d, t)
        BY <1>3 DEF Own
      <4>2. "UNUSED" \in k.status[t]
        BY <1>4
      <4>3. d # k.run => call[d] # CInit(t)
        BY <1>1, <1>2, <1>3 DEF Own, OwnCalls
      <4> QED BY <4>1, <4>2, <4>3 DEF OwnC, Making
    <3> QED BY <1>1, <3>1, CallFacts DEF OnlyCaller
  <2>6. call'[t] = None
    BY <1>6, <2>4 DEF Replaced, Context
  <2>7. Own(k', call')
    BY <1>1, <1>2, <1>3, <1>5, <1>6, <2>2, <2>4, <2>5, <2>6, OwnFreed
  <2>8. Core(k') /\ Only(k, k', t) /\ Alive(k', t)
    BY <2>2 DEF Freed, Alive
  <2> QED BY <1>1, <1>5, <2>4, <2>7, <2>8, QuietInv
<1>8. CASE k' = OsNewTaskInit(k, t, p, attr) /\ (Returns(k.run) \/ GoesOn(k.run, <<"enqueue", t>>))
  <2>1. p \in Prio /\ attr \in SUBSET {"JOINABLE", "STACK_FREE"}
    BY SMT, SchedConstants, TaskConstants DEF Prio
  <2>2. ~Linked(k, t)
    BY <1>4 DEF Place, Linked, On
  <2>3. /\ Core(k') /\ Only(k, k', t) /\ SamePlace(k, k', t)
        /\ k'.status[t] = {"SUSPEND"} \cup attr
    BY SMTT(60), <1>3, <1>4, <1>8, <2>1, <2>2, NewTaskCore
  <2>4. PICK v \in CallStates : GoesOn(k.run, v) /\ (v = None \/ v = CEnQueue(t))
    BY <1>1, <1>8 DEF Returns, GoesOn, CEnQueue
  <2>5. /\ Replaced(call, call', k.run) /\ call'[k.run] = v /\ OwnSelf(k, call')
        /\ call' \in [Context -> CallStates]
    BY <1>1, <2>4, CallStep
  <2>6. call'[k.run] = None \/ call'[k.run] = CEnQueue(t)
    BY <2>4, <2>5
  <2>7. Own(k', call')
    BY <1>1, <1>2, <1>3, <2>1, <2>3, <2>5, <2>6, OwnNew
  <2>8. Alive(k', t)
    BY <2>3 DEF Alive
  <2> QED BY <1>1, <1>5, <2>3, <2>5, <2>7, <2>8, QuietInv
<1> QED BY <1>7, <1>8 DEF CreateInit

(* The end of LOS_TaskCreate *)
LEMMA CreateEnQueueInv ==
    ASSUME Inv(k, call, tick), NEW t \in Task, CreateEnQueue(t)
    PROVE  Inv(k', call', tick')
<1> DEFINE a == OsSchedTaskEnQueue(k, t)
<1>1. /\ tick' = tick /\ tick \in BOOLEAN /\ Executing /\ call[k.run] = CEnQueue(t)
      /\ None \in Plain /\ call' = [call EXCEPT ![k.run] = None] /\ k' = LOS_Schedule(a)
      /\ Leaves(k, tick)
  BY CallFacts DEF CreateEnQueue, CEnQueue, Returns, Inv
<1>2. k.run \in Context /\ \A u \in Task : call[k.run] # CInit(u) /\ call[k.run] # CJoin(u)
  BY <1>1, ExecFacts, CallFacts
<1>3. call \in [Context -> CallStates] /\ Own(k, call) /\ Core(k) /\ Semi(k, call)
  BY DEF Inv, Semi
<1>4. Base(k) /\ Local(k, t) /\ Making(k.status[t])
  BY <1>1, <1>2, <1>3 DEF Core, Own, OwnC
<1>5. t # Idle /\ k.run # t /\ t \notin k.sortLink
  BY <1>4 DEF Local, Making
<1>6. Place(k, t, {}) /\ Queueable(k.status[t])
  <2>1. k.status[t] \cap {"READY", "PEND", "UNUSED"} = {} /\ Queueable(k.status[t])
    BY <1>4 DEF Making, Queueable
  <2> QED BY <1>4, <2>1, UnlinkedIf
<1>7. Own(k, call') /\ call' \in [Context -> CallStates]
  <2>1. /\ k.run \in Task => /\ k.run # Idle /\ "UNUSED" \notin k.status[k.run]
                             /\ "EXIT" \notin k.status[k.run]
        /\ IF k.sched THEN k.run # Shadow ELSE k.run = Shadow
    BY <1>1, <1>3, ExecFacts, RunsFreelyFacts, TaskFacts DEF RunsFreely
  <2> QED BY <1>1, <1>2, <1>3, <2>1, OwnCallEnds
<1>8. Settled(k, call', t)
  <2>1. \A c \in Context : c # k.run => call[c] # CEnQueue(t)
    BY <1>1, <1>2, <1>3 DEF Own, OwnCalls
  <2>2. None # CEnQueue(t)
    BY SMT, CallFacts
  <2> QED BY <1>1, <1>2, <1>3, <1>4, <2>1, <2>2 DEF Settled, Making
<1>9. /\ Core(a) /\ Only(k, a, t) /\ a.status[t] = Readied(k.status[t])
      /\ a.priority[t] = k.priority[t] /\ OffLists(a, t)
  <2>1. Only(k, k, t)
    BY DEF Only, SameGlobals, SameAt
  <2> QED BY <1>3, <1>4, <1>5, <1>6, <2>1, EnQueueCore
<1> HIDE DEF a
<1>10. Steady(k, a, t) /\ Alive(a, t)
  <2>1. \A h \in WaitLists \cup {FreeTask, RecycleList} : On(a, t, h) <=> On(k, t, h)
    BY <1>6, <1>9, HeadFacts DEF OffLists, Place
  <2>2. \A b \in {"UNUSED", "EXIT", "JOINABLE", "PEND_TIME"} :
           b \in a.status[t] <=> b \in k.status[t]
    BY <1>4, <1>9 DEF Readied, Local, Making
  <2>3. Alive(a, t)
    BY <1>9 DEF Alive, Readied
  <2>4. Steady(k, a, t)
    BY <2>1, <2>2, SteadyIf
  <2> QED BY <2>3, <2>4
<1>11. Semi(a, call')
  <2>1. Semi(k, call')
    BY <1>3, <1>7 DEF Semi
  <2> QED BY <1>8, <1>9, <1>10, <2>1, TouchSemi
<1>12. /\ a.run = k.run /\ a.sched = k.sched /\ a.switch = k.switch /\ a.taskLock = k.taskLock
       /\ a.status[a.run] = k.status[k.run]
  BY <1>2, <1>5, <1>9 DEF Only, SameGlobals, SameAt, Context
<1>13. /\ Semi(k', call') /\ SameButSwitch(a, k') /\ k'.taskLock = a.taskLock
       /\ k'.switch <=> a.switch \/ (a.sched /\ a.taskLock = 0)
  BY <1>1, <1>11, ScheduleSemi
<1> QED BY <1>1, <1>12, <1>13 DEF Inv, Leaves, SameButSwitch
============================================================================
