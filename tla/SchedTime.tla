------------------------------ MODULE SchedTime ------------------------------
(***************************************************************************)
(* Time in the scheduler: the sort link of kernel/src/los_sortlink.c, the  *)
(* response time that kernel/src/los_sched.c programs for the next tick,   *)
(* and the cycle count that kernel/src/los_tick.c puts together from the   *)
(* tick timer of the rehosted board.  What tasks wait for is left out: a   *)
(* wait is a number of ticks, and a waker may end it.  A step is a whole   *)
(* interrupt-locked section, by the contract of module Sched.              *)
(*                                                                         *)
(* The code only compares times and takes their differences, so an action  *)
(* ends by counting all times from g_tickTimerBase (Rebase).  Without it   *)
(* the clock grows for ever.                                               *)
(***************************************************************************)
EXTENDS Integers, Sequences, FiniteSets, FiniteSetsExt, SequencesExt

CONSTANTS
    TaskNum,                        \* tasks 1 .. TaskNum; 0 is the idle task
    Prio,                           \* the priority of each, 0 being the best
    WaitTicks,                      \* the time-outs that are asked for, Forever included
    MaxLock,                        \* bound on g_losTaskLock
    Ops,                            \* what tasks do: "delay", "pend", "wake", "yield", "lock"
    \* In cycles, as SchedTimeBaseInit computes them:
    g_schedTimeSlice, g_schedTimeSliceMin, g_schedTickMinPeriod, g_tickResponsePrecision,
    OS_CYCLE_PER_TICK,
    periodMax,                      \* LOSCFG_BASE_CORE_TICK_RESPONSE_MAX
    Word,                           \* the values of a UINT32
    OS_SCHED_MAX_RESPONSE_TIME      \* stands for no time at all

Idle == 0
OS_INVALID == -1
Forever == 0                        \* LOS_WAIT_FOREVER as a time-out
Task == 0 .. TaskNum

ASSUME SchedTimeConstants ==
    /\ TaskNum \in Nat \ {0} /\ Prio \in [1 .. TaskNum -> Nat]
    /\ WaitTicks \subseteq Nat /\ MaxLock \in Nat
    /\ g_schedTimeSliceMin \in Nat \ {0} /\ g_schedTimeSlice \in Nat
    /\ g_schedTimeSliceMin < g_tickResponsePrecision
    /\ g_tickResponsePrecision < g_schedTickMinPeriod
    /\ g_schedTickMinPeriod < g_schedTimeSlice
    /\ g_schedTickMinPeriod < OS_CYCLE_PER_TICK /\ OS_CYCLE_PER_TICK < periodMax
    /\ periodMax < Word
    /\ \A n \in WaitTicks : 2 * (Word + n * OS_CYCLE_PER_TICK) < OS_SCHED_MAX_RESPONSE_TIME

(***************************************************************************)
(* The state is one record:                                                *)
(*   base, old, load, upd   g_tickTimerBase, g_oldTickTimerBase,           *)
(*                          g_SysTickLoad, g_tickTimerBaseUpdate           *)
(*   respTime, respId       g_schedResponseTime, g_schedResponseID         *)
(*   run, ready, lock       runTask, the ready queues in the order in      *)
(*                          which they are served, g_losTaskLock           *)
(*   slice, start           timeSlice, startTime of the running task       *)
(*   wait, ticks            what a task's status says it waits for;        *)
(*                          waitTimes if it is for a time                  *)
(*   owes                   the task is in a call that ends in             *)
(*                          LOS_Schedule                                   *)
(*   resp, link             responseTime of each node, and the sort link   *)
(*   late                   how many ticks have found the node due and     *)
(*                          left it on the link (history)                  *)
(*   tardy                  a wait has ended more than a tick after its    *)
(*                          time (history)                                 *)
(*   fault                  a LOS_ASSERT has failed, or a difference of    *)
(*                          times is below zero                            *)
(***************************************************************************)
VARIABLE s

Max64 == OS_SCHED_MAX_RESPONSE_TIME

-----------------------------------------------------------------------------
(* The clock.  SysTickCycleGet of the board returns g_SysTickLoad - 1.     *)
SysTickCycleGet(r) == (r.load - 1) % Word

(* LOS_SysCycleGet: what it returns, and what it leaves behind. *)
Turned(r) == r.base + SysTickCycleGet(r) < r.old
CycleOf(r) == r.base + SysTickCycleGet(r) + (IF Turned(r) THEN r.load ELSE 0)
LOS_SysCycleGet(r) ==
    [r EXCEPT !.base = IF Turned(r) THEN @ + r.load ELSE @,
              !.upd = @ \/ Turned(r),
              !.fault = @ \/ CycleOf(r) < r.old,
              !.old = CycleOf(r)]

OsUpdateSysTimeBase(r) ==
    [r EXCEPT !.base = IF r.upd THEN @ ELSE @ + r.load, !.upd = FALSE]

(* Defect: the base is left where it was. *)
ReloadKeepsBase(r, period) ==
    [LOS_SysCycleGet(r) EXCEPT !.load = (Min({period, periodMax}) - 1) % Word]
OsTickTimerReload(r, period) ==
    LET g == LOS_SysCycleGet(r)
    IN  [g EXCEPT !.base = g.old, !.load = (Min({period, periodMax}) - 1) % Word]

-----------------------------------------------------------------------------
(* The sort link. *)

OsAddNode2SortLink(r, t) ==
    LET time == r.resp[t]
        pos == IF r.link = <<>> \/ r.resp[r.link[1]] > time THEN 1
               ELSE IF r.resp[r.link[1]] = time THEN 2
               ELSE 1 + Max({i \in DOMAIN r.link : r.resp[r.link[i]] <= time})
    IN  [r EXCEPT !.link = InsertAt(@, pos, t)]

OsAdd2SortLink(r, t) ==
    OsAddNode2SortLink([r EXCEPT !.resp[t] = r.start + r.ticks[t] * OS_CYCLE_PER_TICK], t)

OsDeleteNodeSortLink(r, t) ==
    [r EXCEPT !.link = SelectSeq(@, LAMBDA u : u # t), !.resp[t] = Max64, !.late[t] = 0]

(* Deleting a node that may be the one the timer is programmed for makes   *)
(* the next schedule program it anew.                                      *)
OsDeleteSortLink(r, t) ==
    IF r.resp[t] = Max64 THEN r
    ELSE OsDeleteNodeSortLink([r EXCEPT !.respTime = IF r.resp[t] <= @ THEN Max64 ELSE @], t)

GetSortLinkNextExpireTime(r, now) ==
    IF r.link = <<>> THEN Max64 - g_tickResponsePrecision
    ELSE Max({r.resp[r.link[1]], now + g_tickResponsePrecision})

-----------------------------------------------------------------------------
(* The ready queues, one after the other. *)
Better(r, t, strictly) ==
    LET Before(u) == Prio[u] < Prio[t] \/ (~strictly /\ Prio[u] = Prio[t])
        After(u) == ~Before(u)
    IN  SelectSeq(r.ready, Before) \o <<t>> \o SelectSeq(r.ready, After)

OsSchedTaskEnQueue(r, t) ==
    IF t = Idle THEN r
    ELSE IF r.slice[t] > g_schedTimeSliceMin
         THEN [r EXCEPT !.ready = Better(r, t, TRUE)]
         ELSE [r EXCEPT !.ready = Better(r, t, FALSE), !.slice[t] = g_schedTimeSlice]

OsGetTopTask(r) == IF r.ready = <<>> THEN Idle ELSE r.ready[1]
OsSchedTaskDeQueue(r, t) == [r EXCEPT !.ready = SelectSeq(@, LAMBDA u : u # t)]

(* A slice that is overdrawn is recorded as Spent, by however much: it is  *)
(* only compared with g_schedTimeSliceMin before it is filled up again.    *)
Spent == -1
OsTimeSliceUpdate(r, now) ==
    [r EXCEPT !.fault = @ \/ now < r.start,
              !.slice[r.run] = IF r.run = Idle THEN @ ELSE Max({@ - (now - r.start), Spent}),
              !.start = now]

-----------------------------------------------------------------------------
(* Programming the timer. *)

(* Defect: the end of the slice is taken whatever the sort link says. *)
SliceFirst(r, id, end) ==
    LET g == LOS_SysCycleGet(r)
        next == GetSortLinkNextExpireTime(g, g.old)
        period == Max({end - g.old, g_tickResponsePrecision})
        p == OsTickTimerReload([g EXCEPT !.respId = id], period)
    IN  IF g.respTime <= next THEN g
        ELSE [p EXCEPT !.respTime = g.old + Min({period, periodMax})]

OsSchedSetNextExpireTime(r, id, end) ==
    LET g == LOS_SysCycleGet(r)
        now == g.old
        expire == GetSortLinkNextExpireTime(g, now)
        isTimeSlice == expire - end > g_schedTickMinPeriod
        next == IF isTimeSlice THEN end ELSE expire
        period == Max({next - now, g_tickResponsePrecision})
        p == OsTickTimerReload([g EXCEPT !.respId = IF isTimeSlice THEN id ELSE OS_INVALID,
                                         !.fault = @ \/ next < now], period)
    IN  IF g.respTime - next < g_tickResponsePrecision THEN g
        ELSE [p EXCEPT !.respTime = now + Min({period, periodMax})]

IdleEnd == Max64 - g_tickResponsePrecision

OsSchedUpdateExpireTime(r) ==
    OsSchedSetNextExpireTime(r, r.run,
        IF r.run = Idle THEN IdleEnd
        ELSE r.start + (IF r.slice[r.run] <= g_schedTimeSliceMin THEN g_schedTimeSlice
                        ELSE r.slice[r.run]))

(* OsSchedTaskSwitch, and runTask = newTask of ArchTaskSchedule. *)
Leave(r) ==
    IF r.wait[r.run] # "no" /\ r.ticks[r.run] # Forever THEN OsAdd2SortLink(r, r.run)
    ELSE IF r.wait[r.run] = "no" THEN OsSchedTaskEnQueue(r, r.run)
    ELSE r
End(r) == IF r.run = Idle THEN IdleEnd ELSE r.start + r.slice[r.run]

(* Defect: a response that was programmed for the old task is kept. *)
SwitchKeepsResponse(r) ==
    LET g == LOS_SysCycleGet(r)
        l == Leave(OsTimeSliceUpdate(g, g.old))
        n == OsSchedTaskDeQueue([l EXCEPT !.run = OsGetTopTask(l)], OsGetTopTask(l))
    IN  OsSchedSetNextExpireTime(n, n.run, End(n))

OsSchedTaskSwitch(r) ==
    LET g == LOS_SysCycleGet(r)
        l == Leave(OsTimeSliceUpdate(g, g.old))
        n == OsSchedTaskDeQueue([l EXCEPT !.run = OsGetTopTask(l),
                                          !.respTime = IF l.respId = r.run THEN Max64 ELSE @],
                                OsGetTopTask(l))
    IN  OsSchedSetNextExpireTime(n, n.run, End(n))

-----------------------------------------------------------------------------
(* The tick. *)

(* OsSchedScanTimerList: the nodes from the first up to one that is not    *)
(* due are taken off, and their tasks are made ready in that order.        *)
Due(r, now) ==
    LET late == {i \in DOMAIN r.link : r.resp[r.link[i]] > now}
    IN  SubSeq(r.link, 1, Min(late \cup {Len(r.link) + 1}) - 1)
OsSchedWakePendTimeTask(r, t) == OsSchedTaskEnQueue([r EXCEPT !.wait[t] = "no", !.ticks[t] = Forever], t)
OsSchedScanTimerList(r) ==
    LET now == r.old
        Expire(q, t) ==
            OsSchedWakePendTimeTask(
                OsDeleteNodeSortLink([q EXCEPT !.tardy = @ \/ now - q.resp[t] > OS_CYCLE_PER_TICK], t), t)
    IN  FoldLeft(Expire, r, Due(r, now))
PassedOver(r) == [r EXCEPT !.late = [t \in Task |-> IF r.resp[t] <= r.old THEN @[t] + 1 ELSE @[t]]]

(* Times count from g_tickTimerBase again. *)
Rebase(r) ==
    LET Shift(time) == IF time = Max64 THEN time ELSE time - r.base
    IN  [r EXCEPT !.base = 0, !.old = Shift(@), !.start = Shift(@), !.respTime = Shift(@),
                  !.resp = [t \in Task |-> Shift(@[t])]]

(* OsTickHandler.  A tick that was programmed for the end of a slice does  *)
(* not look at the sort link.  Defect: nor does one under a task lock.     *)
Handled(r) ==
    LET u == [OsTimeSliceUpdate(r, r.old) EXCEPT !.respTime = Max64]
    IN  IF r.lock = 0 THEN OsSchedTaskSwitch(u) ELSE OsSchedUpdateExpireTime(u)
TickScansUnlocked ==
    LET g == LOS_SysCycleGet(OsUpdateSysTimeBase(s))
    IN  s' = Rebase(Handled(IF g.respId = OS_INVALID /\ g.lock = 0 THEN OsSchedScanTimerList(g)
                            ELSE PassedOver(g)))

OsTickHandler ==
    LET g == LOS_SysCycleGet(OsUpdateSysTimeBase(s))
    IN  s' = Rebase(Handled(IF g.respId = OS_INVALID THEN OsSchedScanTimerList(g)
                            ELSE PassedOver(g)))

-----------------------------------------------------------------------------
(* What tasks do.  One step is one section with interrupts locked, so a    *)
(* tick may come between a call and the LOS_Schedule at its end.           *)
LOS_Schedule ==
    /\ s.owes[s.run]
    /\ LET r == [s EXCEPT !.owes[s.run] = FALSE]
       IN  s' = IF r.lock = 0 THEN Rebase(OsSchedTaskSwitch(r)) ELSE r

Calls(op) == op \in Ops /\ s.run # Idle /\ ~s.owes[s.run]

(* OsSchedDelay and OsSchedTaskWait *)
Wait(kind, n) ==
    /\ Calls(kind) /\ s.lock = 0
    /\ kind = "delay" => n # Forever
    /\ s' = [s EXCEPT !.wait[s.run] = kind, !.ticks[s.run] = n, !.owes[s.run] = TRUE]

LOS_TaskYield == Calls("yield") /\ s' = [s EXCEPT !.slice[s.run] = 0, !.owes[s.run] = TRUE]

(* A post or its like. *)
OsSchedTaskWake(t) ==
    /\ Calls("wake") /\ s.wait[t] = "pend"
    /\ LET d == IF s.ticks[t] = Forever THEN s ELSE OsDeleteSortLink(s, t)
       IN  s' = OsSchedTaskEnQueue([d EXCEPT !.wait[t] = "no", !.ticks[t] = Forever, !.owes[s.run] = TRUE], t)

LOS_TaskLock == Calls("lock") /\ s.lock < MaxLock /\ s' = [s EXCEPT !.lock = @ + 1]
LOS_TaskUnlock ==
    /\ Calls("lock") /\ s.lock > 0
    /\ s' = [s EXCEPT !.lock = @ - 1, !.owes[s.run] = s.lock = 1]

(* OsSchedStart, with the tasks created and the clock not yet read. *)
OsSchedStart ==
    LET boot == [base |-> 0, old |-> 0, load |-> 0, upd |-> FALSE,
                 respTime |-> Max64, respId |-> OS_INVALID, run |-> Idle, ready |-> <<>>, lock |-> 0,
                 slice |-> [t \in Task |-> 0], start |-> 0,
                 wait |-> [t \in Task |-> "no"], ticks |-> [t \in Task |-> Forever],
                 owes |-> [t \in Task |-> FALSE],
                 resp |-> [t \in Task |-> Max64], link |-> <<>>,
                 late |-> [t \in Task |-> 0], tardy |-> FALSE, fault |-> FALSE]
        made == FoldLeft(OsSchedTaskEnQueue, LOS_SysCycleGet(boot), [t \in 1 .. TaskNum |-> t])
        top == OsGetTopTask(made)
        n == OsSchedTaskDeQueue([made EXCEPT !.run = top, !.start = made.old], top)
    IN  OsSchedSetNextExpireTime(n, n.run, n.start + n.slice[n.run])

Init == s = Rebase(OsSchedStart)
Next ==
    \/ OsTickHandler
    \/ LOS_Schedule
    \/ \E kind \in {"delay", "pend"}, n \in WaitTicks : Wait(kind, n)
    \/ LOS_TaskYield
    \/ \E t \in Task : OsSchedTaskWake(t)
    \/ LOS_TaskLock \/ LOS_TaskUnlock
Spec == Init /\ [][Next]_s

(* The timer signal comes again and again; as the handler can always run,  *)
(* this is weak fairness of it.                                            *)
FairSpec == Spec /\ []<><<OsTickHandler>>_s

-----------------------------------------------------------------------------
(* Every field has its type; times are counted from the base. *)
Time == Int
SchedTimeTypeOK ==
    /\ s.base = 0 /\ s.old \in Time /\ s.load \in 0 .. periodMax - 1 /\ s.upd \in BOOLEAN
    /\ s.respTime \in Time /\ s.respId \in Task \cup {OS_INVALID}
    /\ s.run \in Task /\ s.ready \in Seq(1 .. TaskNum) /\ s.lock \in 0 .. MaxLock
    /\ s.slice \in [Task -> Spent .. g_schedTimeSlice] /\ s.start \in Time
    /\ s.wait \in [Task -> {"no", "delay", "pend"}] /\ s.ticks \in [Task -> WaitTicks \cup {Forever}]
    /\ s.owes \in [Task -> BOOLEAN]
    /\ s.resp \in [Task -> Time] /\ s.link \in Seq(1 .. TaskNum)
    /\ s.late \in [Task -> Nat] /\ s.tardy \in BOOLEAN /\ s.fault \in BOOLEAN

(* The clock never goes back, whatever the order of reloads, ticks and     *)
(* reads: LOS_ASSERT(schedTime >= g_oldTickTimerBase) of LOS_SysCycleGet   *)
(* and LOS_ASSERT(currTime >= taskCB->startTime) of OsTimeSliceUpdate      *)
(* hold, and OsSchedSetNextExpireTime never programs a time that has       *)
(* passed, where its unsigned difference would wrap.                       *)
ClockForward == ~s.fault

(* OsAddNode2SortLink, with its short cuts for the first node, keeps the   *)
(* link in the order of the response times while nodes are added and       *)
(* deleted in any order, and exactly the tasks that left the processor     *)
(* with a time-out pending have a node on it.                              *)
LinkInOrder ==
    /\ \A i, j \in DOMAIN s.link : i < j => s.link[i] # s.link[j] /\ s.resp[s.link[i]] <= s.resp[s.link[j]]
    /\ \A t \in Task :
         /\ (\E i \in DOMAIN s.link : s.link[i] = t) <=> s.resp[t] # Max64
         /\ t # s.run => (s.resp[t] # Max64 <=> s.wait[t] # "no" /\ s.ticks[t] # Forever)

(* When the tick is programmed for the end of a slice, it is the slice of  *)
(* the task that runs: OsSchedTaskSwitch drops the response of the task it *)
(* leaves, though it compares the ID only after it has chosen the next.    *)
ResponseIsRunners == s.respId \in {s.run, OS_INVALID}

(* The tick that is programmed does not come later than the precision      *)
(* allows after the first node is due: adding, deleting and switching      *)
(* between them always program it again in time.                           *)
ResponseCoversLink ==
    s.link # <<>> /\ s.respTime # Max64 =>
        s.respTime - Max({s.resp[s.link[1]], s.old + g_tickResponsePrecision}) < g_tickResponsePrecision

(* A tick that was programmed for a slice passes the sort link over, even  *)
(* if a node has come due: never twice for the same node, task lock or     *)
(* not (LOS_SchedTickHandler).                                             *)
LateByOneTick == \A t \in Task : s.late[t] <= 1

(* A wait with a time-out ends, by itself if nobody wakes the task.        *)
WaitEnds == \A t \in 1 .. TaskNum : (s.resp[t] # Max64) ~> (s.resp[t] = Max64)

(* A wait of n ticks that nothing holds up takes n ticks of the clock, or  *)
(* one more, as the test cases for LOS_TickCountGet have it.               *)
WaitsOnTime == ~s.tardy
=============================================================================
