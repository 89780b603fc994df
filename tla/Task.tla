-------------------------------- MODULE Task --------------------------------
(***************************************************************************)
(* The task API of kernel/src/los_task.c over the scheduler of module      *)
(* Sched, with the tick interrupt and other interrupt handlers.            *)
(*                                                                         *)
(* One step is one outermost interrupt-locked section, under the interrupt *)
(* contract of module Sched: an inner LOS_IntRestore leaves interrupts     *)
(* locked, and OsSchedTaskSwitch runs with interrupts masked.              *)
(*                                                                         *)
(* The code of the task in k.run steps only while no switch is             *)
(* outstanding; interrupt handlers also step between the moment a switch   *)
(* was asked for and the moment OsSchedTaskSwitch makes it.  What a call   *)
(* still has to do after it gave up the processor, or after it unlocked    *)
(* interrupts, is kept in call[t], for the boot code in call[Shadow].      *)
(***************************************************************************)
EXTENDS Sched

CONSTANTS
    TaskOps,    \* the API functions tasks and the boot code call
    IsrOps,     \* the API functions interrupt handlers call
    Unguarded,  \* usage patterns allowed that the API does not check for
    Attrs,      \* the attributes tasks are created with
    MaxLock     \* bound on the nesting of LOS_TaskLock

ASSUME TaskConstants ==
    /\ MaxLock \in Nat
    /\ Attrs \subseteq SUBSET {"JOINABLE", "STACK_FREE"}

VARIABLES
    k,          \* the scheduler state, a SchedState
    call,       \* what the current API call of each context has left to do
    tick        \* the tick handler is scanning the sort link

taskVars == <<k, call, tick>>

None       == <<"none", 0>>
Context    == Task \cup {Shadow}
CallStates == {None, <<"recycle", 0>>, <<"pop", 0>>}
    \cup {<<op, t>> : op \in {"init", "enqueue", "join"}, t \in Task}
    \cup {<<"ipc", o>> : o \in IpcList}

----------------------------------------------------------------------------
(* Task control blocks *)

(* memset_s wipes every link of the TCB, so none may be in use. *)
OsInsertTCBToFreeList(s, t) ==
    ListAdd([s EXCEPT !.status[t] = {"UNUSED"}, !.priority[t] = 0,
                      !.slice[t] = FALSE,
                      !.fault = @ \/ t \in s.sortLink \/ s.list[JoinList(t)] # <<>>],
            FreeTask, t)

OsRecycleTaskResources(s, t) ==
    LET a == ClrStatus(s, t, {"STACK_FREE"})
    IN  IF Has(s, t, {"JOINABLE"}) THEN a ELSE OsInsertTCBToFreeList(a, t)

(* One round of the loop of OsRecycleFinishedTask. *)
RecycleFirst(s) ==
    LET t == Head(s.list[RecycleList])
    IN  OsRecycleTaskResources(ListDelete(s, t), t)

OsNewTaskInit(s, t, p, attr) ==
    [s EXCEPT !.status[t] = {"SUSPEND"} \cup attr, !.priority[t] = p,
              !.slice[t] = FALSE]

(* The TCB the running task leaves behind: runTask moves to the shadow. *)
OsRunningTaskDelete(s, t) ==
    [ListTailInsert(s, RecycleList, t)
     EXCEPT !.run = Shadow, !.status[Shadow] = s.status[t] \cup {"RUNNING"}]

(* A defect: the exit of a task does not wake its joiner. *)
JoinPostNobody(s, t) == s

OsTaskJoinPostUnsafe(s, t) ==
    IF Has(s, t, {"JOINABLE"}) /\ s.list[JoinList(t)] # <<>>
    THEN OsSchedTaskWake(s, Head(s.list[JoinList(t)])) ELSE s

----------------------------------------------------------------------------
(* The API functions as operators on the scheduler state, with the         *)
(* conditions under which they do not return an error at once.             *)

ResumeOK(s, t) == ~Has(s, t, {"UNUSED"}) /\ Has(s, t, {"SUSPEND"})
LOS_TaskResume(s, t) ==
    LET a == OsSchedResume(s, t)
    IN  IF ResumeMakesReady(s, t) THEN LOS_Schedule(a) ELSE a

SuspendOK(s, t) == /\ t # Idle
                   /\ ~Has(s, t, {"UNUSED", "SUSPEND"})
                   /\ ~(Has(s, t, {"RUNNING"}) /\ s.taskLock # 0)
(* A defect: a task that suspends itself goes on. *)
SuspendNoSchedule(s, t) == OsSchedSuspend(s, t)

LOS_TaskSuspend(s, t) ==
    LET a == OsSchedSuspend(s, t)
    IN  IF t = s.run THEN LOS_Schedule(a) ELSE a

PriSetOK(s, t) == t # Idle /\ ~Has(s, t, {"UNUSED"})
(* A defect: no reschedule after a change of priority. *)
PriSetNoSchedule(s, t, p) == OsSchedModifyTaskSchedParam(s, t, p)

LOS_TaskPriSet(s, t, p) ==
    LET a == OsSchedModifyTaskSchedParam(s, t, p)
    IN  IF ModifyNeedsSched(s, t) THEN LOS_Schedule(a) ELSE a

DeleteOK(s, t) == t # Idle /\ ~Has(s, t, {"UNUSED", "EXIT"})
LOS_TaskDelete(s, t) ==
    LET a == IF Has(s, t, {"RUNNING"}) THEN [s EXCEPT !.taskLock = 0] ELSE s
        b == OsSchedTaskExit(OsTaskJoinPostUnsafe(a, t), t)
        c == IF Has(b, t, {"JOINABLE"}) THEN b
             ELSE OsRunningTaskDelete(SetStatus(b, t, {"UNUSED"}), t)
    IN  IF Has(b, t, {"RUNNING"}) THEN LOS_Schedule(c)
        ELSE OsRecycleTaskResources(b, t)

LOS_TaskYield(s) == LOS_Schedule(OsSchedYield(s))
LOS_TaskDelay(s) == LOS_Schedule(OsSchedDelay(s))
LOS_TaskLock(s)  == [s EXCEPT !.taskLock = @ + 1]
LOS_TaskUnlock(s) ==
    IF s.taskLock = 1 THEN LOS_Schedule([s EXCEPT !.taskLock = 0])
    ELSE [s EXCEPT !.taskLock = @ - 1]

(* LOS_TaskJoin up to LOS_Schedule: an exited task is not waited for. *)
JoinOK(s, t) ==
    /\ t \notin {Idle, s.run} /\ s.taskLock = 0 /\ ~Has(s, t, {"UNUSED"})
    /\ \/ Has(s, t, {"EXIT"})
       \/ Has(s, t, {"JOINABLE"}) /\ s.list[JoinList(t)] = <<>>

JoinPend(s, t) ==
    LOS_Schedule(IF Has(s, t, {"EXIT"}) THEN s
                 ELSE OsSchedTaskWait(s, JoinList(t), TRUE))

(* LOS_TaskJoin after LOS_Schedule. *)
JoinReclaim(s, t) == OsRecycleTaskResources(ClrStatus(s, t, {"JOINABLE"}), t)

DetachOK(s, t) == /\ t # Idle /\ ~Has(s, t, {"UNUSED", "EXIT"})
                  /\ Has(s, t, {"JOINABLE"}) /\ s.list[JoinList(t)] = <<>>
OsTaskSetDetachUnsafe(s, t) == ClrStatus(s, t, {"JOINABLE"})

----------------------------------------------------------------------------
(* The contexts that step *)

(* The code of the running task, or of main before LOS_Start, is at a      *)
(* point where it can go on; idle calls nothing but LOS_TaskResRecycle.    *)
Executing == ~tick /\ ~k.switch /\ k.run # Idle /\ (k.sched => k.run # Shadow)
InTask(op) == Executing /\ call[k.run] = None /\ op \in TaskOps
InIsr(op)  == ~tick /\ k.sched /\ op \in IsrOps
Caller(op) == InTask(op) \/ InIsr(op)

Returns(c)     == call' = [call EXCEPT ![c] = None]
GoesOn(c, pc)  == call' = [call EXCEPT ![c] = pc]
NoCallChange   == UNCHANGED call

(* Usage patterns.  BeingMade: the ID has not been returned yet.  A        *)
(* handler can tell the task it interrupted by LOS_CurTaskIDGet.           *)
BeingMade(t) == \E c \in Context : call[c] = <<"enqueue", t>>
BeingJoined(t) == \E c \in Context : call[c] = <<"join", t>>
Creating(c) == call[c][1] \in {"recycle", "pop", "init", "enqueue"}

MayUse(t)    == BeingMade(t) => "early_id" \in Unguarded
MayResume(t) == /\ MayUse(t)
                /\ t = k.run => "isr_resumes_running" \in Unguarded
                /\ Has(k, t, {"EXIT"}) => "resume_exited" \in Unguarded
MayDelete(t) == MayUse(t) /\ (Creating(t) => "delete_creating" \in Unguarded)
MayJoin(t)   == MayUse(t) /\ (BeingJoined(t) => "join_twice" \in Unguarded)

----------------------------------------------------------------------------
(* Actions *)

Resume(t) ==
    /\ Caller("resume") /\ MayResume(t) /\ ResumeOK(k, t)
    /\ k' = LOS_TaskResume(k, t)
    /\ NoCallChange /\ UNCHANGED tick

Suspend(t) ==
    /\ Caller("suspend") /\ MayUse(t) /\ SuspendOK(k, t)
    /\ k' = LOS_TaskSuspend(k, t)
    /\ NoCallChange /\ UNCHANGED tick

PriSet(t, p) ==
    /\ Caller("priset") /\ MayUse(t) /\ PriSetOK(k, t)
    /\ k' = LOS_TaskPriSet(k, t, p)
    /\ NoCallChange /\ UNCHANGED tick

(* A deleted task never goes on with its call.  A task that returns from   *)
(* its entry function is deleted by its own thread the same way.           *)
Delete(t) ==
    /\ Caller("delete") /\ MayDelete(t) /\ DeleteOK(k, t)
    /\ k' = LOS_TaskDelete(k, t)
    /\ Returns(t) /\ UNCHANGED tick

Yield ==
    /\ InTask("yield") /\ k.sched
    /\ k' = LOS_TaskYield(k)
    /\ NoCallChange /\ UNCHANGED tick

Delay ==
    /\ InTask("delay") /\ k.sched /\ k.taskLock = 0
    /\ k' = LOS_TaskDelay(k)
    /\ NoCallChange /\ UNCHANGED tick

Lock ==
    /\ InTask("lock") /\ k.taskLock < MaxLock
    /\ k' = LOS_TaskLock(k)
    /\ NoCallChange /\ UNCHANGED tick

(* A defect: LOS_TaskUnlock does not check that the lock is held. *)
UnlockUnchecked ==
    /\ InTask("lock")
    /\ k' = LOS_TaskUnlock(k)
    /\ NoCallChange /\ UNCHANGED tick

Unlock ==
    /\ InTask("lock") /\ k.taskLock > 0
    /\ k' = LOS_TaskUnlock(k)
    /\ NoCallChange /\ UNCHANGED tick

(* OsRecycleFinishedTask at the head of LOS_TaskCreateOnly. *)
CreateRecycle ==
    /\ \/ InTask("create")
       \/ Executing /\ call[k.run] = <<"recycle", 0>>
    /\ IF k.list[RecycleList] # <<>>
       THEN k' = RecycleFirst(k) /\ GoesOn(k.run, <<"recycle", 0>>)
       ELSE k' = k /\ GoesOn(k.run, <<"pop", 0>>)
    /\ UNCHANGED tick

CreatePop ==
    /\ Executing /\ call[k.run] = <<"pop", 0>>
    /\ IF k.list[FreeTask] = <<>>
       THEN k' = k /\ Returns(k.run)
       ELSE LET t == Head(k.list[FreeTask])
            IN  k' = ListDelete(k, t) /\ GoesOn(k.run, <<"init", t>>)
    /\ UNCHANGED tick

(* The stack allocation may fail, and LOS_TaskCreateOnly ends here. *)
CreateInit(t, p, attr) ==
    /\ Executing /\ call[k.run] = <<"init", t>>
    /\ \/ k' = OsInsertTCBToFreeList(k, t) /\ Returns(k.run)
       \/ /\ k' = OsNewTaskInit(k, t, p, attr)
          /\ Returns(k.run) \/ GoesOn(k.run, <<"enqueue", t>>)
    /\ UNCHANGED tick

CreateEnQueue(t) ==
    /\ Executing /\ call[k.run] = <<"enqueue", t>>
    /\ k' = LOS_Schedule(OsSchedTaskEnQueue(k, t))
    /\ Returns(k.run) /\ UNCHANGED tick

Join(t) ==
    /\ InTask("join") /\ k.sched /\ MayJoin(t) /\ JoinOK(k, t)
    /\ k' = JoinPend(k, t)
    /\ GoesOn(k.run, <<"join", t>>) /\ UNCHANGED tick

JoinFinish(t) ==
    /\ Executing /\ call[k.run] = <<"join", t>>
    /\ k' = JoinReclaim(k, t)
    /\ Returns(k.run) /\ UNCHANGED tick

Detach(t) ==
    /\ InTask("detach") /\ MayJoin(t) /\ DetachOK(k, t)
    /\ k' = OsTaskSetDetachUnsafe(k, t)
    /\ NoCallChange /\ UNCHANGED tick

(* LOS_TaskDetach of an exited task goes on as LOS_TaskJoin. *)
DetachExited(t) ==
    /\ InTask("detach") /\ k.sched /\ MayJoin(t) /\ JoinOK(k, t) /\ Has(k, t, {"EXIT"})
    /\ k' = JoinPend(k, t)
    /\ GoesOn(k.run, <<"join", t>>) /\ UNCHANGED tick

(* The idle task's OsRecycleFinishedTask. *)
IdleRecycle ==
    /\ ~tick /\ ~k.switch /\ k.run = Idle /\ k.list[RecycleList] # <<>>
    /\ k' = RecycleFirst(k)
    /\ NoCallChange /\ UNCHANGED tick

(* LOS_Start: OsSchedStart, then HalStartToRun overwrites the status. *)
LOS_Start ==
    /\ Executing /\ ~k.sched /\ call[Shadow] = None
    /\ LET s == OsSchedStart(k) IN k' = [s EXCEPT !.status[s.run] = {"RUNNING"}]
    /\ NoCallChange /\ UNCHANGED tick

(* HalPendSV, with interrupts masked. *)
Switch ==
    /\ ~tick /\ k.switch
    /\ \E spent \in BOOLEAN : k' = OsSchedTaskSwitch(k, spent)
    /\ NoCallChange /\ UNCHANGED tick

(* LOS_SchedTickHandler, interrupts locked from TickBegin to TickEnd. *)
TickBegin ==
    /\ ~tick /\ k.sched
    /\ tick' = TRUE /\ NoCallChange /\ UNCHANGED k

TickExpire(t) ==
    /\ tick /\ t \in k.sortLink
    /\ k' = OsSchedWakePendTimeTask(k, t)
    /\ NoCallChange /\ UNCHANGED tick

TickEnd ==
    /\ tick /\ tick' = FALSE
    /\ \E spent \in BOOLEAN : k' = LOS_Schedule(OsTimeSliceUpdate(k, spent))
    /\ NoCallChange

----------------------------------------------------------------------------
TaskInit ==
    /\ k = [status   |-> [t \in Context |->
                            CASE t = Idle   -> {"READY", "STACK_FREE"}
                              [] t = Shadow -> {"UNUSED", "RUNNING"}
                              [] OTHER      -> {"UNUSED"}],
            priority |-> [t \in Task |-> IF t = Idle THEN PriNum - 1 ELSE 0],
            slice    |-> [t \in Task |-> FALSE],
            list     |-> [h \in Head_ |->
                            IF h = FreeTask THEN [i \in 1 .. TskLimit |-> i] ELSE <<>>],
            bitmap   |-> {}, sortLink |-> {}, run |-> Shadow, taskLock |-> 0,
            sched    |-> FALSE, switch |-> FALSE, fault |-> FALSE]
    /\ call = [c \in Context |-> None]
    /\ tick = FALSE

TaskNext ==
    \/ \E t \in Task :
          \/ Resume(t) \/ Suspend(t) \/ Delete(t)
          \/ Join(t) \/ JoinFinish(t) \/ Detach(t) \/ DetachExited(t)
          \/ CreateEnQueue(t) \/ TickExpire(t)
          \/ \E p \in Prio : PriSet(t, p)
          \/ \E p \in 0 .. (PriNum - 2), attr \in Attrs : CreateInit(t, p, attr)
    \/ Yield \/ Delay \/ Lock \/ Unlock
    \/ CreateRecycle \/ CreatePop \/ IdleRecycle
    \/ LOS_Start \/ Switch \/ TickBegin \/ TickEnd

TaskSpec == TaskInit /\ [][TaskNext]_taskVars

----------------------------------------------------------------------------
TaskTypeOK ==
    /\ k \in SchedState
    /\ call \in [Context -> CallStates]
    /\ tick \in BOOLEAN

(* No LOS_ASSERT of the scheduler fails and no doubly linked list is torn: *)
(* OsSchedTaskEnQueue never meets a READY task, no TCB is unlinked twice   *)
(* or linked while linked, none is wiped while a list goes through it,     *)
(* where interrupts come only between outermost locked sections and no     *)
(* handler resumes the task it interrupted.                                *)
NoFault == ~k.fault

(* taskStatus, the lists, the bitmap and the sort link tell the same story *)
(* about every task at the end of every outermost interrupt-locked         *)
(* section, whatever calls and handlers came in whatever order.            *)
SchedConsistent ==
    ListsDisjoint(k) /\ StatusMatchesLists(k) /\ StatusExclusive(k)

(* No task is lost: one that lives runs, is ready, or waits for something  *)
(* that can wake it.                                                       *)
NoTaskLost ==
    \A t \in Task : \/ Has(k, t, {"UNUSED", "EXIT", "READY"} \cup Blocked)
                    \/ k.run = t

(* A task that blocked, suspended or deleted itself, or was suspended or   *)
(* deleted from an interrupt, does not go on: a switch is outstanding.     *)
(* Before LOS_Start there is no switch, no tick and no running task.       *)
BlockedLeaves ==
    /\ k.sched /\ (k.run = Shadow \/ Has(k, k.run, Blocked \cup {"EXIT"})) => k.switch
    /\ k.switch => k.sched /\ k.taskLock = 0
    /\ ~k.sched => k.run = Shadow /\ ~tick

Owned(s, C) ==
    /\ \A t \in Task :
          /\ Has(s, t, {"UNUSED"}) =>
                \/ t \in OnList(s, FreeTask) \cup OnList(s, RecycleList)
                \/ \E c \in Context : C[c] = <<"init", t>>
          /\ OnList(s, JoinList(t)) # {} =>
                Has(s, t, {"JOINABLE"}) /\ ~Has(s, t, {"EXIT", "UNUSED"})
          /\ Has(s, t, {"EXIT"}) => Has(s, t, {"JOINABLE", "UNUSED"})
    /\ \A c \in Context, t \in Task :
          /\ C[c] = <<"init", t>> => s.status[t] = {"UNUSED"} /\ ~Linked(s, t)
          /\ C[c] = <<"enqueue", t>> =>
                Has(s, t, {"SUSPEND"})
                /\ ~Has(s, t, {"RUNNING", "READY", "PEND", "DELAY", "EXIT", "UNUSED"})
          /\ C[c] = <<"join", t>> =>
                /\ Has(s, t, {"JOINABLE"}) /\ ~Has(s, t, {"UNUSED"})
                /\ c \in OnList(s, JoinList(t)) \/ Has(s, t, {"EXIT"})
          /\ c \in OnList(s, JoinList(t)) =>
                C[c] = <<"join", t>> /\ ~Has(s, c, {"PEND_TIME"})
    /\ \A c, d \in Context : c # d /\ C[c] = C[d] =>
          C[c][1] \in {"none", "recycle", "pop", "ipc"}
    /\ \A c, d \in Context, t \in Task :
          C[c] = <<"join", t>> => c # t /\ C[d] # <<"enqueue", t>>
    /\ \A c \in Task : C[c] # None => c # Idle /\ ~Has(s, c, {"UNUSED", "EXIT"})
    /\ C[Shadow][1] # "join" /\ (s.sched => C[Shadow] = None)
    /\ ~s.sched => \A c \in Task : C[c] = None

(* Every TCB has one owner between outermost locked sections: the free     *)
(* list, the recycle list, the call that creates the task, or the task     *)
(* itself until it is joined.                                              *)
TcbOwned == Owned(k, call)

(* The processor goes to the best ready task: once no switch is            *)
(* outstanding and the scheduler is not locked, no ready task has a        *)
(* smaller priority number than the running one.                           *)
TopPriorityRuns ==
    k.sched /\ ~tick /\ ~k.switch /\ k.taskLock = 0 =>
        \A t \in Task \ {Idle} : Has(k, t, {"READY"}) =>
            k.run # Idle /\ k.priority[k.run] <= k.priority[t]

(* LOS_TaskYield, and a used up slice, give way: when a ready task of the  *)
(* same priority waits, the switch that follows does not go back to the    *)
(* task whose slice is gone.                                               *)
YieldGivesWay ==
    [][\A t \in Task \ {Idle} :
          /\ Switch /\ k.run = t /\ ~k.slice[t]
          /\ \E u \in Task \ {Idle} : Has(k, u, {"READY"}) /\ k.priority[u] <= k.priority[t]
          => k'.run # t]_taskVars

(* LOS_TaskJoin takes back the TCB of a task that has finished, and never  *)
(* that of a task that was created on the same TCB since.                  *)
JoinReclaimsExited ==
    [][\A t \in Task : JoinFinish(t) => Has(k, t, {"EXIT"})]_taskVars

(* A task keeps the mark that its stack came from the system until the     *)
(* stack is given back with the TCB.                                       *)
StackMarkKept ==
    [][\A t \in Task : Has(k, t, {"STACK_FREE"}) /\ ~Has(k', t, {"STACK_FREE"}) =>
          Has(k', t, {"UNUSED", "EXIT"})]_taskVars

----------------------------------------------------------------------------
(* Progress.  Interrupts and the switch they ask for are not withheld, a   *)
(* started tick handler ends, a time-out that stays on the sort link runs  *)
(* out at some tick, and processor time is charged: a task that is in      *)
(* execution at infinitely many ticks uses its slice up at some of them.   *)
TickCharges(t) ==
    /\ tick /\ k.run = t /\ tick' = FALSE
    /\ k' = LOS_Schedule(OsTimeSliceUpdate(k, TRUE)) /\ NoCallChange

TaskFairness ==
    /\ SF_taskVars(Switch) /\ WF_taskVars(TickBegin) /\ WF_taskVars(TickEnd)
    /\ WF_taskVars(LOS_Start)
    /\ \A t \in Task : SF_taskVars(TickExpire(t)) /\ SF_taskVars(TickCharges(t))

TaskFairSpec == TaskSpec /\ TaskFairness

(* Round robin: a ready task does not wait forever behind the tasks of its *)
(* own priority.  It runs, or stops being ready, or is outranked.          *)
Outranked(t) == \E u \in Task : /\ Has(k, u, {"READY", "RUNNING"})
                                /\ k.priority[u] < k.priority[t]
RoundRobin ==
    \A t \in Task \ {Idle} :
        k.sched /\ Has(k, t, {"READY"}) ~> k.run = t \/ ~Has(k, t, {"READY"}) \/ Outranked(t)
============================================================================
