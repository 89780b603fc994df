------------------------------- MODULE Sched -------------------------------
(***************************************************************************)
(* The scheduler core of kernel/src/los_sched.c: task status bits, the     *)
(* priority ready queues with their bitmap, the wait lists a task control  *)
(* block (TCB) can be linked on, the timeout sort link and the choice of   *)
(* the next task.                                                          *)
(*                                                                         *)
(* Every function of los_sched.c is an operator from the scheduler state   *)
(* to the scheduler state, so that an API function that calls several of   *)
(* them inside one LOS_IntLock section is their composition.  The state is *)
(* the record s of type SchedState.                                        *)
(*                                                                         *)
(* The operators are whole because of the interrupt contract the kernel is *)
(* written to: LOS_IntRestore puts back what its LOS_IntLock found, so     *)
(* that a locked section inside another ends nothing, and                  *)
(* OsSchedTaskSwitch runs with interrupts masked.  The Cortex-M4 layer     *)
(* keeps it (los_dispatch.S: ArchIntRestore, HalPendSV).  The rehosting    *)
(* layer sub/LiteOS_RTOS_FE.c does not:                                    *)
(* its ArchIntRestore always unlocks, its ArchTaskSchedule runs the switch *)
(* unlocked.  What that port does is in modules EventPort and Rehost.      *)
(*                                                                         *)
(* Abstractions: times are left out.  A timed wait in s.sortLink may       *)
(* expire at any tick, and the elapsed time a slice is charged with is an  *)
(* arbitrary choice that either uses the slice up or does not.             *)
(***************************************************************************)
EXTENDS Naturals, Sequences, Functions

CONSTANTS
    TskLimit,   \* LOSCFG_BASE_CORE_TSK_LIMIT, the number of TCBs beside idle's
    PriNum,     \* OS_PRIORITY_QUEUE_NUM; the last one is idle's priority
    IpcList     \* heads of the wait lists of the IPC objects

ASSUME SchedConstants == TskLimit \in Nat \ {0} /\ PriNum \in Nat \ {0}

Idle   == 0                         \* g_idleTaskID: the first TCB handed out
Task   == 0 .. TskLimit             \* indices of g_taskCBArray
Shadow == TskLimit + 1              \* g_taskCBArray[g_taskMaxNum]
Prio   == 0 .. (PriNum - 1)

Status == {"UNUSED", "SUSPEND", "READY", "PEND", "RUNNING", "DELAY",
           "TIMEOUT", "PEND_TIME", "EXIT", "STACK_FREE", "JOINABLE"}

(* The list heads a pendList node can hang on. *)
PriQueue(p) == <<"pri", p>>         \* g_priQueueList[p]
JoinList(t) == <<"join", t>>        \* taskCB->joinList
Ipc(o)      == <<"ipc", o>>         \* semList, muxList, stEventList, ...
FreeTask    == <<"free", 0>>        \* g_losFreeTask
RecycleList == <<"recycle", 0>>     \* g_taskRecycleList

PriQueues == {PriQueue(p) : p \in Prio}
WaitLists == {JoinList(t) : t \in Task} \cup {Ipc(o) : o \in IpcList}
Head_     == PriQueues \cup WaitLists \cup {FreeTask, RecycleList}

SchedState ==
    [status   : [Task \cup {Shadow} -> SUBSET Status],  \* taskStatus
     priority : [Task -> Prio],
     slice    : [Task -> BOOLEAN],   \* timeSlice > g_schedTimeSliceMin
     list     : [Head_ -> Seq(Task)],
     bitmap   : SUBSET Prio,         \* g_queueBitmap
     sortLink : SUBSET Task,         \* nodes linked on g_taskSortLink
     run      : Task \cup {Shadow},  \* g_losTask.runTask
     taskLock : Nat,                 \* g_losTaskLock
     sched    : BOOLEAN,             \* g_taskScheduled
     switch   : BOOLEAN,             \* a switch is asked for, not yet made
     fault    : BOOLEAN]             \* LOS_ASSERT failed or a list is broken

Has(s, t, bits) == \E b \in bits : b \in s.status[t]
SetStatus(s, t, bits) == [s EXCEPT !.status[t] = @ \cup bits]
ClrStatus(s, t, bits) == [s EXCEPT !.status[t] = @ \ bits]

----------------------------------------------------------------------------
(* LOS_DL_LIST.  A node is deleted from whatever list it hangs on, without *)
(* the caller naming the list.  Deleting a node that hangs on none follows *)
(* the NULL links a previous deletion left, and inserting a node that      *)
(* still hangs on a list tears that list apart: both are faults.           *)

Unlink(q, t) ==
    IF \E i \in 1 .. Len(q) : q[i] = t
    THEN LET at == CHOOSE i \in 1 .. Len(q) : q[i] = t
         IN  SubSeq(q, 1, at - 1) \o SubSeq(q, at + 1, Len(q))
    ELSE q

OnList(s, h) == Range(s.list[h])
Linked(s, t) == \E h \in Head_ : t \in OnList(s, h)

ListDelete(s, t) ==
    IF Linked(s, t)
    THEN [s EXCEPT !.list = [h \in Head_ |-> Unlink(s.list[h], t)]]
    ELSE [s EXCEPT !.fault = TRUE]

ListAdd(s, h, t) ==
    [s EXCEPT !.list[h] = <<t>> \o @, !.fault = @ \/ Linked(s, t)]

ListTailInsert(s, h, t) ==
    [s EXCEPT !.list[h] = Append(@, t), !.fault = @ \/ Linked(s, t)]

(* The sort link: a node is inserted once and deleted only while linked. *)

(* A defect: the node is not inserted. *)
AddNoNode(s, t) == s

OsAdd2SortLink(s, t) ==
    IF t \in s.sortLink THEN [s EXCEPT !.fault = TRUE]
    ELSE [s EXCEPT !.sortLink = @ \cup {t}]

OsDeleteSortLink(s, t) == [s EXCEPT !.sortLink = @ \ {t}]

----------------------------------------------------------------------------
(* Ready queues *)

MarkQueue(s, p) ==
    IF s.list[PriQueue(p)] = <<>> THEN [s EXCEPT !.bitmap = @ \cup {p}] ELSE s

OsSchedPriQueueEnHead(s, t, p) == ListAdd(MarkQueue(s, p), PriQueue(p), t)
OsSchedPriQueueEnTail(s, t, p) == ListTailInsert(MarkQueue(s, p), PriQueue(p), t)

(* A defect: the bitmap bit of an emptied queue is left set. *)
BitmapKept(s, t, p) == ListDelete(s, t)

OsSchedPriQueueDelete(s, t, p) ==
    LET r == ListDelete(s, t)
    IN  [r EXCEPT !.bitmap = IF r.list[PriQueue(p)] = <<>> THEN @ \ {p} ELSE @]

(* A defect: a task whose slice is used up goes to the head as well. *)
EnQueueAtHead(s, t) ==
    LET p == s.priority[t]
    IN  IF Has(s, t, {"READY"}) THEN [s EXCEPT !.fault = TRUE]
        ELSE [(IF t = Idle THEN s
               ELSE [OsSchedPriQueueEnHead(s, t, p) EXCEPT !.slice[t] = TRUE])
              EXCEPT !.status[t] =
                  (@ \ {"PEND", "SUSPEND", "DELAY", "PEND_TIME"}) \cup {"READY"}]

OsSchedTaskEnQueue(s, t) ==
    LET p == s.priority[t]
        q == IF t = Idle THEN s
             ELSE IF s.slice[t] THEN OsSchedPriQueueEnHead(s, t, p)
             ELSE [OsSchedPriQueueEnTail(s, t, p) EXCEPT !.slice[t] = TRUE]
    IN  IF Has(s, t, {"READY"}) THEN [s EXCEPT !.fault = TRUE]
        ELSE [q EXCEPT !.status[t] =
                 (@ \ {"PEND", "SUSPEND", "DELAY", "PEND_TIME"}) \cup {"READY"}]

OsSchedTaskDeQueue(s, t) ==
    IF ~Has(s, t, {"READY"}) THEN s
    ELSE ClrStatus(IF t = Idle THEN s
                   ELSE OsSchedPriQueueDelete(s, t, s.priority[t]),
                   t, {"READY"})

(* CLZ of the bitmap picks the smallest priority number in it. *)
OsGetTopTask(s) ==
    IF s.bitmap = {} THEN Idle
    ELSE Head(s.list[PriQueue(CHOOSE p \in s.bitmap : \A r \in s.bitmap : p <= r)])

----------------------------------------------------------------------------
(* Blocking, waking, suspending *)

OsSchedTaskExit(s, t) ==
    LET a == IF Has(s, t, {"READY"}) THEN OsSchedTaskDeQueue(s, t)
             ELSE IF Has(s, t, {"PEND"})
                  THEN ClrStatus(ListDelete(s, t), t, {"PEND"})
                  ELSE s
        b == IF Has(a, t, {"DELAY", "PEND_TIME"})
             THEN ClrStatus(OsDeleteSortLink(a, t), t, {"DELAY", "PEND_TIME"})
             ELSE a
    IN  SetStatus(b, t, {"EXIT"})

OsSchedYield(s) == [s EXCEPT !.slice[s.run] = FALSE]

OsSchedDelay(s) == SetStatus(s, s.run, {"DELAY"})

OsSchedTaskWait(s, h, forever) ==
    SetStatus(ListTailInsert(s, h, s.run), s.run,
              IF forever THEN {"PEND"} ELSE {"PEND", "PEND_TIME"})

OsSchedTaskWake(s, t) ==
    LET a == ClrStatus(ListDelete(s, t), t, {"PEND"})
        b == IF Has(a, t, {"PEND_TIME"})
             THEN ClrStatus(OsDeleteSortLink(a, t), t, {"PEND_TIME"})
             ELSE a
    IN  IF Has(b, t, {"SUSPEND", "RUNNING"}) THEN b ELSE OsSchedTaskEnQueue(b, t)

(* One iteration of OsSchedScanTimerList: the node of t has expired. *)
OsSchedWakePendTimeTask(s, t) ==
    LET a == OsDeleteSortLink(s, t)
        b == ClrStatus(a, t, {"PEND", "PEND_TIME", "DELAY"})
        c == IF Has(s, t, {"PEND"})
             THEN SetStatus(ListDelete(b, t), t, {"TIMEOUT"}) ELSE b
    IN  IF ~Has(s, t, {"PEND", "DELAY"}) THEN a
        ELSE IF Has(s, t, {"SUSPEND"}) THEN c ELSE OsSchedTaskEnQueue(c, t)

OsSchedSuspend(s, t) ==
    SetStatus(OsSchedTaskDeQueue(s, t), t, {"SUSPEND"})

(* OsSchedResume also reports whether it made t ready. *)
ResumeMakesReady(s, t) == ~Has(s, t, {"DELAY", "PEND"})

(* A defect: the resumed task is not put on a ready queue. *)
ResumeNoQueue(s, t) == ClrStatus(s, t, {"SUSPEND"})

OsSchedResume(s, t) ==
    LET a == ClrStatus(s, t, {"SUSPEND"})
    IN  IF ResumeMakesReady(s, t) THEN OsSchedTaskEnQueue(a, t) ELSE a

(* OsSchedModifyTaskSchedParam reports whether a reschedule is needed. *)
ModifyNeedsSched(s, t) == Has(s, t, {"READY", "RUNNING"})

(* A defect: a ready task is queued anew without leaving its old queue. *)
ModifyInPlace(s, t, p) ==
    IF Has(s, t, {"READY"})
    THEN OsSchedTaskEnQueue([s EXCEPT !.priority[t] = p], t)
    ELSE [s EXCEPT !.priority[t] = p]

OsSchedModifyTaskSchedParam(s, t, p) ==
    IF Has(s, t, {"READY"})
    THEN OsSchedTaskEnQueue([OsSchedTaskDeQueue(s, t) EXCEPT !.priority[t] = p], t)
    ELSE [s EXCEPT !.priority[t] = p]

----------------------------------------------------------------------------
(* Switching *)

(* A defect: no processor time is charged. *)
NoCharge(s, spent) == s

(* The charge on the running task's slice; idle is not charged. *)
OsTimeSliceUpdate(s, spent) ==
    IF spent /\ s.run \in Task \ {Idle} THEN [s EXCEPT !.slice[s.run] = FALSE]
    ELSE s

OsSchedStart(s) ==
    LET new == OsGetTopTask(s)
    IN  [OsSchedTaskDeQueue(SetStatus(s, new, {"RUNNING"}), new)
         EXCEPT !.run = new, !.sched = TRUE]

OsSchedTaskSwitch(s, spent) ==
    LET run == s.run
        a   == OsTimeSliceUpdate(s, spent)
        b   == IF Has(a, run, {"PEND_TIME", "DELAY"}) THEN OsAdd2SortLink(a, run)
               ELSE IF ~Has(a, run, {"PEND", "SUSPEND", "EXIT", "UNUSED"})
                    THEN OsSchedTaskEnQueue(a, run) ELSE a
        new == OsGetTopTask(b)
        c   == IF run = new THEN b
               ELSE SetStatus(ClrStatus(b, run, {"RUNNING"}), new, {"RUNNING"})
    IN  [OsSchedTaskDeQueue(c, new) EXCEPT !.run = new, !.switch = FALSE]

(* ArchTaskSchedule asks for the switch; OsCheckKernelRunning guards it. *)
LOS_Schedule(s) ==
    IF s.sched /\ s.taskLock = 0 THEN [s EXCEPT !.switch = TRUE] ELSE s

----------------------------------------------------------------------------
(* What the scheduler keeps true of its state whenever interrupts are      *)
(* unlocked.                                                               *)

Blocked == {"PEND", "SUSPEND", "DELAY", "PEND_TIME"}
Waiting(s, t) == \E h \in WaitLists : t \in OnList(s, h)

(* A TCB hangs on at most one list, once; idle's hangs on none. *)
ListsDisjoint(s) ==
    /\ \A h \in Head_ : IsInjective(s.list[h]) /\ Idle \notin OnList(s, h)
    /\ \A h, g \in Head_ : h # g => OnList(s, h) \cap OnList(s, g) = {}

(* What is READY is on the queue of its priority, what is PEND on a wait   *)
(* list, what has a time-out running on the sort link; and the bitmap      *)
(* marks the queues that are not empty.                                    *)
StatusMatchesLists(s) ==
    /\ \A t \in Task \ {Idle}, p \in Prio :
          t \in OnList(s, PriQueue(p)) <=> Has(s, t, {"READY"}) /\ s.priority[t] = p
    /\ \A t \in Task \ {Idle} : Waiting(s, t) <=> Has(s, t, {"PEND"})
    /\ \A p \in Prio : p \in s.bitmap <=> s.list[PriQueue(p)] # <<>>
    /\ \A t \in Task : t \in s.sortLink <=>
          Has(s, t, {"DELAY", "PEND_TIME"}) /\ s.run # t
    /\ \A t \in OnList(s, FreeTask) : s.status[t] = {"UNUSED"}
    /\ \A t \in OnList(s, RecycleList) :
          Has(s, t, {"UNUSED"}) /\ ~Has(s, t, {"JOINABLE"})

(* The status bits are combined as the scheduler means them to be. *)
StatusExclusive(s) ==
    /\ \A t \in Task :
          /\ Has(s, t, {"READY"}) => ~Has(s, t, Blocked \cup {"RUNNING", "EXIT", "UNUSED"})
          /\ Has(s, t, {"PEND_TIME"}) => Has(s, t, {"PEND"})
          /\ Has(s, t, {"PEND"}) => ~Has(s, t, {"DELAY"})
          /\ Has(s, t, {"EXIT", "UNUSED"}) => ~Has(s, t, {"PEND", "DELAY"})
          /\ Has(s, t, {"RUNNING"}) => s.run = t \/ t \in OnList(s, RecycleList)
          /\ s.run = t => Has(s, t, {"RUNNING"}) /\ ~Has(s, t, {"UNUSED"})
    /\ Has(s, Idle, {"READY", "RUNNING"})
    /\ ~Has(s, Idle, Blocked \cup {"EXIT", "UNUSED"})
    /\ Has(s, Shadow, {"UNUSED"}) /\ ~Has(s, Shadow, {"READY", "DELAY", "PEND_TIME"})
============================================================================
