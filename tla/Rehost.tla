------------------------------- MODULE Rehost -------------------------------
(***************************************************************************)
(* The rehosting layer, sub/RTOS_BE.c and sub/LiteOS_RTOS_FE.c: a POSIX    *)
(* thread per task, single_core_mutex for the one core, SIG_RESUME to hand *)
(* the core over and SIG_TICK for the tick interrupt.  The kernel above is *)
(* reduced to the tasks that exist and to the choice OsSchedTaskSwitch     *)
(* makes among them.                                                       *)
(*                                                                         *)
(* The layer has two windows.  From LOS_Schedule to the end of             *)
(* Pthread_Schedule a task runs with interrupts enabled, and a thread that *)
(* has released single_core_mutex is not yet in sigwait.  Both are open    *)
(* here.  The history variable hurt remembers that a signal came in one;   *)
(* most properties are about behaviours in which none has yet.             *)
(*                                                                         *)
(* A thread is at one place, pc[t]; stack[t] holds the places its          *)
(* unfinished calls and signal handlers return to, the innermost first.    *)
(* A step ends where another thread or a signal can come in between.       *)
(***************************************************************************)
EXTENDS Integers, Sequences, FiniteSets

CONSTANTS
    Threads,        \* the pthreads there can be
    Main,           \* init_thread
    NoThread,       \* a mutex that is free, a slot whose Thread is 0
    TaskNum,        \* the number of task IDs
    THREAD_NUMBER,  \* the number of thread slots
    Calls,          \* what tasks do beside creating others
    MaxFrames       \* bound on nested tick handlers

ASSUME RehostConstants ==
    /\ Main \in Threads /\ NoThread \notin Threads
    /\ TaskNum \in Nat \ {0} /\ THREAD_NUMBER \in Nat \ {0} /\ MaxFrames \in Nat
    /\ Calls \subseteq {"schedule", "exit", "delete"}

VARIABLES
    irq,            \* interrupt_flag
    core,           \* the holder of single_core_mutex
    systick,        \* the holder of systick_mutex
    creating,       \* creat_not_done
    slot,           \* pmcu_threads
    pc, stack,      \* where each thread is
    resume,         \* SIG_RESUME is pending for the thread
    alive,          \* the kernel's tasks
    runTask,        \* g_losTask.runTask, NoTask before the start
    serves,         \* history: the task ID each thread was created for
    orphans,        \* history: the threads whose task was deleted under them
    hurt,           \* history: the windows a signal has come in
    aborted         \* an assert failed

locks == <<irq, core, systick, creating>>
kernel == <<alive, runTask, serves, orphans>>
rehostVars == <<locks, slot, pc, stack, resume, kernel, hurt, aborted>>

Tasks == 0 .. TaskNum - 1
Idle == 0
NoTask == -1
Slots == 0 .. THREAD_NUMBER - 1

Places == {"none", "wrapper", "park", "spin", "task", "exiting", "deleting", "queued",
           "blocked", "tick", "tickend", "tickback", "unlocked", "sigwait", "relock"}
At(place) == [at |-> place, new |-> NoTask, run |-> NoTask]
Frame == {At(place) : place \in Places} \cup
         [at : {"switch", "leave"}, new : Tasks, run : Tasks]

IsFirst(i, S) == i \in S /\ \A j \in S : i <= j

(* pmcu_threads after memset: the task ID of an unused slot is 0. *)
EmptySlot == [valid |-> FALSE, task |-> 0, thread |-> NoThread]

(* Signals a thread does not block reach Resume_Signal_Handler, which does *)
(* nothing; all are blocked in a handler.                                  *)
InHandler(t) == \E i \in 1 .. Len(stack[t]) : stack[t][i].at = "tickback"

Keeps(t) == pc[t].at = "sigwait" \/ InHandler(t)

ResumeThread(t) ==
    /\ resume' = [resume EXCEPT ![t] = @ \/ Keeps(t)]
    /\ hurt' = IF Keeps(t) THEN hurt ELSE hurt \cup {"resume"}

(* A failed assert ends the process; a failed LOS_ASSERT of the kernel     *)
(* loops with interrupts locked.                                           *)
Abort ==
    aborted' = TRUE /\ UNCHANGED <<locks, slot, pc, stack, resume, kernel, hurt>>

----------------------------------------------------------------------------
(* pthread_create's thread; which of the unused ones it is makes no        *)
(* difference.                                                             *)
Unborn(n) == pc[n].at = "none" /\ n = CHOOSE m \in Threads : pc[m].at = "none"

(* A defect: the slots are searched for a free one from the other end. *)
CreateTakesLast(t) ==
    /\ pc[t].at = "task" /\ core = t /\ systick = NoThread
    /\ \E x \in Tasks \ alive :
         /\ alive = {} => x = Idle
         /\ IF \A i \in Slots : slot[i].valid THEN Abort
            ELSE \E i \in Slots, n \in Threads :
               /\ Unborn(n)
               /\ ~slot[i].valid /\ \A j \in Slots : j > i => slot[j].valid
               /\ slot' = [slot EXCEPT ![i] = [valid |-> TRUE, task |-> x, thread |-> n]]
               /\ pc' = [pc EXCEPT ![n] = At("wrapper"), ![t] = At("spin")]
               /\ stack' = [stack EXCEPT ![n] = <<At("task")>>]
               /\ serves' = [serves EXCEPT ![n] = x]
               /\ alive' = alive \cup {x}
               /\ irq' = FALSE /\ core' = NoThread /\ systick' = t /\ creating' = TRUE
               /\ UNCHANGED <<resume, runTask, orphans, hurt, aborted>>

(* Creation.  The creator gives up the core for the new thread, which      *)
(* parks itself in Suspend_Signal_Handler.  The first create, the idle     *)
(* task's, is the boot code's and takes single_core_mutex before.          *)
PMCU_BE_Task_Create(t) ==
    /\ pc[t].at = "task" /\ core = t /\ systick = NoThread
    /\ \E x \in Tasks \ alive :
         /\ alive = {} => x = Idle
         /\ IF \A i \in Slots : slot[i].valid THEN Abort
            ELSE \E i \in Slots, n \in Threads :
               /\ Unborn(n)
               /\ IsFirst(i, {j \in Slots : ~slot[j].valid})
               /\ slot' = [slot EXCEPT ![i] = [valid |-> TRUE, task |-> x, thread |-> n]]
               /\ pc' = [pc EXCEPT ![n] = At("wrapper"), ![t] = At("spin")]
               /\ stack' = [stack EXCEPT ![n] = <<At("task")>>]
               /\ serves' = [serves EXCEPT ![n] = x]
               /\ alive' = alive \cup {x}
               /\ irq' = FALSE /\ core' = NoThread /\ systick' = t /\ creating' = TRUE
               /\ UNCHANGED <<resume, runTask, orphans, hurt, aborted>>

Thread_Wrapper(t) ==
    /\ pc[t].at = "wrapper" /\ core = NoThread
    /\ core' = t
    /\ pc' = [pc EXCEPT ![t] = At("park")]
    /\ UNCHANGED <<irq, systick, creating, slot, stack, resume, kernel, hurt, aborted>>

(* Suspend_Thread of the thread itself, to the sigwait of the handler. *)
Suspend_Signal_Handler(t) ==
    /\ pc[t].at = "park"
    /\ creating' = FALSE /\ core' = NoThread
    /\ pc' = [pc EXCEPT ![t] = At("sigwait")]
    /\ UNCHANGED <<irq, systick, slot, stack, resume, kernel, hurt, aborted>>

CreateReturns(t) ==
    /\ pc[t].at = "spin" /\ ~creating /\ core = NoThread
    /\ core' = t /\ irq' = TRUE /\ systick' = NoThread
    /\ pc' = [pc EXCEPT ![t] = At("task")]
    /\ UNCHANGED <<creating, slot, stack, resume, kernel, hurt, aborted>>

(* A defect: the boot code runs on. *)
StartRunsOn(t) ==
    /\ t = Main /\ pc[t].at = "task" /\ core = t /\ alive # {} /\ runTask = NoTask
    /\ \E x \in alive, i \in Slots :
         /\ IsFirst(i, {j \in Slots : slot[j].task = x /\ slot[j].valid})
         /\ runTask' = x
         /\ ResumeThread(slot[i].thread)
    /\ UNCHANGED <<locks, slot, pc, stack, alive, serves, orphans, aborted>>

(* LOS_Start hands the core to the first task. *)
Start_Scheduler(t) ==
    /\ t = Main /\ pc[t].at = "task" /\ core = t /\ alive # {}
    /\ \E x \in alive, i \in Slots :
         /\ IsFirst(i, {j \in Slots : slot[j].task = x /\ slot[j].valid})
         /\ runTask' = x
         /\ ResumeThread(slot[i].thread)
    /\ creating' = TRUE
    /\ pc' = [pc EXCEPT ![t] = At("park")]
    /\ UNCHANGED <<irq, core, systick, slot, stack, alive, serves, orphans, aborted>>

----------------------------------------------------------------------------
(* The kernel's task x is gone; the layer keeps its threads. *)
Orphaned(x) == {n \in Threads : serves[n] = x}

(* A defect: the first valid slot is given back, not the thread's own. *)
ExitTakesFirst(t) ==
    /\ "exit" \in Calls /\ runTask # NoTask
    /\ pc[t].at = "task" /\ core = t /\ serves[t] # Idle
    /\ \E i \in Slots :
         /\ IsFirst(i, {j \in Slots : slot[j].valid})
         /\ slot' = [slot EXCEPT ![i].valid = FALSE]
    /\ alive' = alive \ {serves[t]}
    /\ orphans' = (orphans \cup Orphaned(serves[t])) \ {t}
    /\ irq' = TRUE
    /\ pc' = [pc EXCEPT ![t] = At("exiting")]
    /\ UNCHANGED <<core, systick, creating, stack, resume, runTask, serves, hurt, aborted>>

(* The end of a task: its function returns, and LOS_TaskDelete of the task *)
(* of the slot goes on to LOS_Schedule.                                    *)
PMCU_ThreadExit(t) ==
    /\ "exit" \in Calls /\ runTask # NoTask
    /\ pc[t].at = "task" /\ core = t /\ serves[t] # Idle
    /\ \E i \in Slots :
         /\ IsFirst(i, {j \in Slots : slot[j].thread = t})
         /\ slot' = [slot EXCEPT ![i].valid = FALSE]
         /\ alive' = alive \ {slot[i].task}
         /\ orphans' = (orphans \cup Orphaned(slot[i].task)) \ {t}
    /\ irq' = TRUE
    /\ pc' = [pc EXCEPT ![t] = At("exiting")]
    /\ UNCHANGED <<core, systick, creating, stack, resume, runTask, serves, hurt, aborted>>

(* LOS_TaskDelete tells the layer nothing.  A task that deletes itself     *)
(* goes on to LOS_Schedule; its thread parks like any other, and returns   *)
(* from LOS_TaskDelete if the ID is used again and its slot is found.      *)
LOS_TaskDelete(t) ==
    /\ "delete" \in Calls /\ runTask # NoTask
    /\ pc[t].at = "task" /\ core = t
    /\ \E x \in alive \ {Idle} :
         /\ alive' = alive \ {x}
         /\ orphans' = orphans \cup Orphaned(x)
         /\ pc' = IF x = runTask THEN [pc EXCEPT ![t] = At("deleting")] ELSE pc
    /\ irq' = TRUE
    /\ UNCHANGED <<core, systick, creating, slot, stack, resume, runTask, serves, hurt, aborted>>

(* LOS_Schedule of a task.  OsSchedTaskSwitch has put a task that is still *)
(* ready back into the ready queue ("queued") or has left it to its wait   *)
(* ("blocked"), with interrupts enabled again.                             *)
LOS_Schedule(t) ==
    /\ core = t /\ runTask # NoTask
    /\ \E back \in {"task", "exiting"}, p \in {"queued", "blocked"} :
         /\ \/ pc[t].at = "task" /\ back = "task" /\ "schedule" \in Calls
               /\ (p = "blocked" => runTask # Idle)
            \/ pc[t].at = "deleting" /\ back = "task" /\ (p = "queued" <=> runTask \in alive)
            \/ pc[t].at = "exiting" /\ back = "exiting" /\ p = "blocked"
         /\ pc' = [pc EXCEPT ![t] = At(p)]
         /\ stack' = [stack EXCEPT ![t] = <<At(back)>> \o @]
    /\ UNCHANGED <<locks, slot, resume, kernel, hurt, aborted>>

(* The switch to task x; thread t is in it with the places st below. *)
ArchTaskSchedule(t, x, st) ==
    /\ runTask' = x
    /\ pc' = [pc EXCEPT ![t] = [at |-> "switch", new |-> x, run |-> runTask]]
    /\ stack' = [stack EXCEPT ![t] = st]
    /\ UNCHANGED <<alive, serves, orphans>>

(* The rest of OsSchedTaskSwitch: the top task, which may be the same. *)
OsSchedTaskSwitch(t) ==
    /\ pc[t].at \in {"queued", "blocked"}
    /\ \/ \E x \in alive \ {runTask} : ArchTaskSchedule(t, x, stack[t])
       \/ /\ pc[t].at = "queued"
          /\ pc' = [pc EXCEPT ![t] = Head(stack[t])]
          /\ stack' = [stack EXCEPT ![t] = Tail(@)]
          /\ UNCHANGED kernel
    /\ UNCHANGED <<locks, slot, resume, hurt, aborted>>

(* SIG_TICK is blocked in its own handler, until a switch in the handler   *)
(* is over; it comes where a thread runs with interrupts enabled.          *)
InWindow(t) ==
    /\ pc[t].at \in {"queued", "blocked", "switch", "leave"}
    /\ Head(stack[t]).at # "tickback"
TickComes(t) == pc[t].at \in {"task", "exiting", "deleting", "tickback"} \/ InWindow(t)

Systick_Signal_Handler(t) ==
    /\ TickComes(t) /\ core = t /\ runTask # NoTask
    /\ irq /\ systick = NoThread /\ Len(stack[t]) < MaxFrames
    /\ irq' = FALSE /\ systick' = t
    /\ pc' = [pc EXCEPT ![t] = At("tick")]
    /\ stack' = [stack EXCEPT ![t] = <<pc[t]>> \o @]
    /\ hurt' = IF InWindow(t) THEN hurt \cup {"tick"} ELSE hurt
    /\ UNCHANGED <<core, creating, slot, resume, kernel, aborted>>

(* pmcu_systick_handler: the tick makes a switch or not.  A task that the  *)
(* interrupted OsSchedTaskSwitch has made ready already fails the          *)
(* LOS_ASSERT of OsSchedTaskEnQueue.                                       *)
OsTickHandler(t) ==
    /\ pc[t].at = "tick"
    /\ \/ /\ runTask \in alive
          /\ pc' = [pc EXCEPT ![t] = At("tickend")]
          /\ UNCHANGED <<locks, slot, stack, resume, kernel, hurt, aborted>>
       \/ Head(stack[t]).at = "queued" /\ Abort
       \/ /\ Head(stack[t]).at # "queued"
          /\ \E x \in alive \ {runTask} :
               ArchTaskSchedule(t, x, <<At("tickback")>> \o stack[t])
          /\ UNCHANGED <<locks, slot, resume, hurt, aborted>>

TickReturn(t) ==
    /\ pc[t].at \in {"tickend", "tickback"}
    /\ systick' = NoThread /\ irq' = TRUE
    /\ pc' = [pc EXCEPT ![t] = Head(stack[t])]
    /\ stack' = [stack EXCEPT ![t] = Tail(@)]
    /\ UNCHANGED <<core, creating, slot, resume, kernel, hurt, aborted>>

----------------------------------------------------------------------------
(* Pthread_Schedule up to Enable_Irq: the new task's thread is resumed. *)
Pthread_Schedule(t) ==
    /\ pc[t].at = "switch"
    /\ LET found == {j \in Slots : slot[j].task = pc[t].new /\ slot[j].valid}
       IN  IF found = {} THEN Abort
           ELSE \E i \in Slots :
                /\ IsFirst(i, found)
                /\ IF slot[i].thread = t
                   THEN /\ pc' = [pc EXCEPT ![t] = Head(stack[t])]
                        /\ stack' = [stack EXCEPT ![t] = Tail(@)]
                        /\ UNCHANGED <<irq, systick, resume, hurt>>
                   ELSE /\ ResumeThread(slot[i].thread)
                        /\ systick' = NoThread /\ irq' = TRUE
                        /\ pc' = [pc EXCEPT ![t].at = "leave"]
                        /\ UNCHANGED stack
                /\ UNCHANGED <<core, creating, slot, kernel, aborted>>

(* The rest of Pthread_Schedule.  The first slot of the task that ran      *)
(* decides whether this thread parks itself or ends.  That the slot is the *)
(* thread's own is LeavesByOwnSlot; past a signal in a window it may not   *)
(* be, and the branch that cancels another thread is left out.             *)
OwnSlot(t, i) == IsFirst(i, {j \in Slots : slot[j].task = pc[t].run})

Suspend_Thread_Self(t) ==
    /\ pc[t].at = "leave"
    /\ \E i \in Slots : OwnSlot(t, i) /\ slot[i].valid
    /\ irq' = FALSE /\ core' = NoThread
    /\ pc' = [pc EXCEPT ![t] = At("unlocked")]
    /\ UNCHANGED <<systick, creating, slot, stack, resume, kernel, hurt, aborted>>

pthread_exit(t) ==
    /\ pc[t].at = "leave"
    /\ \E i \in Slots :
         /\ OwnSlot(t, i) /\ ~slot[i].valid /\ slot[i].thread = t
         /\ slot' = [slot EXCEPT ![i].task = NoTask, ![i].thread = NoThread]
    /\ core' = NoThread
    /\ pc' = [pc EXCEPT ![t] = At("none")]
    /\ stack' = [stack EXCEPT ![t] = <<>>]
    /\ serves' = [serves EXCEPT ![t] = NoTask]
    /\ UNCHANGED <<irq, systick, creating, resume, alive, runTask, orphans, hurt, aborted>>

sigwait(t) ==
    /\ pc[t].at = "unlocked"
    /\ pc' = [pc EXCEPT ![t] = At("sigwait")]
    /\ UNCHANGED <<locks, slot, stack, resume, kernel, hurt, aborted>>

(* A defect: a thread that was resumed waits again, and again. *)
SigwaitAgain(t) ==
    /\ pc[t].at = "sigwait" /\ resume[t]
    /\ pc' = [pc EXCEPT ![t] = At("unlocked")]
    /\ UNCHANGED <<locks, slot, stack, resume, kernel, hurt, aborted>>

SigwaitReturns(t) ==
    /\ pc[t].at = "sigwait" /\ resume[t]
    /\ resume' = [resume EXCEPT ![t] = FALSE]
    /\ pc' = [pc EXCEPT ![t] = At("relock")]
    /\ UNCHANGED <<locks, slot, stack, kernel, hurt, aborted>>

(* A defect: the thread does not wait for the core. *)
ResumedAtOnce(t) ==
    /\ pc[t].at = "relock"
    /\ core' = t /\ irq' = TRUE
    /\ pc' = [pc EXCEPT ![t] = Head(stack[t])]
    /\ stack' = [stack EXCEPT ![t] = Tail(@)]
    /\ UNCHANGED <<systick, creating, slot, resume, kernel, hurt, aborted>>

Resumed(t) ==
    /\ pc[t].at = "relock" /\ core = NoThread
    /\ core' = t /\ irq' = TRUE
    /\ pc' = [pc EXCEPT ![t] = Head(stack[t])]
    /\ stack' = [stack EXCEPT ![t] = Tail(@)]
    /\ UNCHANGED <<systick, creating, slot, resume, kernel, hurt, aborted>>

----------------------------------------------------------------------------
Init ==
    /\ irq = TRUE /\ core = Main /\ systick = NoThread /\ creating = FALSE
    /\ slot = [i \in Slots |-> EmptySlot]
    /\ pc = [t \in Threads |-> At(IF t = Main THEN "task" ELSE "none")]
    /\ stack = [t \in Threads |-> <<>>]
    /\ resume = [t \in Threads |-> FALSE]
    /\ alive = {} /\ runTask = NoTask /\ serves = [t \in Threads |-> NoTask]
    /\ orphans = {} /\ hurt = {} /\ aborted = FALSE

(* What a thread does once it has begun, and what tasks and signals begin. *)
Goes(t) ==
    \/ Thread_Wrapper(t) \/ Suspend_Signal_Handler(t) \/ CreateReturns(t)
    \/ pc[t].at # "task" /\ LOS_Schedule(t)
    \/ OsSchedTaskSwitch(t) \/ OsTickHandler(t) \/ TickReturn(t)
    \/ Pthread_Schedule(t) \/ Suspend_Thread_Self(t) \/ pthread_exit(t)
    \/ sigwait(t) \/ SigwaitReturns(t) \/ Resumed(t)
Begins(t) ==
    \/ PMCU_BE_Task_Create(t) \/ Start_Scheduler(t)
    \/ pc[t].at = "task" /\ LOS_Schedule(t)
    \/ PMCU_ThreadExit(t) \/ LOS_TaskDelete(t)
    \/ Systick_Signal_Handler(t)

Over == aborted /\ UNCHANGED rehostVars

Next == Over \/ (~aborted /\ \E t \in Threads : Goes(t) \/ Begins(t))

Spec == Init /\ [][Next]_rehostVars

(* The host runs every thread that can go on. *)
FairSpec == Spec /\ \A t \in Threads : WF_rehostVars(~aborted /\ Goes(t))

----------------------------------------------------------------------------
RehostTypeOK ==
    /\ irq \in BOOLEAN /\ creating \in BOOLEAN /\ aborted \in BOOLEAN
    /\ core \in Threads \cup {NoThread} /\ systick \in Threads \cup {NoThread}
    /\ slot \in [Slots -> [valid : BOOLEAN, task : Tasks \cup {NoTask},
                           thread : Threads \cup {NoThread}]]
    /\ pc \in [Threads -> Frame] /\ stack \in [Threads -> Seq(Frame)]
    /\ resume \in [Threads -> BOOLEAN]
    /\ alive \in SUBSET Tasks /\ runTask \in Tasks \cup {NoTask}
    /\ serves \in [Threads -> Tasks \cup {NoTask}] /\ orphans \in SUBSET Threads
    /\ hurt \in SUBSET {"tick", "resume"}

(* No signal has come in a window. *)
Unhurt == hurt = {}

(* The thread executes its task, or the kernel on its behalf. *)
Executes(t) == pc[t].at \in {"task", "exiting", "deleting", "queued", "blocked",
                             "tick", "tickend", "tickback"}

Leaving(t) == pc[t].at = "leave" \/ \E i \in 1 .. Len(stack[t]) : stack[t][i].at = "leave"
Active(t) ==
    /\ pc[t].at \notin {"none", "wrapper", "park"} /\ ~Leaving(t)
    /\ pc[t].at \in {"unlocked", "sigwait"} => resume[t]

(* Exactly one thread runs or has been told to run. *)
OneRunner == runTask # NoTask => \E t \in Threads : \A u \in Threads : Active(u) <=> u = t

(* At no time does more than one thread run or is told to run. *)
OnlyOneRunner == runTask # NoTask => \A t, u \in Threads : Active(t) /\ Active(u) => t = u

(* Until a signal comes in a window exactly one thread runs or has been    *)
(* told to run: Pthread_Schedule resumes one for each one that leaves,     *)
(* whatever tasks end, are deleted and have their IDs used again.          *)
OneRunnerUnhurt == Unhurt => OneRunner

(* Until a signal comes in a window the thread that executes a task's      *)
(* code, or the kernel's on its behalf, holds the core and was made for    *)
(* the ID of the task the kernel believes to be running, whatever IDs and  *)
(* slots were given back and reused before.                                *)
RunnerIsRunTask ==
    Unhurt /\ runTask # NoTask =>
        \A t \in Threads : Executes(t) => serves[t] = runTask /\ core = t

(* Until a signal comes in a window a thread that has handed over leaves   *)
(* by its own slot, so it neither cancels another thread nor falls through *)
(* and runs on beside the thread it resumed.                               *)
LeavesByOwnSlot ==
    Unhurt =>
        \A t \in Threads : pc[t].at = "leave" =>
            \E i \in Slots : OwnSlot(t, i) /\ slot[i].thread = t

(* Without a signal in a window an assert fails in one case only: a task   *)
(* is created when THREAD_NUMBER tasks live, or threads of deleted tasks   *)
(* keep slots from the living.  A task that is switched to has a slot, and *)
(* no task is put into the ready queue twice.                              *)
AssertsHold ==
    aborted /\ Unhurt => Cardinality(alive) >= THREAD_NUMBER \/ orphans # {}

(* Without a signal in a window a switch the kernel has decided on takes   *)
(* place: a thread of the task it believes to be running gets the core.    *)
SwitchCompletes ==
    \A x \in Tasks :
        runTask = x ~> \/ runTask = x /\ \E t \in Threads :
                             core = t /\ serves[t] = x /\ Executes(t)
                       \/ ~Unhurt
============================================================================
