-------------------------------- MODULE Sem ---------------------------------
(***************************************************************************)
(* Semaphores, kernel/src/los_sem.c, over the tasks of module Task.  The   *)
(* semaphores are the elements of IpcList; the list Ipc(o) is semList of   *)
(* semaphore o.  LOS_SemPend is two actions: up to LOS_Schedule, and what  *)
(* it does when the task runs again, with <<"ipc", o>> in call between.    *)
(***************************************************************************)
EXTENDS Task, FiniteSets

CONSTANTS MaxCounts     \* the maxSemCount values semaphores are created with

ASSUME SemConstants == MaxCounts \subseteq Nat \ {0} /\ Cardinality(IpcList) \in Nat

VARIABLES
    sem,        \* the LosSemCB of each semaphore
    unusedSem   \* g_unusedSemList

semVars == <<k, call, tick, sem, unusedSem>>

SemCB == [used : BOOLEAN, count : Nat, max : Nat]
Timeouts == {"no_wait", "ticks", "forever"}

LOS_SemCreate(count, max) ==
    /\ Caller("semcreate") /\ count <= max /\ unusedSem # <<>>
    /\ sem' = [sem EXCEPT ![Head(unusedSem)] =
                 [used |-> TRUE, count |-> count, max |-> max]]
    /\ unusedSem' = Tail(unusedSem)
    /\ UNCHANGED taskVars

(* A defect: a semaphore is deleted under its waiters. *)
DeletePended(o) ==
    /\ Caller("semdelete") /\ sem[o].used
    /\ sem' = [sem EXCEPT ![o].used = FALSE]
    /\ unusedSem' = <<o>> \o unusedSem
    /\ UNCHANGED taskVars

LOS_SemDelete(o) ==
    /\ Caller("semdelete") /\ sem[o].used /\ k.list[Ipc(o)] = <<>>
    /\ sem' = [sem EXCEPT ![o].used = FALSE]
    /\ unusedSem' = <<o>> \o unusedSem
    /\ UNCHANGED taskVars

(* A defect: the count is taken down without looking at it. *)
PendUnchecked(o, timeout) ==
    /\ InTask("sempend") /\ sem[o].used /\ k.taskLock = 0
    /\ sem' = [sem EXCEPT ![o].count = @ - 1]
    /\ UNCHANGED <<k, call, tick, unusedSem>>

(* OsSemValidCheck refuses interrupt handlers and locked scheduling; the   *)
(* boot code has no task to block, so it pends only for what is there.     *)
LOS_SemPend(o, timeout) ==
    /\ InTask("sempend") /\ sem[o].used /\ k.taskLock = 0
    /\ \/ /\ sem[o].count > 0
          /\ sem' = [sem EXCEPT ![o].count = @ - 1]
          /\ UNCHANGED taskVars
       \/ /\ sem[o].count = 0 /\ timeout # "no_wait" /\ k.sched
          /\ k' = LOS_Schedule(OsSchedTaskWait(k, Ipc(o), timeout = "forever"))
          /\ GoesOn(k.run, <<"ipc", o>>)
          /\ UNCHANGED <<tick, sem>>
    /\ UNCHANGED unusedSem

(* A defect: the time-out bit is not cleared. *)
ReturnKeepsTimeout(o) ==
    /\ Executing /\ call[k.run] = <<"ipc", o>>
    /\ Returns(k.run)
    /\ UNCHANGED <<k, tick, sem, unusedSem>>

(* The return code is LOS_ERRNO_SEM_TIMEOUT iff the bit was set. *)
SemPendReturn(o) ==
    /\ Executing /\ call[k.run] = <<"ipc", o>>
    /\ k' = ClrStatus(k, k.run, {"TIMEOUT"})
    /\ Returns(k.run)
    /\ UNCHANGED <<tick, sem, unusedSem>>

(* A defect: the token handed to a waiter is counted as well. *)
PostCountsTwice(o) ==
    /\ Caller("sempost") /\ sem[o].used /\ sem[o].count # sem[o].max
    /\ k' = IF k.list[Ipc(o)] = <<>> THEN k
            ELSE LOS_Schedule(OsSchedTaskWake(k, Head(k.list[Ipc(o)])))
    /\ sem' = [sem EXCEPT ![o].count = @ + 1]
    /\ UNCHANGED <<call, tick, unusedSem>>

LOS_SemPost(o) ==
    /\ Caller("sempost") /\ sem[o].used /\ sem[o].count # sem[o].max
    /\ IF k.list[Ipc(o)] # <<>>
       THEN /\ k' = LOS_Schedule(OsSchedTaskWake(k, Head(k.list[Ipc(o)])))
            /\ UNCHANGED sem
       ELSE /\ sem' = [sem EXCEPT ![o].count = @ + 1]
            /\ UNCHANGED k
    /\ UNCHANGED <<call, tick, unusedSem>>

----------------------------------------------------------------------------
SemInit ==
    /\ TaskInit
    /\ sem = [o \in IpcList |-> [used |-> FALSE, count |-> 0, max |-> 0]]
    /\ unusedSem \in {q \in [1 .. Cardinality(IpcList) -> IpcList] : IsInjective(q)}

SemOps ==
    \/ \E max \in MaxCounts : \E count \in 0 .. max : LOS_SemCreate(count, max)
    \/ \E o \in IpcList :
          \/ LOS_SemDelete(o) \/ SemPendReturn(o) \/ LOS_SemPost(o)
          \/ \E timeout \in Timeouts : LOS_SemPend(o, timeout)

SemNext == SemOps \/ (TaskNext /\ UNCHANGED <<sem, unusedSem>>)

SemSpec == SemInit /\ [][SemNext]_semVars

----------------------------------------------------------------------------
SemTypeOK ==
    /\ TaskTypeOK
    /\ sem \in [IpcList -> SemCB]
    /\ unusedSem \in Seq(IpcList)

(* A wait is not left standing while there is something to take: tasks     *)
(* wait on a semaphore only while its count is zero, and no further post   *)
(* is refused as an overflow while they do.                                *)
NoWaitBesideTokens ==
    \A o \in IpcList :
        /\ k.list[Ipc(o)] # <<>> => sem[o].used /\ sem[o].count = 0
        /\ sem[o].used => sem[o].count <= sem[o].max /\ sem[o].max > 0

(* A task waits on a semaphore inside LOS_SemPend and nowhere else, and a  *)
(* task that left the wait list has either the time-out bit or the token   *)
(* of one post; the time-out bit never outlives its call.                  *)
WaitersInPend ==
    \A t \in Task :
        /\ \A o \in IpcList : t \in OnList(k, Ipc(o)) =>
              call[t] = <<"ipc", o>> /\ ~Has(k, t, {"TIMEOUT"})
        /\ Has(k, t, {"TIMEOUT"}) /\ ~Has(k, t, {"UNUSED", "EXIT"}) =>
              call[t][1] = "ipc"

(* The semaphores keep the promise of AbsSem: each accepted post ends as   *)
(* one count or as one token for the task that waited longest, and a task  *)
(* whose time-out and whose post race is told exactly one of the two.      *)
Outcome(c) ==
    IF c \in Task /\ call[c][1] = "ipc" /\ c \notin OnList(k, Ipc(call[c][2]))
    THEN IF Has(k, c, {"TIMEOUT"}) THEN "timeout" ELSE "token"
    ELSE "none"

Abs == INSTANCE AbsSem WITH
    Client <- Task, Sem <- IpcList,
    Counts <- UNION {0 .. max : max \in MaxCounts},
    used <- {o \in IpcList : sem[o].used},
    alive <- {c \in Task : ~Has(k, c, {"UNUSED", "EXIT"})},
    count <- [o \in IpcList |-> sem[o].count], max <- [o \in IpcList |-> sem[o].max],
    queue <- [o \in IpcList |-> k.list[Ipc(o)]], outcome <- [c \in Task |-> Outcome(c)]

SemRefinesAbs == Abs!Spec
============================================================================
