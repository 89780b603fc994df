-------------------------------- MODULE Stop --------------------------------
(***************************************************************************)
(* The end of the program, OsIdleTask of kernel/src/los_task.c: the idle   *)
(* task looks through the TCBs, one at a time and with interrupts enabled, *)
(* and stops the scheduler when it has met no living task.                 *)
(***************************************************************************)
EXTENDS Task

VARIABLES
    scan,       \* the TCB idle looks at next; 0, idle's own, before a round
    late,       \* history: TCBs taken in this round after idle passed them
    stopped     \* interrupt_flag was cleared to stop the scheduler

stopVars == <<k, call, tick, scan, late, stopped>>

(* The status bits that count as a sign of life. *)
Alive(t) == Has(k, t, {"DELAY", "PEND", "PEND_TIME", "READY", "RUNNING", "SUSPEND", "TIMEOUT"})

IdleRuns == ~tick /\ ~k.switch /\ k.run = Idle

(* A round begins when OsRecycleFinishedTask has found nothing more. *)
ScanBegin ==
    /\ IdleRuns /\ scan = 0 /\ k.list[RecycleList] = <<>>
    /\ scan' = 1
    /\ UNCHANGED <<k, call, tick, late, stopped>>

(* Defects: a delayed task is taken for one that is over; the end of the   *)
(* TCBs is missed by one.                                                  *)
ScanPassesDelayed ==
    /\ IdleRuns /\ scan \in 1 .. TskLimit
    /\ scan' = IF Has(k, scan, {"READY", "RUNNING", "SUSPEND"}) THEN 0 ELSE scan + 1
    /\ late' = IF scan' = 0 THEN {} ELSE late
    /\ UNCHANGED <<k, call, tick, stopped>>
ScanWraps ==
    /\ IdleRuns /\ scan \in 1 .. TskLimit
    /\ scan' = IF Alive(scan) THEN 0 ELSE (scan + 1) % (TskLimit + 1)
    /\ late' = IF scan' = 0 THEN {} ELSE late
    /\ UNCHANGED <<k, call, tick, stopped>>

ScanTask ==
    /\ IdleRuns /\ scan \in 1 .. TskLimit
    /\ scan' = IF Alive(scan) THEN 0 ELSE scan + 1
    /\ late' = IF scan' = 0 THEN {} ELSE late
    /\ UNCHANGED <<k, call, tick, stopped>>

ScanEnd ==
    /\ IdleRuns /\ scan = TskLimit + 1
    /\ stopped' = TRUE
    /\ UNCHANGED <<k, call, tick, scan, late>>

OsIdleTask == ScanBegin \/ ScanTask \/ ScanEnd

(* The other tasks and the interrupts.  Idle recycles between rounds only. *)
ScanStays ==
    /\ late' = late \cup
          {t \in 1 .. scan - 1 : Has(k, t, {"UNUSED"}) /\ ~Has(k', t, {"UNUSED"})}
    /\ UNCHANGED <<scan, stopped>>
StopTaskStep ==
    TaskNext /\ (IdleRuns /\ scan # 0 => ~IdleRecycle) /\ ScanStays

StopInit == TaskInit /\ scan = 0 /\ late = {} /\ stopped = FALSE
StopNext == ~stopped /\ (OsIdleTask \/ StopTaskStep)
StopSpec == StopInit /\ [][StopNext]_stopVars

(* The idle task goes on whenever it runs; ticks, time-outs and switches   *)
(* come as in TaskFairness.                                                *)
StopsNot(A) == ~stopped /\ A /\ ScanStays
StopFairSpec ==
    /\ StopSpec
    /\ SF_stopVars(~stopped /\ OsIdleTask)
    /\ SF_stopVars(StopsNot(scan = 0 /\ IdleRecycle))
    /\ SF_stopVars(StopsNot(Switch))
    /\ WF_stopVars(StopsNot(TickBegin)) /\ WF_stopVars(StopsNot(TickEnd))
    /\ WF_stopVars(StopsNot(LOS_Start))
    /\ \A t \in Task : /\ SF_stopVars(StopsNot(TickExpire(t)))
                        /\ SF_stopVars(StopsNot(TickCharges(t)))

----------------------------------------------------------------------------
(* The scheduler is stopped when the work is done, though idle looked at   *)
(* the TCBs at different times and tasks ran between the looks: the only   *)
(* tasks that can live then are those created in the last round, on a TCB  *)
(* idle had passed.                                                        *)
StopsWhenDone == stopped => \A t \in Task \ {Idle} : Alive(t) => t \in late

(* A delay ends: the delayed task becomes ready, unless it is suspended or *)
(* is one of the tasks that idle did not see when it stopped the program.  *)
DelayEnds ==
    \A t \in Task : Has(k, t, {"DELAY"}) ~>
        Has(k, t, {"READY", "SUSPEND", "UNUSED", "EXIT"}) \/ (stopped /\ t \in late)

(* And it is stopped: once every task has ended and none is created, idle  *)
(* comes round to notice.                                                  *)
Over == k.sched /\ \A t \in Task \ {Idle} : Has(k, t, {"UNUSED"})
StopComes == Over ~> stopped \/ ~Over
============================================================================
