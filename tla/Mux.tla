-------------------------------- MODULE Mux ---------------------------------
(***************************************************************************)
(* Mutexes with priority inheritance, kernel/src/los_mux.c, over the tasks *)
(* of module Task.  The mutexes are the elements of IpcList; the list      *)
(* Ipc(o) is muxList of mutex o.  LOS_MuxPend is two actions, up to        *)
(* LOS_Schedule and after it, with <<"ipc", o>> in call between.           *)
(*                                                                         *)
(* held and base record what happened, for the properties: the mutexes a   *)
(* task holds in the order it got them, and the priority it was created    *)
(* with or given by LOS_TaskPriSet.                                        *)
(***************************************************************************)
EXTENDS Task, FiniteSets

CONSTANTS
    MaxNest,    \* bound on the recursive locking of one mutex
    NoTask      \* the NULL owner

ASSUME MuxConstants ==
    MaxNest \in Nat \ {0} /\ NoTask \notin Task /\ Cardinality(IpcList) \in Nat

VARIABLES
    mux,        \* the LosMuxCB of each mutex
    unusedMux,  \* g_unusedMuxList
    held, base

muxVars == <<k, call, tick, mux, unusedMux, held, base>>

MuxCB == [used : BOOLEAN, count : 0 .. MaxNest, owner : Task \cup {NoTask}, priority : Prio]
MuxTimeouts == {"no_wait", "ticks", "forever"}

LOS_MuxCreate ==
    /\ Caller("muxcreate") /\ unusedMux # <<>>
    /\ mux' = [mux EXCEPT ![Head(unusedMux)] =
                 [used |-> TRUE, count |-> 0, owner |-> NoTask, priority |-> 0]]
    /\ unusedMux' = Tail(unusedMux)
    /\ UNCHANGED <<k, call, tick, held, base>>

LOS_MuxDelete(o) ==
    /\ Caller("muxdelete") /\ mux[o].used /\ mux[o].count = 0 /\ k.list[Ipc(o)] = <<>>
    /\ mux' = [mux EXCEPT ![o].used = FALSE]
    /\ unusedMux' = <<o>> \o unusedMux
    /\ UNCHANGED <<k, call, tick, held, base>>

(* A task that finds the mutex locked lends the owner its priority. *)
Inherit(s, owner) ==
    IF s.priority[owner] > s.priority[s.run]
    THEN OsSchedModifyTaskSchedParam(s, owner, s.priority[s.run]) ELSE s

(* OsMuxValidCheck refuses interrupt handlers and locked scheduling. *)
LOS_MuxPend(o, timeout) ==
    /\ InTask("muxpend") /\ k.sched /\ mux[o].used /\ k.taskLock = 0
    /\ \/ /\ mux[o].count = 0
          /\ mux' = [mux EXCEPT ![o].count = 1, ![o].owner = k.run,
                                ![o].priority = k.priority[k.run]]
          /\ held' = [held EXCEPT ![k.run] = Append(@, o)]
          /\ UNCHANGED <<k, call>>
       \/ /\ mux[o].owner = k.run /\ mux[o].count \in 1 .. (MaxNest - 1)
          /\ mux' = [mux EXCEPT ![o].count = @ + 1]
          /\ UNCHANGED <<k, call, held>>
       \/ /\ mux[o].count > 0 /\ mux[o].owner # k.run /\ timeout # "no_wait"
          /\ k' = LOS_Schedule(OsSchedTaskWait(Inherit(k, mux[o].owner), Ipc(o),
                                               timeout = "forever"))
          /\ GoesOn(k.run, <<"ipc", o>>)
          /\ UNCHANGED <<mux, held>>
    /\ UNCHANGED <<tick, unusedMux, base>>

(* The return code is LOS_ERRNO_MUX_TIMEOUT iff the bit was set. *)
MuxPendReturn(o) ==
    /\ Executing /\ call[k.run] = <<"ipc", o>>
    /\ k' = ClrStatus(k, k.run, {"TIMEOUT"})
    /\ Returns(k.run)
    /\ UNCHANGED <<tick, mux, unusedMux, held, base>>

(* A defect: the priority is not given back. *)
KeepPriority(s, o) == s

(* The last post gives the owner back the priority it locked with. *)
Disinherit(s, o) ==
    IF s.priority[s.run] # mux[o].priority
    THEN OsSchedModifyTaskSchedParam(s, s.run, mux[o].priority) ELSE s

(* Usage pattern: mutexes are released in the reverse order of locking. *)
MayPost(o) ==
    mux[o].count = 1 /\ held[k.run][Len(held[k.run])] # o => "post_out_of_order" \in Unguarded

(* Defects: the waiter is woken but not made the owner; the waiters are    *)
(* forgotten.                                                              *)
PostNoOwner(o) ==
    /\ InTask("muxpost") /\ k.sched /\ mux[o].used
    /\ mux[o].count = 1 /\ mux[o].owner = k.run
    /\ mux' = [mux EXCEPT ![o].count = 0, ![o].owner = NoTask]
    /\ LET s == Disinherit(k, o)
       IN  k' = IF s.list[Ipc(o)] = <<>> THEN s
                ELSE LOS_Schedule(OsSchedTaskWake(s, Head(s.list[Ipc(o)])))
    /\ held' = [held EXCEPT ![k.run] = Unlink(@, o)]
    /\ UNCHANGED <<call, tick, unusedMux, base>>

PostWakesNobody(o) ==
    /\ InTask("muxpost") /\ k.sched /\ mux[o].used
    /\ mux[o].count = 1 /\ mux[o].owner = k.run
    /\ mux' = [mux EXCEPT ![o].count = 0, ![o].owner = NoTask]
    /\ k' = Disinherit(k, o)
    /\ held' = [held EXCEPT ![k.run] = Unlink(@, o)]
    /\ UNCHANGED <<call, tick, unusedMux, base>>

LOS_MuxPost(o) ==
    /\ InTask("muxpost") /\ k.sched /\ mux[o].used
    /\ mux[o].count > 0 /\ mux[o].owner = k.run /\ MayPost(o)
    /\ \/ /\ mux[o].count > 1
          /\ mux' = [mux EXCEPT ![o].count = @ - 1]
          /\ UNCHANGED <<k, held>>
       \/ /\ mux[o].count = 1 /\ k.list[Ipc(o)] # <<>>
          /\ LET s == Disinherit(k, o)
                 t == Head(s.list[Ipc(o)])
             IN  /\ mux' = [mux EXCEPT ![o].owner = t, ![o].priority = s.priority[t]]
                 /\ k' = LOS_Schedule(OsSchedTaskWake(s, t))
                 /\ held' = [held EXCEPT ![k.run] = Unlink(@, o), ![t] = Append(@, o)]
       \/ /\ mux[o].count = 1 /\ k.list[Ipc(o)] = <<>>
          /\ mux' = [mux EXCEPT ![o].count = 0, ![o].owner = NoTask]
          /\ k' = Disinherit(k, o)
          /\ held' = [held EXCEPT ![k.run] = Unlink(@, o)]
    /\ UNCHANGED <<call, tick, unusedMux, base>>

----------------------------------------------------------------------------
MuxInit ==
    /\ TaskInit
    /\ mux = [o \in IpcList |->
                [used |-> FALSE, count |-> 0, owner |-> NoTask, priority |-> 0]]
    /\ unusedMux \in {q \in [1 .. Cardinality(IpcList) -> IpcList] : IsInjective(q)}
    /\ held = [t \in Task |-> <<>>]
    /\ base = k.priority

MuxOps ==
    \/ LOS_MuxCreate
    \/ \E o \in IpcList :
          \/ LOS_MuxDelete(o) \/ MuxPendReturn(o) \/ LOS_MuxPost(o)
          \/ \E timeout \in MuxTimeouts : LOS_MuxPend(o, timeout)

(* A step of the task API.  Usage patterns: a task is not deleted, and its *)
(* priority is not set, while it holds a mutex.                            *)
MuxTaskStep ==
    /\ TaskNext
    /\ \A t \in Task : held[t] # <<>> =>
          /\ Has(k', t, {"UNUSED", "EXIT"}) => "delete_owner" \in Unguarded
          /\ k'.priority[t] # k.priority[t] => "priset_owner" \in Unguarded
    /\ base' = [t \in Task |-> IF k'.priority[t] = k.priority[t] THEN base[t]
                               ELSE k'.priority[t]]
    /\ UNCHANGED <<mux, unusedMux, held>>

MuxNext == MuxOps \/ MuxTaskStep

MuxSpec == MuxInit /\ [][MuxNext]_muxVars

----------------------------------------------------------------------------
MuxTypeOK ==
    /\ TaskTypeOK
    /\ mux \in [IpcList -> MuxCB]
    /\ unusedMux \in Seq(IpcList)
    /\ held \in [Task -> Seq(IpcList)] /\ base \in [Task -> Prio]

(* Mutual exclusion as the callers see it: a task for which LOS_MuxPend    *)
(* returned, or is about to return, LOS_OK and which has not posted since  *)
(* is the owner, and the owner is such a task.  A task that timed out is   *)
(* not the owner.                                                          *)
PendMakesOwner ==
    \A o \in IpcList, t \in Task :
        /\ o \in Range(held[t]) <=> mux[o].owner = t /\ mux[o].count > 0
        /\ call[t] = <<"ipc", o>> /\ t \notin OnList(k, Ipc(o)) =>
              (Has(k, t, {"TIMEOUT"}) <=> mux[o].owner # t)

(* No task waits for a mutex that is free or deleted, or for one that it   *)
(* holds itself: the hand-over of LOS_MuxPost never strands a waiter.      *)
NoWaitForFree ==
    \A o \in IpcList : k.list[Ipc(o)] # <<>> =>
        /\ mux[o].used /\ mux[o].count > 0
        /\ mux[o].owner \in Task \ OnList(k, Ipc(o))

(* Priority inheritance ends with the lock: a task that holds no mutex has *)
(* the priority it was given, however waits timed out, waiters were        *)
(* deleted, and locks were nested.                                         *)
PriorityRestored ==
    \A t \in Task : held[t] = <<>> => k.priority[t] = base[t]

(* Priority inheritance, as the description of LOS_MuxPend has it: nobody  *)
(* waits for a mutex whose owner has a lower priority.                     *)
NoInversion ==
    \A o \in IpcList : \A t \in OnList(k, Ipc(o)) :
        k.priority[mux[o].owner] <= k.priority[t]
============================================================================
