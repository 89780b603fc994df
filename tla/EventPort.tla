----------------------------- MODULE EventPort -----------------------------
(***************************************************************************)
(* LOS_EventRead of kernel/src/los_event.c over ArchIntRestore of          *)
(* sub/LiteOS_RTOS_FE.c, which unlocks interrupts whatever was saved: the  *)
(* LOS_IntRestore in LOS_EventPoll ends the locked section of its caller   *)
(* LOS_EventRead, and the poll and the wait are two steps.                 *)
(*                                                                         *)
(* The other places where this port unlocks early are kept closed.  Every  *)
(* behaviour here is one of the port in which nothing comes in there.      *)
(***************************************************************************)
EXTENDS Event

VARIABLE polled     \* tasks that polled in vain and do not wait yet

portVars == <<eventVars, polled>>

(* LOS_EventRead up to the LOS_IntRestore of LOS_EventPoll. *)
PortReadPoll(o, w) ==
    /\ InTask("evread") /\ ev[o].init /\ LOS_EventPoll(ev[o].id, w) = {} /\ CanBlock
    /\ want' = [want EXCEPT ![k.run] = w]
    /\ GoesOn(k.run, <<"ipc", o>>)
    /\ polled' = polled \cup {k.run}
    /\ UNCHANGED <<k, tick, ev>>

(* LOS_EventRead from there to LOS_Schedule. *)
PortReadWait(o) ==
    /\ Executing /\ call[k.run] = <<"ipc", o>> /\ k.run \in polled
    /\ k' = LOS_Schedule(OsSchedTaskWait(k, Ipc(o), want[k.run].forever))
    /\ polled' = polled \ {k.run}
    /\ UNCHANGED <<call, tick, ev, want>>

(* What is as in Event. *)
PortOther ==
    /\ \/ EventTaskStep
       \/ \E o \in IpcList :
             \/ LOS_EventInit(o) \/ LOS_EventDestroy(o)
             \/ k.run \notin polled /\ EventReadReturn(o)
             \/ \E mask \in SUBSET Bits : LOS_EventClear(o, mask) \/ LOS_EventWrite(o, mask)
             \/ \E w \in Reads : EventReadNow(o, w)
    /\ polled' = {t \in polled : call'[t][1] = "ipc"}

PortInit == EventInit /\ polled = {}
PortNext ==
    \/ PortOther
    \/ \E o \in IpcList : PortReadWait(o) \/ \E w \in Reads : PortReadPoll(o, w)
PortSpec == PortInit /\ [][PortNext]_portVars

----------------------------------------------------------------------------
(* No event is slept through in this port either. *)
NoEventMissed == NoSleepOnEvent
============================================================================
