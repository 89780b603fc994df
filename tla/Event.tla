------------------------------- MODULE Event --------------------------------
(***************************************************************************)
(* Event flags, kernel/src/los_event.c, over the tasks of module Task.     *)
(* The event control blocks are the elements of IpcList; the list Ipc(o)   *)
(* is stEventList of block o.  A word of event bits is a set of bits.      *)
(***************************************************************************)
EXTENDS Task, FiniteSetsExt, SequencesExt

CONSTANTS
    Bits,       \* the event bits in use
    Reads       \* what LOS_EventRead is asked for: masks, modes, time-outs

VARIABLES
    ev,         \* the EVENT_CB_S of each event
    want        \* eventMask, eventMode and time-out of each task that reads

eventVars == <<k, call, tick, ev, want>>

EventCB == [init : BOOLEAN, id : SUBSET Bits]
Wants   == [mask : SUBSET Bits \ {{}}, all : BOOLEAN, clear : BOOLEAN, forever : BOOLEAN]
ASSUME EventConstants == Reads \subseteq Wants

Nothing == [mask |-> {}, all |-> FALSE, clear |-> FALSE, forever |-> FALSE]

(* What a reader is told, and what it leaves behind. *)
LOS_EventPoll(id, w) ==
    IF w.all THEN IF w.mask \subseteq id THEN w.mask ELSE {}
    ELSE id \cap w.mask
Cleared(id, w) == IF w.clear THEN id \ LOS_EventPoll(id, w) ELSE id

(* The caller never re-initialises a block that tasks wait on. *)
LOS_EventInit(o) ==
    /\ Caller("evinit") /\ k.list[Ipc(o)] = <<>>
    /\ ev' = [ev EXCEPT ![o] = [init |-> TRUE, id |-> {}]]
    /\ UNCHANGED <<k, call, tick, want>>

LOS_EventDestroy(o) ==
    /\ Caller("evdestroy") /\ ev[o].init /\ k.list[Ipc(o)] = <<>>
    /\ ev' = [ev EXCEPT ![o].init = FALSE]
    /\ UNCHANGED <<k, call, tick, want>>

LOS_EventClear(o, mask) ==
    /\ Caller("evclear")
    /\ ev' = [ev EXCEPT ![o].id = @ \cap mask]
    /\ UNCHANGED <<k, call, tick, want>>

(* A read may block unless the scheduler is locked; the boot code has no   *)
(* task that could.                                                        *)
CanBlock == k.taskLock = 0 /\ k.sched

(* LOS_EventRead up to LOS_Schedule: the bits are there, or the reader     *)
(* goes to sleep.                                                          *)
EventReadNow(o, w) ==
    /\ InTask("evread") /\ ev[o].init /\ LOS_EventPoll(ev[o].id, w) # {}
    /\ ev' = [ev EXCEPT ![o].id = Cleared(@, w)]
    /\ UNCHANGED <<k, call, tick, want>>
EventReadWait(o, w) ==
    /\ InTask("evread") /\ ev[o].init /\ LOS_EventPoll(ev[o].id, w) = {} /\ CanBlock
    /\ want' = [want EXCEPT ![k.run] = w]
    /\ GoesOn(k.run, <<"ipc", o>>)
    /\ k' = LOS_Schedule(OsSchedTaskWait(k, Ipc(o), w.forever))
    /\ UNCHANGED <<tick, ev>>

(* A defect: the time-out bit is not cleared. *)
ReadKeepsTimeout(o) ==
    /\ Executing /\ call[k.run] = <<"ipc", o>>
    /\ Returns(k.run)
    /\ want' = [want EXCEPT ![k.run] = Nothing]
    /\ UNCHANGED <<k, tick, ev>>

(* LOS_EventRead after LOS_Schedule: a time-out, or a second poll. *)
EventReadReturn(o) ==
    /\ Executing /\ call[k.run] = <<"ipc", o>>
    /\ k' = ClrStatus(k, k.run, {"TIMEOUT"})
    /\ ev' = IF Has(k, k.run, {"TIMEOUT"}) THEN ev
             ELSE [ev EXCEPT ![o].id = Cleared(@, want[k.run])]
    /\ Returns(k.run)
    /\ want' = [want EXCEPT ![k.run] = Nothing]
    /\ UNCHANGED tick

(* The test LOS_EventWrite makes of each reader: a reader that wants any   *)
(* of its bits is tested against the bits written, one that wants all of   *)
(* them against the bits there are then.                                   *)
Wakes(w, events, id) ==
    IF w.all THEN w.mask \subseteq id ELSE w.mask \cap events # {}

(* Defects: the loop ends at the first reader it woke; every reader is     *)
(* woken.                                                                  *)
WriteWakesOne(o, events) ==
    /\ Caller("evwrite") /\ ev[o].init
    /\ LET id    == ev[o].id \cup events
           woken == SelectSeq(k.list[Ipc(o)], LAMBDA t : Wakes(want[t], events, id))
       IN  /\ ev' = [ev EXCEPT ![o].id = id]
           /\ k' = IF woken = <<>> THEN k
                   ELSE LOS_Schedule(OsSchedTaskWake(k, Head(woken)))
    /\ UNCHANGED <<call, tick, want>>
WriteWakesAll(o, events) ==
    /\ Caller("evwrite") /\ ev[o].init
    /\ ev' = [ev EXCEPT ![o].id = @ \cup events]
    /\ k' = LOS_Schedule(FoldLeft(OsSchedTaskWake, k, k.list[Ipc(o)]))
    /\ UNCHANGED <<call, tick, want>>

LOS_EventWrite(o, events) ==
    /\ Caller("evwrite") /\ ev[o].init
    /\ LET id    == ev[o].id \cup events
           woken == SelectSeq(k.list[Ipc(o)], LAMBDA t : Wakes(want[t], events, id))
       IN  /\ ev' = [ev EXCEPT ![o].id = id]
           /\ k' = IF woken = <<>> THEN k
                   ELSE LOS_Schedule(FoldLeft(OsSchedTaskWake, k, woken))
    /\ UNCHANGED <<call, tick, want>>

----------------------------------------------------------------------------
EventInit ==
    /\ TaskInit
    /\ ev = [o \in IpcList |-> [init |-> FALSE, id |-> {}]]
    /\ want = [t \in Task |-> Nothing]

EventOps ==
    \E o \in IpcList :
        \/ LOS_EventInit(o) \/ LOS_EventDestroy(o)
        \/ EventReadReturn(o)
        \/ \E mask \in SUBSET Bits : LOS_EventClear(o, mask)
        \/ \E events \in SUBSET Bits : LOS_EventWrite(o, events)
        \/ \E w \in Reads : EventReadNow(o, w) \/ EventReadWait(o, w)

(* A step of the task API; a task that is deleted reads no more. *)
EventTaskStep ==
    /\ TaskNext
    /\ want' = [t \in Task |-> IF call'[t][1] = "ipc" THEN want[t] ELSE Nothing]
    /\ UNCHANGED ev

EventNext == EventOps \/ EventTaskStep

EventSpec == EventInit /\ [][EventNext]_eventVars

----------------------------------------------------------------------------
EventTypeOK ==
    /\ TaskTypeOK
    /\ ev \in [IpcList -> EventCB]
    /\ want \in [Task -> Reads \cup {Nothing}]

(* No event is slept through, in whatever order writes, clears and other   *)
(* readers came: the event block of a reader that waits exists, and the    *)
(* bits it waits for are not there.                                        *)
NoSleepOnEvent ==
    \A o \in IpcList : \A t \in OnList(k, Ipc(o)) :
        ev[o].init /\ LOS_EventPoll(ev[o].id, want[t]) = {}

(* A reader leaves the wait list for one reason: a write that gives it its *)
(* bits, its own time-out, or its deletion.                                *)
ReaderLeaves ==
    [][\A o \in IpcList, t \in Task :
          t \in OnList(k, Ipc(o)) /\ t \notin OnList(k', Ipc(o)) =>
              \/ LOS_EventPoll(ev'[o].id, want[t]) # {} /\ ~Has(k', t, {"TIMEOUT"})
              \/ tick /\ ~want[t].forever /\ Has(k', t, {"TIMEOUT"})
              \/ Has(k', t, {"UNUSED", "EXIT"})]_eventVars

(* A task waits on an event inside LOS_EventRead and nowhere else, and     *)
(* LOS_ERRNO_EVENT_READ_TIMEOUT is told once, by the read that ran out.    *)
ReadersInRead ==
    \A t \in Task :
        /\ \A o \in IpcList : t \in OnList(k, Ipc(o)) =>
              call[t] = <<"ipc", o>> /\ want[t] # Nothing /\ ~Has(k, t, {"TIMEOUT"})
        /\ Has(k, t, {"TIMEOUT"}) /\ ~Has(k, t, {"UNUSED", "EXIT"}) =>
              call[t][1] = "ipc" /\ ~want[t].forever
============================================================================
