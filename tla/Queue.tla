------------------------------- MODULE Queue --------------------------------
(***************************************************************************)
(* Message queues and the mail pools on top of them,                       *)
(* kernel/src/los_queue.c, over the tasks of module Task.  A queue q has   *)
(* three wait lists, the elements <<q, "read">>, <<q, "write">> and        *)
(* <<q, "mem">> of IpcList.                                                *)
(*                                                                         *)
(* OsQueueOperate is two actions: up to LOS_Schedule, and what it does     *)
(* when the task runs again.  A task that is woken gets a message, or a    *)
(* slot, that was set aside for it: the counts do not show it.  The locked *)
(* sections of LOS_Membox* are inside those of the mail calls and, by the  *)
(* interrupt contract of module Sched, do not end them.                    *)
(***************************************************************************)
EXTENDS Task, FiniteSetsExt, SequencesExt

CONSTANTS
    Queues,     \* indices of g_allQueue
    Lens,       \* the lengths queues are created with
    Msgs,       \* what is written
    NoMsg,      \* no message
    Forever,    \* waits without limit (TRUE), with a limit (FALSE), or both
    MailNum     \* blocks in the mail pool of each queue

ASSUME QueueConstants ==
    /\ Lens \subseteq Nat \ {0} /\ MailNum \in Nat /\ NoMsg \notin Msgs
    /\ Forever \subseteq BOOLEAN
    /\ IpcList = Queues \X {"read", "write", "mem"}

VARIABLES
    queue,      \* the LosQueueCB of each queue
    freeQueue,  \* g_freeQueueList
    arg,        \* the message, and the end it goes to, of a task that writes
    told,       \* the message a reader was given in the last step
    pool,       \* the free blocks of each mail pool
    msg,        \* taskCB->msg
    held        \* the blocks the application has

mailVars  == <<pool, msg, held>>
ringVars  == <<queue, freeQueue, arg, told>>
queueVars == <<k, call, tick, queue, freeQueue, arg, told, pool, msg, held>>

Block   == Queues \X (1 .. MailNum)
NoBlock == <<"none", 0>>
Ends    == {"head", "tail"}
NoArg   == <<"none", NoMsg>>
Other(rw) == IF rw = "read" THEN "write" ELSE "read"
Cells(n)  == 0 .. (n - 1)

QueueCB(n) == [used : BOOLEAN, len : {n}, head : Cells(n), tail : Cells(n),
               buf : [Cells(n) -> Msgs \cup {NoMsg}],
               cnt : [{"read", "write"} -> 0 .. n]]
Unmade == [used |-> FALSE, len |-> 0, head |-> 0, tail |-> 0, buf |-> <<>>,
           cnt |-> [rw \in {"read", "write"} |-> 0]]

LOS_QueueCreate(n) ==
    /\ Caller("qcreate") /\ freeQueue # <<>>
    /\ queue' = [queue EXCEPT ![Head(freeQueue)] =
                   [used |-> TRUE, len |-> n, head |-> 0, tail |-> 0,
                    buf |-> [i \in Cells(n) |-> NoMsg],
                    cnt |-> [rw \in {"read", "write"} |-> IF rw = "read" THEN 0 ELSE n]]]
    /\ freeQueue' = Tail(freeQueue) /\ told' = NoMsg
    /\ UNCHANGED <<k, call, tick, arg, mailVars>>

(* A defect: the counts are not looked at. *)
DeleteReserved(q) ==
    /\ Caller("qdelete") /\ queue[q].used
    /\ \A l \in {"read", "write", "mem"} : k.list[Ipc(<<q, l>>)] = <<>>
    /\ queue' = [queue EXCEPT ![q].used = FALSE]
    /\ freeQueue' = <<q>> \o freeQueue /\ told' = NoMsg
    /\ UNCHANGED <<k, call, tick, arg, mailVars>>

LOS_QueueDelete(q) ==
    /\ Caller("qdelete") /\ queue[q].used
    /\ \A l \in {"read", "write", "mem"} : k.list[Ipc(<<q, l>>)] = <<>>
    /\ queue[q].cnt["read"] + queue[q].cnt["write"] = queue[q].len
    /\ queue' = [queue EXCEPT ![q].used = FALSE]
    /\ freeQueue' = <<q>> \o freeQueue /\ told' = NoMsg
    /\ UNCHANGED <<k, call, tick, arg, mailVars>>

----------------------------------------------------------------------------
(* Reading and writing *)

After(i, n) == IF i + 1 = n THEN 0 ELSE i + 1
Before(i, n) == IF i = 0 THEN n - 1 ELSE i - 1

(* A defect: a write to the head stores before it moves the head. *)
HeadAfter(c, rw, a) ==
    CASE rw = "read"    -> [c EXCEPT !.head = After(c.head, c.len)]
      [] a[1] = "head"  -> [c EXCEPT !.head = Before(c.head, c.len), !.buf[c.head] = a[2]]
      [] OTHER          -> [c EXCEPT !.tail = After(c.tail, c.len), !.buf[c.tail] = a[2]]

OsQueueBufferOperate(c, rw, a) ==
    CASE rw = "read"    -> [c EXCEPT !.head = After(c.head, c.len)]
      [] a[1] = "head"  -> LET i == Before(c.head, c.len)
                           IN  [c EXCEPT !.head = i, !.buf[i] = a[2]]
      [] OTHER          -> [c EXCEPT !.tail = After(c.tail, c.len), !.buf[c.tail] = a[2]]

(* A defect: the one who waits on the other side is not woken. *)
WakesNobody(s, c, q, rw, a) ==
    /\ queue' = [queue EXCEPT ![q] =
                   [OsQueueBufferOperate(c, rw, a) EXCEPT !.cnt[Other(rw)] = @ + 1]]
    /\ told' = IF rw = "read" THEN c.buf[c.head] ELSE NoMsg
    /\ k' = s

(* The end of OsQueueOperate: c is the queue with the caller's share taken *)
(* off the count, s the scheduler state.                                   *)
OperateAndWake(s, c, q, rw, a) ==
    LET l == s.list[Ipc(<<q, Other(rw)>>)]
        b == OsQueueBufferOperate(c, rw, a)
    IN  /\ queue' = [queue EXCEPT ![q] =
                       IF l = <<>> THEN [b EXCEPT !.cnt[Other(rw)] = @ + 1] ELSE b]
        /\ told' = IF rw = "read" THEN c.buf[c.head] ELSE NoMsg
        /\ k' = IF l = <<>> THEN s ELSE LOS_Schedule(OsSchedTaskWake(s, Head(l)))

(* OsQueueOperate up to LOS_Schedule; interrupt handlers do not wait, and  *)
(* the boot code has no task that could.                                   *)
OsQueueOperate(q, rw, a, forever) ==
    /\ Caller(rw) /\ queue[q].used
    /\ \/ /\ queue[q].cnt[rw] > 0
          /\ OperateAndWake(k, [queue[q] EXCEPT !.cnt[rw] = @ - 1], q, rw, a)
          /\ UNCHANGED <<call, arg>>
       \/ /\ queue[q].cnt[rw] = 0 /\ InTask(rw) /\ k.taskLock = 0 /\ k.sched
          /\ k' = LOS_Schedule(OsSchedTaskWait(k, Ipc(<<q, rw>>), forever))
          /\ GoesOn(k.run, <<"ipc", <<q, rw>>>>)
          /\ arg' = [arg EXCEPT ![k.run] = a]
          /\ told' = NoMsg /\ UNCHANGED queue
    /\ UNCHANGED <<tick, freeQueue, mailVars>>

(* OsQueueOperate after LOS_Schedule. *)
OperateReturn(q, rw) ==
    /\ Executing /\ call[k.run] = <<"ipc", <<q, rw>>>>
    /\ IF Has(k, k.run, {"TIMEOUT"})
       THEN /\ k' = ClrStatus(k, k.run, {"TIMEOUT"})
            /\ told' = NoMsg /\ UNCHANGED queue
       ELSE OperateAndWake(k, queue[q], q, rw, arg[k.run])
    /\ arg' = [arg EXCEPT ![k.run] = NoArg]
    /\ Returns(k.run)
    /\ UNCHANGED <<tick, freeQueue, mailVars>>

----------------------------------------------------------------------------
(* Mail: blocks of a pool, waited for on the third list of a queue         *)

(* OsQueueMailAlloc does not look at g_losTaskLock before it waits. *)
MayWaitForMail == k.taskLock = 0 \/ "mail_locked" \in Unguarded

(* OsQueueMailAlloc up to LOS_Schedule. *)
OsQueueMailAlloc(q, forever) ==
    /\ Caller("mailalloc") /\ queue[q].used
    /\ \/ \E b \in pool[q] : /\ pool' = [pool EXCEPT ![q] = @ \ {b}]
                             /\ held' = held \cup {b}
                             /\ UNCHANGED <<k, call>>
       \/ /\ pool[q] = {} /\ InTask("mailalloc") /\ k.sched /\ MayWaitForMail
          /\ k' = LOS_Schedule(OsSchedTaskWait(k, Ipc(<<q, "mem">>), forever))
          /\ GoesOn(k.run, <<"ipc", <<q, "mem">>>>)
          /\ UNCHANGED <<pool, held>>
    /\ told' = NoMsg /\ UNCHANGED <<tick, queue, freeQueue, arg, msg>>

(* OsQueueMailAlloc after LOS_Schedule. *)
MailAllocReturn(q) ==
    /\ Executing /\ call[k.run] = <<"ipc", <<q, "mem">>>>
    /\ k' = ClrStatus(k, k.run, {"TIMEOUT"})
    /\ IF Has(k, k.run, {"TIMEOUT"}) THEN UNCHANGED <<msg, held>>
       ELSE /\ held' = held \cup ({msg[k.run]} \ {NoBlock})
            /\ msg' = [msg EXCEPT ![k.run] = NoBlock]
    /\ Returns(k.run)
    /\ told' = NoMsg /\ UNCHANGED <<tick, queue, freeQueue, arg, pool>>

(* A defect: the block is handed over and put back as well. *)
FreeTwice(q, b) ==
    /\ Caller("mailfree") /\ b \in held /\ b[1] = q /\ queue[q].used
    /\ held' = held \ {b}
    /\ LET l == k.list[Ipc(<<q, "mem">>)]
       IN  IF l = <<>> THEN UNCHANGED <<k, msg>>
           ELSE /\ msg' = [msg EXCEPT ![Head(l)] = b]
                /\ k' = LOS_Schedule(OsSchedTaskWake(k, Head(l)))
    /\ pool' = [pool EXCEPT ![q] = @ \cup {b}]
    /\ told' = NoMsg /\ UNCHANGED <<call, tick, queue, freeQueue, arg>>

(* A defect: the task is woken without the block. *)
FreeWakesOnly(q, b) ==
    /\ Caller("mailfree") /\ b \in held /\ b[1] = q /\ queue[q].used
    /\ held' = held \ {b}
    /\ pool' = [pool EXCEPT ![q] = @ \cup {b}]
    /\ LET l == k.list[Ipc(<<q, "mem">>)]
       IN  k' = IF l = <<>> THEN k ELSE LOS_Schedule(OsSchedTaskWake(k, Head(l)))
    /\ told' = NoMsg /\ UNCHANGED <<call, tick, queue, freeQueue, arg, msg>>

(* The application gives back a block it has to the queue it had it from. *)
OsQueueMailFree(q, b) ==
    /\ Caller("mailfree") /\ b \in held /\ b[1] = q /\ queue[q].used
    /\ held' = held \ {b}
    /\ LET l == k.list[Ipc(<<q, "mem">>)]
       IN  IF l = <<>>
           THEN /\ pool' = [pool EXCEPT ![q] = @ \cup {b}]
                /\ UNCHANGED <<k, msg>>
           ELSE /\ msg' = [msg EXCEPT ![Head(l)] = b]
                /\ k' = LOS_Schedule(OsSchedTaskWake(k, Head(l)))
                /\ UNCHANGED pool
    /\ told' = NoMsg /\ UNCHANGED <<call, tick, queue, freeQueue, arg>>

----------------------------------------------------------------------------
QueueInit ==
    /\ TaskInit
    /\ queue = [q \in Queues |-> Unmade]
    /\ freeQueue \in {l \in [1 .. Cardinality(Queues) -> Queues] : IsInjective(l)}
    /\ arg = [t \in Task |-> NoArg] /\ told = NoMsg
    /\ pool = [q \in Queues |-> {b \in Block : b[1] = q}]
    /\ msg = [t \in Task |-> NoBlock] /\ held = {}

QueueOps ==
    \/ \E n \in Lens : LOS_QueueCreate(n)
    \/ \E q \in Queues, forever \in Forever :
          \/ OsQueueOperate(q, "read", NoArg, forever)
          \/ \E a \in Ends \X Msgs : OsQueueOperate(q, "write", a, forever)
          \/ OsQueueMailAlloc(q, forever)
    \/ \E q \in Queues :
          \/ LOS_QueueDelete(q) \/ MailAllocReturn(q)
          \/ OperateReturn(q, "read") \/ OperateReturn(q, "write")
          \/ \E b \in Block : OsQueueMailFree(q, b)

(* The task t was woken on list l of queue q and has not run since. *)
Woken(t, q, l) ==
    /\ call[t] = <<"ipc", <<q, l>>>> /\ t \notin OnList(k, Ipc(<<q, l>>))
    /\ ~Has(k, t, {"TIMEOUT"})

(* A step of the task API.  A task that was woken is not deleted before it *)
(* took what was set aside for it; a deleted task writes no more.          *)
QueueTaskStep ==
    /\ TaskNext
    /\ \A t \in Task, q \in Queues, l \in {"read", "write", "mem"} :
          Woken(t, q, l) => call'[t] = call[t] \/ "delete_woken" \in Unguarded
    /\ arg' = [t \in Task |-> IF call'[t][1] = "ipc" THEN arg[t] ELSE NoArg]
    /\ told' = NoMsg /\ UNCHANGED <<queue, freeQueue, mailVars>>

QueueNext == QueueOps \/ QueueTaskStep

QueueSpec == QueueInit /\ [][QueueNext]_queueVars

----------------------------------------------------------------------------
QueueTypeOK ==
    /\ TaskTypeOK
    /\ DOMAIN queue = Queues
    /\ \A q \in Queues : queue[q] = Unmade \/ \E n \in Lens : queue[q] \in QueueCB(n)
    /\ freeQueue \in Seq(Queues)
    /\ arg \in [Task -> (Ends \X Msgs) \cup {NoArg}] /\ told \in Msgs \cup {NoMsg}
    /\ pool \in [Queues -> SUBSET Block] /\ held \subseteq Block
    /\ msg \in [Task -> Block \cup {NoBlock}]

Sleepers(q, l) == Cardinality({t \in Task : Woken(t, q, l)})
Filled(q) == queue[q].cnt["read"] + Sleepers(q, "read")

(* Every slot of a queue is accounted for: it is readable, writable, or    *)
(* set aside for one woken task, and the queue is there when that task     *)
(* runs again.  The readable slots and those of the woken readers are      *)
(* those from queueHead up to queueTail.                                   *)
SlotsAccounted ==
    \A q \in Queues :
        /\ \A t \in Task, l \in {"read", "write"} : Woken(t, q, l) => queue[q].used
        /\ queue[q].used =>
              /\ Filled(q) + queue[q].cnt["write"] + Sleepers(q, "write") = queue[q].len
              /\ queue[q].tail = (queue[q].head + Filled(q)) % queue[q].len

(* Between outermost locked sections nobody sleeps beside what they wait   *)
(* for: readers wait while no message is free to read, writers while no    *)
(* slot is free to fill, and tasks wait for mail while the pool is empty;  *)
(* and the queue exists.                                                   *)
NoSleepBesideItems ==
    \A q \in Queues :
        /\ \A rw \in {"read", "write"} : k.list[Ipc(<<q, rw>>)] # <<>> =>
              queue[q].used /\ queue[q].cnt[rw] = 0
        /\ k.list[Ipc(<<q, "mem">>)] # <<>> => queue[q].used /\ pool[q] = {}

(* LOS_QueueDelete refuses a queue only while tasks are blocked on it, or  *)
(* read or write it: when nobody has a call to the queue under way, the    *)
(* counts add up to its length.                                            *)
DeletableWhenUnused ==
    \A q \in Queues :
        queue[q].used /\ (\A t \in Task, l \in {"read", "write"} :
                             call[t] # <<"ipc", <<q, l>>>>)
        => queue[q].cnt["read"] + queue[q].cnt["write"] = queue[q].len

(* No mail block is lost or given out twice: each is free in its pool, in  *)
(* the hands of the application, or on its way to one task that was woken. *)
MailConserved ==
    \A b \in Block :
        /\ \E q \in Queues : b \in pool[q] \/ b \in held \/ \E t \in Task : msg[t] = b
        /\ b \in pool[b[1]] => b \notin held
        /\ \A t \in Task : msg[t] = b =>
              /\ b \notin pool[b[1]] \cup held /\ Woken(t, b[1], "mem")
              /\ \A u \in Task : msg[u] = b => u = t

(* A task whose OsQueueMailAlloc goes on after its wait, and did not time  *)
(* out, has its block in taskCB->msg.                                      *)
MailReturnHasBlock ==
    \A q \in Queues :
        Executing /\ k.run \in Task /\ call[k.run] = <<"ipc", <<q, "mem">>>>
            /\ ~Has(k, k.run, {"TIMEOUT"}) => msg[k.run] # NoBlock

(* The queues keep the promise of AbsQueue, whatever waits, time-outs and  *)
(* wake-ups come between: messages are read once each, in order, and a     *)
(* full queue is not written.                                              *)
Items(q) ==
    LET c == queue[q]
    IN  IF c.used THEN [i \in 1 .. Filled(q) |-> c.buf[(c.head + i - 1) % c.len]] ELSE <<>>

Abs == INSTANCE AbsQueue WITH
    Queue <- Queues, Msg <- Msgs,
    used <- {q \in Queues : queue[q].used},
    len <- [q \in Queues |-> IF queue[q].used THEN queue[q].len ELSE 0],
    items <- [q \in Queues |-> Items(q)]

QueueRefinesAbs == Abs!Spec
============================================================================
