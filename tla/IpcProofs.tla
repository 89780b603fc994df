------------------------------ MODULE IpcProofs -----------------------------
(***************************************************************************)
(* What the steps of module Task may do to a task that waits on an IPC     *)
(* object, for the modules that compose Task with semaphores, mutexes,     *)
(* events and queues: a wait list of an IPC object only ever loses the     *)
(* task whose wait ran out or that is deleted, in place, and no step but   *)
(* these and the creation of a task changes what an IPC call will find     *)
(* when it goes on.                                                        *)
(***************************************************************************)
EXTENDS SchedProofs

(* Zenon proves the leaves that name no other prover. *)
USE Zenon

(* What a context does when it is not in an IPC call. *)
NotIpc == {None, <<"recycle", 0>>, <<"pop", 0>>}
             \cup {<<op, t>> : op \in {"init", "enqueue", "join"}, t \in Task}

----------------------------------------------------------------------------
(* Deleting a node leaves a list of TCBs. *)
LEMMA UnlinkType ==
    ASSUME NEW q \in Seq(Task), NEW t PROVE Unlink(q, t) \in Seq(Task)
<1>1. CASE \E i \in 1 .. Len(q) : q[i] = t
  <2>1. PICK at \in 1 .. Len(q) :
           Unlink(q, t) = SubSeq(q, 1, at - 1) \o SubSeq(q, at + 1, Len(q))
    BY <1>1 DEF Unlink
  <2>2. SubSeq(q, 1, at - 1) \in Seq(Task) /\ SubSeq(q, at + 1, Len(q)) \in Seq(Task)
    BY SMT
  <2> QED BY SMT, <2>1, <2>2
<1>2. CASE ~\E i \in 1 .. Len(q) : q[i] = t
  BY <1>2 DEF Unlink
<1> QED BY <1>1, <1>2

(* Operations follow one another. *)
LEMMA DropTrans ==
    ASSUME NEW s, NEW a, NEW r, NEW t
    PROVE  /\ Spares(s, a) /\ Spares(a, r) => Spares(s, r)
           /\ Spares(s, a) /\ Drops(a, r, t) => Drops(s, r, t)
           /\ Drops(s, a, t) /\ Spares(a, r) => Drops(s, r, t)
           /\ Spares(s, a) => Drops(s, a, t)
BY DEF Spares, Drops

(* A change that touches no list. *)
LEMMA SpareFields ==
    ASSUME NEW s \in SchedState, NEW t \in Context, NEW b \in SUBSET Status
    PROVE  /\ Spares(s, SetStatus(s, t, b)) /\ Spares(s, ClrStatus(s, t, b))
           /\ Spares(s, [s EXCEPT !.fault = TRUE])
           /\ t \in Task => Spares(s, OsAdd2SortLink(s, t)) /\ Spares(s, OsDeleteSortLink(s, t))
<1>1. SetStatus(s, t, b) \in SchedState /\ SetStatus(s, t, b).list = s.list
  BY DEF SetStatus, SchedState, Context
<1>2. ClrStatus(s, t, b) \in SchedState /\ ClrStatus(s, t, b).list = s.list
  BY DEF ClrStatus, SchedState, Context
<1>3. [s EXCEPT !.fault = TRUE] \in SchedState /\ [s EXCEPT !.fault = TRUE].list = s.list
  BY DEF SchedState
<1>4. ASSUME t \in Task
      PROVE  OsDeleteSortLink(s, t) \in SchedState /\ OsDeleteSortLink(s, t).list = s.list
  BY DEF OsDeleteSortLink, SchedState
<1>5. ASSUME t \in Task
      PROVE  OsAdd2SortLink(s, t) \in SchedState /\ OsAdd2SortLink(s, t).list = s.list
  BY <1>3, <1>5 DEF OsAdd2SortLink, SchedState
<1> QED BY <1>1, <1>2, <1>3, <1>4, <1>5 DEF Spares

(* LOS_ListDelete *)
LEMMA DropDelete ==
    ASSUME NEW s \in SchedState, NEW t \in Task PROVE Drops(s, ListDelete(s, t), t)
<1>1. CASE Linked(s, t)
  <2> DEFINE L == [h \in Head_ |-> Unlink(s.list[h], t)]
  <2>1. L \in [Head_ -> Seq(Task)]
    BY UnlinkType DEF SchedState
  <2>2. \A o \in IpcList : L[Ipc(o)] = Unlink(s.list[Ipc(o)], t)
    BY IpcFacts
  <2>3. ListDelete(s, t) = [s EXCEPT !.list = L]
    BY <1>1 DEF ListDelete
  <2> HIDE DEF L
  <2>4. [s EXCEPT !.list = L] \in SchedState /\ [s EXCEPT !.list = L].list = L
    BY <2>1, WithList DEF SchedState
  <2> QED BY <2>2, <2>3, <2>4 DEF Drops
<1>2. CASE ~Linked(s, t)
  <2>1. ListDelete(s, t) = [s EXCEPT !.fault = TRUE]
    BY <1>2 DEF ListDelete
  <2>2. {} \in SUBSET Status /\ t \in Context
    BY DEF Context
  <2> QED BY <2>1, <2>2, SpareFields, DropTrans
<1> QED BY <1>1, <1>2

(* LOS_ListAdd and LOS_ListTailInsert to another list *)
LEMMA SpareAdd ==
    ASSUME NEW s \in SchedState, NEW t \in Task, NEW h \in Head_,
           \A o \in IpcList : h # Ipc(o),
           NEW r, r = ListAdd(s, h, t) \/ r = ListTailInsert(s, h, t)
    PROVE  Spares(s, r) /\ r.status = s.status /\ r.priority = s.priority
<1>1. /\ s.list \in [Head_ -> Seq(Task)] /\ s.list[h] \in Seq(Task)
      /\ <<t>> \o s.list[h] \in Seq(Task) /\ Append(s.list[h], t) \in Seq(Task)
  BY SMT DEF SchedState
<1>2. PICK q \in Seq(Task) : \E f \in BOOLEAN : r = [s EXCEPT !.list[h] = q, !.fault = f]
  <2>1. s.fault \/ Linked(s, t) \in BOOLEAN
    BY DEF SchedState, Linked
  <2>2. \/ r = [s EXCEPT !.list[h] = <<t>> \o s.list[h], !.fault = s.fault \/ Linked(s, t)]
        \/ r = [s EXCEPT !.list[h] = Append(s.list[h], t), !.fault = s.fault \/ Linked(s, t)]
    BY DEF ListAdd, ListTailInsert
  <2> QED BY <1>1, <2>1, <2>2
<1>3. PICK f \in BOOLEAN : r = [s EXCEPT !.list[h] = q, !.fault = f]
  BY <1>2
<1>4. r \in SchedState /\ r.list = [s.list EXCEPT ![h] = q]
  BY <1>3 DEF SchedState
<1>5. \A o \in IpcList : r.list[Ipc(o)] = s.list[Ipc(o)]
  BY <1>1, <1>4, IpcFacts
<1>6. r.status = s.status /\ r.priority = s.priority
  BY <1>3 DEF SchedState
<1> QED BY <1>4, <1>5, <1>6 DEF Spares

(* OsSchedTaskEnQueue *)
LEMMA SpareEnQueue ==
    ASSUME NEW s \in SchedState, NEW t \in Task, NEW r, r = OsSchedTaskEnQueue(s, t)
    PROVE  Spares(s, r)
<1> DEFINE p == s.priority[t]
           m == MarkQueue(s, p)
           q == IF t = Idle THEN s
                ELSE IF s.slice[t] THEN OsSchedPriQueueEnHead(s, t, p)
                ELSE [OsSchedPriQueueEnTail(s, t, p) EXCEPT !.slice[t] = TRUE]
<1>1. /\ p \in Prio /\ PriQueue(p) \in Head_ /\ \A o \in IpcList : PriQueue(p) # Ipc(o)
      /\ t \in Context /\ {} \in SUBSET Status
  BY HeadFacts, IpcFacts DEF SchedState, Context
<1>2. m \in SchedState /\ m.list = s.list
  BY <1>1 DEF MarkQueue, SchedState
<1>3. \A a : a = ListAdd(m, PriQueue(p), t) \/ a = ListTailInsert(m, PriQueue(p), t) =>
         Spares(m, a)
  BY <1>1, <1>2, SpareAdd
<1>4. Spares(s, m)
  BY <1>2 DEF Spares
<1>5. /\ Spares(s, OsSchedPriQueueEnHead(s, t, p)) /\ Spares(s, OsSchedPriQueueEnTail(s, t, p))
  BY <1>3, <1>4, DropTrans DEF OsSchedPriQueueEnHead, OsSchedPriQueueEnTail
<1> HIDE DEF m, p
<1>6. \A a \in SchedState : /\ [a EXCEPT !.slice[t] = TRUE] \in SchedState
                            /\ [a EXCEPT !.slice[t] = TRUE].list = a.list
  BY DEF SchedState
<1>7. Spares(s, q)
  BY <1>5, <1>6 DEF Spares
<1>8. r = [s EXCEPT !.fault = TRUE]
      \/ r = [q EXCEPT !.status[t] =
                 (@ \ {"PEND", "SUSPEND", "DELAY", "PEND_TIME"}) \cup {"READY"}]
  BY DEF OsSchedTaskEnQueue, p
<1> HIDE DEF q
<1>9. ASSUME r = [q EXCEPT !.status[t] =
                     (@ \ {"PEND", "SUSPEND", "DELAY", "PEND_TIME"}) \cup {"READY"}]
      PROVE  Spares(q, r)
  <2>1. q \in SchedState /\ "READY" \in Status
    BY <1>7 DEF Spares, Status
  <2>2. [q EXCEPT !.status[t] = (@ \ {"PEND", "SUSPEND", "DELAY", "PEND_TIME"}) \cup {"READY"}]
           \in SchedState
    BY <2>1 DEF SchedState
  <2>3. r.list = q.list
    BY <1>9, <2>1 DEF SchedState
  <2> QED BY <1>9, <2>2, <2>3 DEF Spares
<1>10. Spares(s, [s EXCEPT !.fault = TRUE])
  BY <1>1, SpareFields
<1>11. CASE r = [s EXCEPT !.fault = TRUE]
  BY <1>10, <1>11
<1>12. CASE r # [s EXCEPT !.fault = TRUE]
  <2>1. Spares(q, r)
    BY <1>8, <1>9, <1>12
  <2> QED BY <1>7, <2>1, DropTrans
<1> QED BY <1>11, <1>12

(* What the operations do after a task left its list. *)
LEMMA DropThen ==
    ASSUME NEW z, NEW s, NEW t, NEW u \in Task, NEW b \in SUBSET Status, Drops(z, s, t)
    PROVE  /\ Drops(z, SetStatus(s, u, b), t) /\ Drops(z, ClrStatus(s, u, b), t)
           /\ Drops(z, OsDeleteSortLink(s, u), t) /\ Drops(z, OsSchedTaskEnQueue(s, u), t)
<1>1. s \in SchedState /\ u \in Context
  BY DEF Drops, Context
<1>2. /\ Spares(s, SetStatus(s, u, b)) /\ Spares(s, ClrStatus(s, u, b))
      /\ Spares(s, OsDeleteSortLink(s, u))
  BY <1>1, SpareFields
<1>3. Spares(s, OsSchedTaskEnQueue(s, u))
  BY <1>1, SpareEnQueue
<1> QED BY <1>2, <1>3, DropTrans

(* OsSchedTaskDeQueue *)
LEMMA DropDeQueue ==
    ASSUME NEW s \in SchedState, NEW t \in Task, NEW r, r = OsSchedTaskDeQueue(s, t)
    PROVE  Drops(s, r, t)
<1> DEFINE d == ListDelete(s, t)
           q == OsSchedPriQueueDelete(s, t, s.priority[t])
<1>1. Drops(s, d, t) /\ t \in Context /\ {"READY"} \in SUBSET Status
  BY DropDelete DEF Context, Status
<1>2. Drops(s, q, t)
  <2>1. PICK B \in SUBSET Prio : q = [d EXCEPT !.bitmap = B]
    <3>1. d.bitmap \in SUBSET Prio /\ d.bitmap \ {s.priority[t]} \in SUBSET Prio
      BY <1>1 DEF Drops, SchedState
    <3> QED BY <3>1 DEF OsSchedPriQueueDelete
  <2>2. d \in SchedState
    BY <1>1 DEF Drops
  <2> HIDE DEF d, q
  <2>3. q \in SchedState /\ q.list = d.list
    BY <2>1, <2>2 DEF SchedState
  <2> QED BY <1>1, <2>3 DEF Drops
<1>3. Drops(s, s, t)
  BY DEF Drops
<1>4. r = s \/ r = ClrStatus(s, t, {"READY"}) \/ r = ClrStatus(q, t, {"READY"})
  BY DEF OsSchedTaskDeQueue
<1> HIDE DEF q, d
<1> QED BY <1>1, <1>2, <1>3, <1>4, DropThen

(* OsSchedTaskWake *)
LEMMA DropWake ==
    ASSUME NEW s \in SchedState, NEW t \in Task, NEW r, r = OsSchedTaskWake(s, t)
    PROVE  Drops(s, r, t)
<1> DEFINE d == ListDelete(s, t)
           a == ClrStatus(d, t, {"PEND"})
           x == OsDeleteSortLink(a, t)
           b == IF Has(a, t, {"PEND_TIME"}) THEN ClrStatus(x, t, {"PEND_TIME"}) ELSE a
<1>1. /\ t \in Context /\ {"PEND"} \in SUBSET Status /\ {"PEND_TIME"} \in SUBSET Status
      /\ Drops(s, d, t)
  BY DropDelete DEF Context, Status
<1>2. r = b \/ r = OsSchedTaskEnQueue(b, t)
  BY DEF OsSchedTaskWake
<1> HIDE DEF d
<1>3. Drops(s, a, t)
  BY <1>1, DropThen
<1> HIDE DEF a
<1>4. Drops(s, x, t)
  BY <1>1, <1>3, DropThen
<1> HIDE DEF x
<1>5. Drops(s, b, t)
  BY <1>1, <1>3, <1>4, DropThen
<1> HIDE DEF b
<1> QED BY <1>1, <1>2, <1>5, DropThen

(* OsSchedScanTimerList for one node *)
LEMMA DropExpire ==
    ASSUME NEW s \in SchedState, NEW t \in Task, NEW r, r = OsSchedWakePendTimeTask(s, t)
    PROVE  Drops(s, r, t)
<1> DEFINE a == OsDeleteSortLink(s, t)
           b == ClrStatus(a, t, {"PEND", "PEND_TIME", "DELAY"})
           d == ListDelete(b, t)
           c == IF Has(s, t, {"PEND"}) THEN SetStatus(d, t, {"TIMEOUT"}) ELSE b
<1>1. /\ t \in Context /\ {"PEND", "PEND_TIME", "DELAY"} \in SUBSET Status
      /\ {"TIMEOUT"} \in SUBSET Status
  BY DEF Context, Status
<1>2. r = a \/ r = c \/ r = OsSchedTaskEnQueue(c, t)
  BY DEF OsSchedWakePendTimeTask
<1>3. Spares(s, a)
  BY <1>1, SpareFields
<1> HIDE DEF a
<1>4. Spares(s, b) /\ b \in SchedState
  <2>1. a \in SchedState
    BY <1>3 DEF Spares
  <2>2. Spares(a, b)
    BY <1>1, <2>1, SpareFields
  <2>3. Spares(s, b)
    BY <1>3, <2>2, DropTrans
  <2> QED BY <2>3 DEF Spares
<1> HIDE DEF b
<1>5. Drops(s, d, t)
  <2>1. Drops(b, d, t)
    BY <1>4, DropDelete
  <2> QED BY <1>4, <2>1, DropTrans
<1> HIDE DEF d
<1>6. Drops(s, a, t) /\ Drops(s, b, t)
  BY <1>3, <1>4, DropTrans
<1>7. Drops(s, c, t)
  BY <1>1, <1>5, <1>6, DropThen
<1> HIDE DEF c
<1> QED BY <1>1, <1>2, <1>6, <1>7, DropThen

(* OsSchedSuspend, OsSchedResume and OsSchedModifyTaskSchedParam *)
LEMMA DropParam ==
    ASSUME NEW s \in SchedState, NEW t \in Task, NEW p \in Prio, NEW r,
           \/ r = OsSchedSuspend(s, t) \/ r = OsSchedResume(s, t)
           \/ r = OsSchedModifyTaskSchedParam(s, t, p)
    PROVE  Drops(s, r, t)
<1> DEFINE d == OsSchedTaskDeQueue(s, t)
<1>1. {"SUSPEND"} \in SUBSET Status /\ Drops(s, s, t) /\ Drops(s, d, t)
  BY DropDeQueue DEF Drops, Status
<1>2. ASSUME NEW a, Drops(s, a, t) PROVE Drops(s, [a EXCEPT !.priority[t] = p], t)
  <2>1. a \in SchedState
    BY <1>2 DEF Drops
  <2>2. /\ [a EXCEPT !.priority[t] = p] \in SchedState
        /\ [a EXCEPT !.priority[t] = p].list = a.list
    BY <2>1 DEF SchedState
  <2> QED BY <1>2, <2>2 DEF Drops
<1>3. CASE r = OsSchedSuspend(s, t)
  BY <1>1, <1>3, DropThen DEF OsSchedSuspend
<1>4. CASE r = OsSchedResume(s, t)
  <2> DEFINE a == ClrStatus(s, t, {"SUSPEND"})
  <2>1. r = a \/ r = OsSchedTaskEnQueue(a, t)
    BY <1>4 DEF OsSchedResume
  <2>2. Drops(s, a, t)
    BY <1>1, DropThen
  <2> HIDE DEF a
  <2> QED BY <1>1, <2>1, <2>2, DropThen
<1>5. CASE r = OsSchedModifyTaskSchedParam(s, t, p)
  <2> DEFINE a == [d EXCEPT !.priority[t] = p]
  <2>1. r = [s EXCEPT !.priority[t] = p] \/ r = OsSchedTaskEnQueue(a, t)
    BY <1>5 DEF OsSchedModifyTaskSchedParam
  <2>2. Drops(s, a, t) /\ Drops(s, [s EXCEPT !.priority[t] = p], t)
    BY <1>1, <1>2
  <2> HIDE DEF a
  <2> QED BY <1>1, <2>1, <2>2, DropThen
<1> QED BY <1>3, <1>4, <1>5

(* OsSchedTaskExit *)
LEMMA DropExit ==
    ASSUME NEW s \in SchedState, NEW t \in Task, NEW r, r = OsSchedTaskExit(s, t)
    PROVE  Drops(s, r, t)
<1> DEFINE d == ListDelete(s, t)
           a == IF Has(s, t, {"READY"}) THEN OsSchedTaskDeQueue(s, t)
                ELSE IF Has(s, t, {"PEND"}) THEN ClrStatus(d, t, {"PEND"}) ELSE s
           x == OsDeleteSortLink(a, t)
           b == IF Has(a, t, {"DELAY", "PEND_TIME"})
                THEN ClrStatus(x, t, {"DELAY", "PEND_TIME"}) ELSE a
<1>1. /\ {"PEND"} \in SUBSET Status /\ {"DELAY", "PEND_TIME"} \in SUBSET Status
      /\ {"EXIT"} \in SUBSET Status /\ Drops(s, s, t) /\ Drops(s, d, t)
  BY DropDelete DEF Drops, Status
<1>2. r = SetStatus(b, t, {"EXIT"})
  BY DEF OsSchedTaskExit
<1> HIDE DEF d
<1>3. Drops(s, a, t)
  BY <1>1, DropThen, DropDeQueue
<1> HIDE DEF a
<1>4. Drops(s, x, t)
  BY <1>1, <1>3, DropThen
<1> HIDE DEF x
<1>5. Drops(s, b, t)
  BY <1>1, <1>3, <1>4, DropThen
<1> HIDE DEF b
<1> QED BY <1>1, <1>2, <1>5, DropThen

(* LOS_Schedule, and a charge on a slice *)
LEMMA SpareSchedule ==
    ASSUME NEW s \in SchedState
    PROVE  /\ Spares(s, LOS_Schedule(s)) /\ LOS_Schedule(s).status = s.status
           /\ \A n \in Nat : Spares(s, [s EXCEPT !.taskLock = n])
<1>1. /\ LOS_Schedule(s) \in SchedState /\ LOS_Schedule(s).list = s.list
      /\ LOS_Schedule(s).status = s.status
  <2>1. /\ [s EXCEPT !.switch = TRUE] \in SchedState
        /\ [s EXCEPT !.switch = TRUE].list = s.list
        /\ [s EXCEPT !.switch = TRUE].status = s.status
    BY DEF SchedState
  <2> QED BY <2>1 DEF LOS_Schedule
<1>2. \A n \in Nat : /\ [s EXCEPT !.taskLock = n] \in SchedState
                     /\ [s EXCEPT !.taskLock = n].list = s.list
  BY DEF SchedState
<1> QED BY <1>1, <1>2 DEF Spares

(* OsInsertTCBToFreeList and OsRecycleTaskResources *)
LEMMA SpareFree ==
    ASSUME NEW s \in SchedState, NEW t \in Task
    PROVE  /\ Spares(s, OsInsertTCBToFreeList(s, t))
           /\ Spares(s, OsRecycleTaskResources(s, t))
           /\ OsInsertTCBToFreeList(s, t).status = [s.status EXCEPT ![t] = {"UNUSED"}]
           /\ "JOINABLE" \notin s.status[t] =>
                 OsRecycleTaskResources(s, t).status = [s.status EXCEPT ![t] = {"UNUSED"}]
<1>1. ASSUME NEW z \in SchedState
      PROVE  /\ Spares(z, OsInsertTCBToFreeList(z, t))
             /\ OsInsertTCBToFreeList(z, t).status = [z.status EXCEPT ![t] = {"UNUSED"}]
  <2>1. PICK a : a = [z EXCEPT !.status[t] = {"UNUSED"}, !.priority[t] = 0, !.slice[t] = FALSE,
                               !.fault = @ \/ t \in z.sortLink \/ z.list[JoinList(t)] # <<>>]
    OBVIOUS
  <2>2. PICK f \in BOOLEAN :
           a = [z EXCEPT !.status[t] = {"UNUSED"}, !.priority[t] = 0, !.slice[t] = FALSE,
                         !.fault = f]
    <3>1. (z.fault \/ t \in z.sortLink \/ z.list[JoinList(t)] # <<>>) \in BOOLEAN
      BY DEF SchedState
    <3> QED BY <2>1, <3>1
  <2>3. 0 \in Prio
    BY SMT, SchedConstants DEF Prio
  <2>4. a \in SchedState /\ a.list = z.list
    BY <2>2, <2>3 DEF SchedState, Status
  <2>5. a.status = [z.status EXCEPT ![t] = {"UNUSED"}]
    BY <2>2 DEF SchedState
  <2>6. /\ Spares(a, ListAdd(a, FreeTask, t)) /\ ListAdd(a, FreeTask, t).status = a.status
    BY SMT, <2>4, SpareAdd, HeadFacts, IpcFacts
  <2>7. Spares(z, a)
    BY <2>4 DEF Spares
  <2>8. OsInsertTCBToFreeList(z, t) = ListAdd(a, FreeTask, t)
    BY <2>1 DEF OsInsertTCBToFreeList
  <2>9. Spares(z, ListAdd(a, FreeTask, t))
    BY <2>6, <2>7, DropTrans
  <2> QED BY <2>5, <2>6, <2>8, <2>9
<1>2. PICK a : a = ClrStatus(s, t, {"STACK_FREE"})
  OBVIOUS
<1>3. Spares(s, a) /\ a.status = [s.status EXCEPT ![t] = @ \ {"STACK_FREE"}]
  <2>1. Spares(s, a)
    BY <1>2, SpareFields DEF Status, Context
  <2>2. a.status = [s.status EXCEPT ![t] = @ \ {"STACK_FREE"}]
    BY <1>2 DEF ClrStatus, SchedState
  <2> QED BY <2>1, <2>2
<1>4. /\ Spares(a, OsInsertTCBToFreeList(a, t))
      /\ OsInsertTCBToFreeList(a, t).status = [a.status EXCEPT ![t] = {"UNUSED"}]
  BY <1>1, <1>3 DEF Spares
<1>5. /\ OsRecycleTaskResources(s, t) = a
         \/ OsRecycleTaskResources(s, t) = OsInsertTCBToFreeList(a, t)
      /\ "JOINABLE" \notin s.status[t] =>
            OsRecycleTaskResources(s, t) = OsInsertTCBToFreeList(a, t)
  BY <1>2 DEF OsRecycleTaskResources, Has
<1>6. Spares(s, OsInsertTCBToFreeList(a, t))
  BY <1>3, <1>4, DropTrans
<1>7. Spares(s, OsRecycleTaskResources(s, t))
  BY <1>3, <1>5, <1>6
<1>8. [a.status EXCEPT ![t] = {"UNUSED"}] = [s.status EXCEPT ![t] = {"UNUSED"}]
  BY <1>3 DEF SchedState
<1> QED BY <1>1, <1>4, <1>5, <1>7, <1>8

(* One round of OsRecycleFinishedTask *)
LEMMA DropRecycle ==
    ASSUME NEW s \in SchedState, NEW t \in Task, t = Head(s.list[RecycleList])
    PROVE  /\ Drops(s, RecycleFirst(s), t)
           /\ "JOINABLE" \notin s.status[t] =>
                 RecycleFirst(s).status = [s.status EXCEPT ![t] = {"UNUSED"}]
<1>1. PICK a : a = ListDelete(s, t)
  OBVIOUS
<1>2. Drops(s, a, t) /\ a.status = s.status
  BY <1>1, DropDelete DEF ListDelete, SchedState
<1>3. /\ Spares(a, OsRecycleTaskResources(a, t))
      /\ "JOINABLE" \notin a.status[t] =>
            OsRecycleTaskResources(a, t).status = [a.status EXCEPT ![t] = {"UNUSED"}]
  BY <1>2, SpareFree DEF Drops
<1>4. RecycleFirst(s) = OsRecycleTaskResources(a, t)
  BY <1>1 DEF RecycleFirst
<1>5. Drops(s, OsRecycleTaskResources(a, t), t)
  BY <1>2, <1>3, DropTrans
<1> QED BY <1>2, <1>3, <1>4, <1>5

(* LOS_TaskDelete: the task that joins t, if any, leaves the joinList of t *)
(* and no list of an IPC object.                                           *)
LEMMA DropTaskDelete ==
    ASSUME NEW s, Core(s), NEW t \in Task \ {Idle}, NEW r, r = LOS_TaskDelete(s, t)
    PROVE  Drops(s, r, t)
<1>1. s \in SchedState /\ ListsDisjoint(s) /\ s.list \in [Head_ -> Seq(Task)]
  BY DEF Core, Base, SchedState
<1>2. PICK a : a = IF Has(s, t, {"RUNNING"}) THEN [s EXCEPT !.taskLock = 0] ELSE s
  OBVIOUS
<1>3. PICK p : p = OsTaskJoinPostUnsafe(a, t)
  OBVIOUS
<1>4. PICK b : b = OsSchedTaskExit(p, t)
  OBVIOUS
<1>5. PICK u : u = SetStatus(b, t, {"UNUSED"})
  OBVIOUS
<1>6. PICK i : i = ListTailInsert(u, RecycleList, t)
  OBVIOUS
<1>7. PICK e : e = [i EXCEPT !.run = Shadow, !.status[Shadow] = u.status[t] \cup {"RUNNING"}]
  OBVIOUS
<1>8. \/ r = LOS_Schedule(b) \/ r = LOS_Schedule(e) \/ r = OsRecycleTaskResources(b, t)
  BY <1>2, <1>3, <1>4, <1>5, <1>6, <1>7 DEF LOS_TaskDelete, OsRunningTaskDelete
<1>9. Spares(s, a) /\ a.list = s.list
  <2>1. Spares(s, s) /\ Spares(s, [s EXCEPT !.taskLock = 0])
    BY <1>1, SpareSchedule DEF Spares
  <2>2. [s EXCEPT !.taskLock = 0].list = s.list
    BY <1>1 DEF SchedState
  <2> QED BY <1>2, <2>1, <2>2
<1>10. Spares(s, p)
  <2>1. CASE p = a
    BY <1>9, <2>1
  <2>2. CASE p # a
    <3>1. a.list[JoinList(t)] # <<>>
      BY <1>3, <2>2 DEF OsTaskJoinPostUnsafe
    <3>2. PICK h : h = Head(a.list[JoinList(t)])
      OBVIOUS
    <3>3. p = OsSchedTaskWake(a, h)
      BY <1>3, <2>2, <3>2 DEF OsTaskJoinPostUnsafe
    <3>4. JoinList(t) \in Head_ /\ \A o \in IpcList : Ipc(o) \in Head_ /\ Ipc(o) # JoinList(t)
      BY HeadFacts, IpcFacts
    <3>5. h \in Task /\ h \in Range(s.list[JoinList(t)])
      BY <1>1, <1>9, <3>1, <3>2, <3>4, HeadProps
    <3>6. \A o \in IpcList : h \notin Range(s.list[Ipc(o)])
      BY <1>1, <3>4, <3>5 DEF ListsDisjoint, OnList
    <3>7. Drops(a, p, h)
      BY <1>9, <3>3, <3>5, DropWake DEF Spares
    <3>8. \A o \in IpcList : Unlink(a.list[Ipc(o)], h) = s.list[Ipc(o)]
      BY <1>1, <1>9, <3>4, <3>6, UnlinkAbsent
    <3> QED BY <1>9, <3>7, <3>8 DEF Drops, Spares
  <2> QED BY <2>1, <2>2
<1>11. Drops(s, b, t)
  <2>1. p \in SchedState
    BY <1>10 DEF Spares
  <2>2. Drops(p, b, t)
    BY <1>4, <2>1, DropExit
  <2> QED BY <1>10, <2>2, DropTrans
<1>12. b \in SchedState
  BY <1>11 DEF Drops
<1>13. Spares(b, e)
  <2>1. Spares(b, u)
    BY <1>5, <1>12, SpareFields DEF Status, Context
  <2>2. u \in SchedState
    BY <2>1 DEF Spares
  <2>3. Spares(u, i)
    BY <1>6, <2>2, SpareAdd, HeadFacts, IpcFacts
  <2>4. i \in SchedState
    BY <2>3 DEF Spares
  <2>5. PICK X \in SUBSET Status : e = [i EXCEPT !.run = Shadow, !.status[Shadow] = X]
    <3>1. u.status[t] \cup {"RUNNING"} \in SUBSET Status
      BY <2>2 DEF SchedState, Status
    <3> QED BY <1>7, <3>1
  <2>6. e \in SchedState /\ e.list = i.list
    BY <2>4, <2>5 DEF SchedState
  <2>7. Spares(i, e)
    BY <2>6 DEF Spares
  <2> QED BY <2>1, <2>3, <2>7, DropTrans
<1>14. e \in SchedState /\ Drops(s, e, t)
  BY <1>11, <1>13, DropTrans DEF Spares
<1>15. CASE r = LOS_Schedule(b)
  BY <1>11, <1>12, <1>15, SpareSchedule, DropTrans
<1>16. CASE r = LOS_Schedule(e)
  BY <1>14, <1>16, SpareSchedule, DropTrans
<1>17. CASE r = OsRecycleTaskResources(b, t)
  BY <1>11, <1>12, <1>17, SpareFree, DropTrans
<1> QED BY <1>8, <1>15, <1>16, <1>17

(* A task that keeps its wait list leaves all lists as they are. *)
LEMMA ListsSame ==
    ASSUME NEW s, Core(s), NEW r, NEW t \in Task, Drops(s, r, t),
           \A o \in IpcList : On(s, t, Ipc(o)) => On(r, t, Ipc(o))
    PROVE  Spares(s, r)
<1>1. ASSUME NEW o \in IpcList PROVE r.list[Ipc(o)] = s.list[Ipc(o)]
  <2>1. Ipc(o) \in Head_ /\ s.list[Ipc(o)] \in Seq(Task) /\ IsInjective(s.list[Ipc(o)])
    BY IpcFacts DEF Core, Base, SchedState, ListsDisjoint
  <2>2. CASE On(s, t, Ipc(o))
    <3>1. t \in Range(r.list[Ipc(o)])
      BY <2>2 DEF On, OnList
    <3>2. t \notin Range(Unlink(s.list[Ipc(o)], t))
      BY <2>1, UnlinkProps
    <3> QED BY <3>1, <3>2 DEF Drops
  <2>3. CASE ~On(s, t, Ipc(o))
    <3>1. Unlink(s.list[Ipc(o)], t) = s.list[Ipc(o)]
      BY <2>1, <2>3, UnlinkAbsent DEF On, OnList
    <3> QED BY <3>1 DEF Drops
  <2> QED BY <2>2, <2>3
<1> QED BY <1>1 DEF Spares, Drops

(* A task that is on none afterwards left the one it was on. *)
LEMMA ListsDrop ==
    ASSUME NEW s, Core(s), NEW r, NEW t \in Task, Drops(s, r, t),
           \A o \in IpcList : ~On(r, t, Ipc(o))
    PROVE  \A o \in IpcList : r.list[Ipc(o)] = Unlink(s.list[Ipc(o)], t)
<1> SUFFICES ASSUME NEW o \in IpcList, r.list[Ipc(o)] = s.list[Ipc(o)]
             PROVE  Unlink(s.list[Ipc(o)], t) = s.list[Ipc(o)]
  BY DEF Drops
<1>1. Ipc(o) \in Head_ /\ s.list[Ipc(o)] \in Seq(Task)
  BY IpcFacts DEF Core, Base, SchedState
<1>2. t \notin Range(s.list[Ipc(o)])
  BY DEF On, OnList
<1> QED BY <1>1, <1>2, UnlinkAbsent

----------------------------------------------------------------------------

(* A step that touches the task t only, and then asks for a switch or not. *)
LEMMA CalmOne ==
    ASSUME NEW s, Core(s), NEW a, NEW t \in Task, Drops(s, a, t),
           \A u \in Task : u # t => a.status[u] = s.status[u],
           \A o \in IpcList : On(s, t, Ipc(o)) => On(a, t, Ipc(o)),
           Living(a, t) <=> Living(s, t), Late(a, t) => Late(s, t),
           NEW C, NEW D, IsIpc(C[t]) /\ Late(s, t) => Late(a, t),
           \A u \in Task : CallKept(C, D, u), NEW r, r = a \/ r = LOS_Schedule(a)
    PROVE  Calm(s, r, C, D)
<1>1. Spares(s, a) /\ a \in SchedState
  BY ListsSame DEF Drops
<1>2. Spares(a, r) /\ r.status = a.status
  <2>1. Spares(a, a)
    BY <1>1 DEF Spares
  <2> QED BY <1>1, <2>1, SpareSchedule
<1>3. Spares(s, r)
  BY <1>1, <1>2, DropTrans
<1>4. ASSUME NEW u \in Task PROVE Spared(s, r, C, D, u)
  <2>1. CASE u = t
    BY <1>2, <2>1 DEF Spared, Living, Late
  <2>2. CASE u # t
    BY <1>2, <2>2 DEF Spared, Living, Late
  <2> QED BY <2>1, <2>2
<1> QED BY <1>3, <1>4 DEF Calm, AllSpared

(* A step that touches no task and no list. *)
LEMMA CalmNone ==
    ASSUME NEW s, NEW r \in SchedState, r.status = s.status, r.list = s.list,
           NEW C, NEW D, \A u \in Task : CallKept(C, D, u)
    PROVE  Calm(s, r, C, D)
BY DEF Calm, AllSpared, Spares, Spared, Living, Late

(* Calls that are not IPC calls may go on, begin and end. *)
LEMMA CallsKept ==
    ASSUME call \in [Context -> CallStates]
    PROVE  /\ NoCallChange => \A u \in Context : CallKept(call, call', u)
           /\ \A c \in Context, v \in NotIpc : GoesOn(c, v) /\ call[c] \in NotIpc =>
                 \A u \in Context : CallKept(call, call', u)
           /\ \A u \in Task : u \in Context
           /\ Shadow \in Context
<1>1. \A v \in NotIpc : ~IsIpc(v)
  BY SMT DEF NotIpc, IsIpc, None
<1>2. NoCallChange => \A u \in Context : CallKept(call, call', u)
  BY DEF NoCallChange, CallKept
<1>3. ASSUME NEW c \in Context, NEW v \in NotIpc, GoesOn(c, v), call[c] \in NotIpc,
             NEW u \in Context
      PROVE  CallKept(call, call', u)
  <2>1. CASE u = c
    BY <1>1, <1>3, <2>1 DEF GoesOn, CallKept
  <2>2. CASE u # c
    BY <1>3, <2>2 DEF GoesOn, CallKept
  <2> QED BY <2>1, <2>2
<1> QED BY <1>2, <1>3 DEF Context

(* From the effect on the kernel to that on the IPC objects. *)
LEMMA CalmStep ==
    ASSUME \A u \in Context : CallKept(call, call', u),
           (\A u \in Task : CallKept(call, call', u)) => Calm(k, k', call, call')
    PROVE  IpcStep(k, k', call, call')
BY DEF IpcStep, Context

(* OsNewTaskInit keeps the lists. *)
LEMMA SpareNew ==
    ASSUME NEW s \in SchedState, NEW t \in Task, NEW p \in Prio,
           NEW attr \in SUBSET {"JOINABLE", "STACK_FREE"}, NEW r, r = OsNewTaskInit(s, t, p, attr)
    PROVE  Spares(s, r)
<1>1. r \in SchedState /\ r.list = s.list
  BY DEF OsNewTaskInit, SchedState, Status
<1> QED BY <1>1 DEF Spares

----------------------------------------------------------------------------
(* The steps of module Task *)

(* LeaveRun queues the task that ran or starts its time-out. *)
LEMMA SpareLeave ==
    ASSUME NEW s, Core(s), NEW b, b = LeaveRun(s, s.run)
    PROVE  Spares(s, b)
<1>1. s \in SchedState /\ s.run \in Task \cup {Shadow} /\ ShadowOK(s) /\ Spares(s, s)
  BY DEF Core, Base, SchedState, Spares
<1>2. CASE s.run = Shadow
  <2>1. b = s
    BY <1>1, <1>2 DEF LeaveRun, ShadowOK, Has
  <2> QED BY <1>1, <2>1
<1>3. CASE s.run \in Task
  <2>1. s.run \in Context /\ {} \in SUBSET Status
    BY <1>3 DEF Context
  <2>2. Spares(s, OsAdd2SortLink(s, s.run))
    BY <1>1, <1>3, <2>1, SpareFields
  <2>3. Spares(s, OsSchedTaskEnQueue(s, s.run))
    BY <1>1, <1>3, SpareEnQueue
  <2> QED BY <1>1, <2>2, <2>3 DEF LeaveRun
<1> QED BY <1>1, <1>2, <1>3

(* OsSchedTaskSwitch takes the next task off its ready queue. *)
LEMMA DropSwitch ==
    ASSUME HasLeast, NEW s, Core(s), NEW spent \in BOOLEAN, NEW r, r = OsSchedTaskSwitch(s, spent)
    PROVE  r.run \in Task /\ Drops(s, r, r.run)
<1>1. Core(r) /\ r.run \in Task
  BY SwitchCore DEF Switched
<1>2. PICK a : a = OsTimeSliceUpdate(s, spent)
  OBVIOUS
<1>3. PICK b : b = LeaveRun(a, s.run)
  OBVIOUS
<1>4. PICK n : n = OsGetTopTask(b)
  OBVIOUS
<1>5. PICK x : x = ClrStatus(b, s.run, {"RUNNING"})
  OBVIOUS
<1>6. PICK c : c = IF s.run = n THEN b ELSE SetStatus(x, n, {"RUNNING"})
  OBVIOUS
<1>7. PICK d : d = OsSchedTaskDeQueue(c, n)
  OBVIOUS
<1>8. r = WithRun(d, n)
  BY <1>2, <1>3, <1>4, <1>5, <1>6, <1>7, SwitchIs
<1>9. Core(a) /\ SameButSwitch(s, a)
  BY <1>2, SliceCore
<1>10. a \in SchedState /\ a.list = s.list /\ a.run = s.run /\ s.run \in Context
  BY <1>9 DEF Core, Base, SameButSwitch, SchedState, Context
<1>11. Spares(s, b)
  <2>1. Spares(a, b)
    BY <1>3, <1>9, <1>10, SpareLeave
  <2> QED BY <1>10, <2>1 DEF Spares
<1>12. n = r.run
  BY SMT, <1>8 DEF WithRun
<1>13. Spares(s, c)
  <2>1. {"RUNNING"} \in SUBSET Status /\ n \in Context
    BY <1>1, <1>12 DEF Status, Context
  <2>2. Spares(s, x)
    <3>1. b \in SchedState
      BY <1>11 DEF Spares
    <3>2. Spares(b, x)
      BY <1>5, <1>10, <2>1, <3>1, SpareFields
    <3> QED BY <1>11, <3>2, DropTrans
  <2>3. Spares(s, SetStatus(x, n, {"RUNNING"}))
    BY <2>1, <2>2, SpareFields, DropTrans DEF Spares
  <2> QED BY <1>6, <1>11, <2>3
<1>14. Drops(s, d, n)
  <2>1. c \in SchedState /\ n \in Task
    BY <1>1, <1>12, <1>13 DEF Spares
  <2>2. Drops(c, d, n)
    BY <1>7, <2>1, DropDeQueue
  <2> QED BY <1>13, <2>2, DropTrans
<1>15. r \in SchedState /\ r.list = d.list
  <2>1. d \in SchedState /\ n \in Task
    BY <1>1, <1>12, <1>14 DEF Drops
  <2> QED BY <1>8, <2>1 DEF WithRun, SchedState
<1> QED BY <1>1, <1>12, <1>14, <1>15 DEF Drops

(* LOS_Start does the same for the first task. *)
LEMMA DropStart ==
    ASSUME HasLeast, NEW s, Core(s), s.run = Shadow, NEW r, r = StartToRun(s)
    PROVE  r.run \in Task /\ Drops(s, r, r.run)
<1>1. Core(r) /\ r.run \in Task
  BY StartCore DEF Started
<1>2. PICK n : n = OsGetTopTask(s)
  OBVIOUS
<1>3. PICK c : c = SetStatus(s, n, {"RUNNING"})
  OBVIOUS
<1>4. PICK d : d = OsSchedTaskDeQueue(c, n)
  OBVIOUS
<1>5. PICK e : e = [d EXCEPT !.run = n, !.sched = TRUE]
  OBVIOUS
<1>6. r = [e EXCEPT !.status[e.run] = {"RUNNING"}]
  BY <1>2, <1>3, <1>4, <1>5 DEF StartToRun, OsSchedStart
<1>7. s \in SchedState /\ n \in Task
  BY <1>2, CoreQueued, TopTask, TaskFacts DEF Core, Base
<1>8. Spares(s, c)
  BY <1>3, <1>7, SpareFields DEF Status, Context
<1>9. Drops(s, d, n)
  <2>1. c \in SchedState
    BY <1>8 DEF Spares
  <2>2. Drops(c, d, n)
    BY <1>4, <1>7, <2>1, DropDeQueue
  <2> QED BY <1>8, <2>2, DropTrans
<1>10. e \in SchedState /\ e.list = d.list /\ e.run = n
  <2>1. d \in SchedState
    BY <1>9 DEF Drops
  <2> QED BY <1>5, <1>7, <2>1 DEF SchedState
<1>11. r \in SchedState /\ r.list = e.list /\ r.run = n
  <2>1. PICK X \in SUBSET Status : r = [e EXCEPT !.status[n] = X]
    BY <1>6, <1>10 DEF Status
  <2>2. e.status \in [Task \cup {Shadow} -> SUBSET Status] /\ n \in Task \cup {Shadow}
    BY <1>7, <1>10 DEF SchedState
  <2>3. PICK m : m \in [Task \cup {Shadow} -> SUBSET Status] /\ r = [e EXCEPT !.status = m]
    BY <2>1, <2>2
  <2> QED BY <1>10, <2>3 DEF SchedState
<1> QED BY <1>7, <1>9, <1>10, <1>11 DEF Drops

(* LOS_TaskResume, LOS_TaskSuspend and LOS_TaskPriSet *)
LEMMA ParamIpc ==
    ASSUME Inv(k, call, tick), Unguarded = {}, NEW t \in Task, NEW p \in Prio,
           Resume(t) \/ Suspend(t) \/ PriSet(t, p)
    PROVE  IpcStep(k, k', call, call')
<1>1. /\ Core(k) /\ k \in SchedState /\ call \in [Context -> CallStates]
      /\ \A u \in Context : CallKept(call, call', u)
  BY InvFacts, CallsKept DEF Resume, Suspend, PriSet
<1>2. ASSUME NEW a, Drops(k, a, t), \A u \in Task : u # t => SameAt(k, a, u),
             \A h \in WaitLists \cup {FreeTask, RecycleList} : On(a, t, h) <=> On(k, t, h),
             \A b \in {"UNUSED", "EXIT", "TIMEOUT"} : b \in a.status[t] <=> b \in k.status[t],
             k' = a \/ k' = LOS_Schedule(a)
      PROVE  IpcStep(k, k', call, call')
  <2>1. \A o \in IpcList : On(k, t, Ipc(o)) => On(a, t, Ipc(o))
    BY <1>2, IpcFacts
  <2>2. /\ Living(a, t) <=> Living(k, t)
        /\ Late(a, t) <=> Late(k, t)
    BY <1>2 DEF Living, Late
  <2>3. \A u \in Task : u # t => a.status[u] = k.status[u]
    BY <1>2 DEF SameAt
  <2>4. (\A u \in Task : CallKept(call, call', u)) => Calm(k, k', call, call')
    BY <1>1, <1>2, <2>1, <2>2, <2>3, CalmOne
  <2> QED BY <1>1, <2>4, CalmStep
<1>3. CASE Resume(t)
  <2>1. PICK a : a = OsSchedResume(k, t)
    OBVIOUS
  <2>2. /\ "SUSPEND" \in k.status[t] /\ k.status[t] \cap {"UNUSED", "EXIT", "RUNNING"} = {}
    <3>1. /\ "SUSPEND" \in k.status[t] /\ k.status[t] \cap {"UNUSED", "EXIT"} = {} /\ t # k.run
      BY <1>3 DEF Resume, ResumeOK, MayResume, Has
    <3> QED BY <1>1, <3>1 DEF Core, Local
  <2>3. /\ Only(k, a, t)
        /\ a.status[t] = IF ResumeMakesReady(k, t)
                         THEN (k.status[t] \ {"SUSPEND"}) \cup {"READY"}
                         ELSE k.status[t] \ {"SUSPEND"}
        /\ \A h \in WaitLists \cup {FreeTask, RecycleList} : On(a, t, h) <=> On(k, t, h)
    BY <1>1, <2>1, <2>2, ResumeCore
  <2>4. k' = a \/ k' = LOS_Schedule(a)
    BY <1>3, <2>1 DEF Resume, LOS_TaskResume
  <2>5. \A b \in {"UNUSED", "EXIT", "TIMEOUT"} : b \in a.status[t] <=> b \in k.status[t]
    BY <2>3
  <2>6. Drops(k, a, t)
    BY <1>1, <2>1, DropParam
  <2> QED BY <1>2, <2>3, <2>4, <2>5, <2>6 DEF Only
<1>4. CASE Suspend(t)
  <2>1. PICK a : a = OsSchedSuspend(k, t)
    OBVIOUS
  <2>2. t \in Task \ {Idle} /\ "UNUSED" \notin k.status[t]
    BY <1>4 DEF Suspend, SuspendOK, Has
  <2>3. /\ Only(k, a, t) /\ a.status[t] = (k.status[t] \ {"READY"}) \cup {"SUSPEND"}
        /\ \A h \in WaitLists \cup {FreeTask, RecycleList} : On(a, t, h) <=> On(k, t, h)
    BY <1>1, <2>1, <2>2, SuspendCore
  <2>4. k' = a \/ k' = LOS_Schedule(a)
    BY <1>4, <2>1 DEF Suspend, LOS_TaskSuspend
  <2>5. \A b \in {"UNUSED", "EXIT", "TIMEOUT"} : b \in a.status[t] <=> b \in k.status[t]
    BY <2>3
  <2>6. Drops(k, a, t)
    BY <1>1, <2>1, DropParam
  <2> QED BY <1>2, <2>3, <2>4, <2>5, <2>6 DEF Only
<1>5. CASE PriSet(t, p)
  <2>1. PICK a : a = OsSchedModifyTaskSchedParam(k, t, p)
    OBVIOUS
  <2>2. t \in Task \ {Idle} /\ "UNUSED" \notin k.status[t]
    BY <1>5 DEF PriSet, PriSetOK, Has
  <2>3. /\ Only(k, a, t) /\ a.status[t] = k.status[t]
        /\ \A h \in WaitLists \cup {FreeTask, RecycleList} : On(a, t, h) <=> On(k, t, h)
    BY <1>1, <2>1, <2>2, ModifyCore
  <2>4. k' = a \/ k' = LOS_Schedule(a)
    BY <1>5, <2>1 DEF PriSet, LOS_TaskPriSet
  <2>5. \A b \in {"UNUSED", "EXIT", "TIMEOUT"} : b \in a.status[t] <=> b \in k.status[t]
    BY <2>3
  <2>6. Drops(k, a, t)
    BY <1>1, <2>1, DropParam
  <2> QED BY <1>2, <2>3, <2>4, <2>5, <2>6 DEF Only
<1> QED BY <1>3, <1>4, <1>5

(* LOS_TaskYield, LOS_TaskLock, LOS_TaskUnlock and the tick but for what   *)
(* it wakes *)
LEMMA QuietIpc ==
    ASSUME Inv(k, call, tick), Yield \/ Lock \/ Unlock \/ TickBegin \/ TickEnd
    PROVE  IpcStep(k, k', call, call')
<1>1. /\ Core(k) /\ k \in SchedState /\ call \in [Context -> CallStates]
      /\ \A u \in Context : CallKept(call, call', u)
  BY InvFacts, CallsKept DEF Yield, Lock, Unlock, TickBegin, TickEnd
<1>2. ASSUME NEW a, Core(a), SameButSwitch(k, a), k' = a \/ k' = LOS_Schedule(a)
      PROVE  IpcStep(k, k', call, call')
  <2>1. Core(k') /\ SameButSwitch(k, k')
    <3>1. CASE k' = a
      BY <1>2, <3>1
    <3>2. CASE k' = LOS_Schedule(a)
      <4>1. Core(k') /\ SameButSwitch(a, k')
        BY <1>2, <3>2, ScheduleCore
      <4> QED BY <1>2, <4>1 DEF SameButSwitch
    <3> QED BY <1>2, <3>1, <3>2
  <2>2. k' \in SchedState /\ k'.status = k.status /\ k'.list = k.list
    BY <2>1 DEF Core, Base, SameButSwitch
  <2>3. (\A u \in Task : CallKept(call, call', u)) => Calm(k, k', call, call')
    BY <2>2, CalmNone
  <2> QED BY <1>1, <2>3, CalmStep
<1>3. CASE Yield
  <2>1. k.run \in Task
    BY <1>1, <1>3 DEF Yield, InTask, Executing, SchedState
  <2>2. PICK a : a = OsSchedYield(k)
    OBVIOUS
  <2>3. PICK spent : spent \in BOOLEAN
    OBVIOUS
  <2>4. Core(a) /\ SameButSwitch(k, a)
    BY <1>1, <2>1, <2>2, <2>3, SliceCore
  <2> QED BY <1>2, <1>3, <2>2, <2>4 DEF Yield, LOS_TaskYield
<1>4. CASE TickEnd
  <2>1. PICK spent \in BOOLEAN : k' = LOS_Schedule(OsTimeSliceUpdate(k, spent))
    BY <1>4 DEF TickEnd
  <2>2. PICK a : a = OsTimeSliceUpdate(k, spent)
    OBVIOUS
  <2>3. Core(a) /\ SameButSwitch(k, a)
    BY <1>1, <2>2, SliceCore
  <2> QED BY <1>2, <2>1, <2>2, <2>3
<1>5. CASE Lock \/ Unlock
  <2>1. k.taskLock \in Nat
    BY <1>1 DEF SchedState
  <2>2. \E n \in Nat : \E a : /\ a = [k EXCEPT !.taskLock = n]
                              /\ k' = a \/ k' = LOS_Schedule(a)
    <3>1. CASE Lock
      BY SMT, <2>1, <3>1 DEF Lock, LOS_TaskLock
    <3>2. CASE Unlock
      <4>1. k.taskLock - 1 \in Nat /\ 0 \in Nat
        BY SMT, <2>1, <3>2 DEF Unlock
      <4>2. \/ k' = LOS_Schedule([k EXCEPT !.taskLock = 0])
            \/ k' = [k EXCEPT !.taskLock = k.taskLock - 1]
        BY <3>2 DEF Unlock, LOS_TaskUnlock
      <4> QED BY <4>1, <4>2
    <3> QED BY <1>5, <3>1, <3>2
  <2>3. PICK n \in Nat : \E a : a = [k EXCEPT !.taskLock = n] /\ (k' = a \/ k' = LOS_Schedule(a))
    BY <2>2
  <2>4. PICK a : a = [k EXCEPT !.taskLock = n] /\ (k' = a \/ k' = LOS_Schedule(a))
    BY <2>3
  <2>5. Core(a) /\ SameButSwitch(k, a)
    BY <1>1, <2>4, LockCore
  <2> QED BY <1>2, <2>4, <2>5
<1>6. CASE TickBegin
  <2>1. k' = k /\ SameButSwitch(k, k)
    BY <1>6 DEF TickBegin, SameButSwitch
  <2> QED BY <1>1, <1>2, <2>1
<1> QED BY <1>3, <1>4, <1>5, <1>6

(* LOS_TaskDelay *)
LEMMA DelayIpc ==
    ASSUME Inv(k, call, tick), Delay
    PROVE  IpcStep(k, k', call, call')
<1>1. /\ Core(k) /\ k \in SchedState /\ call \in [Context -> CallStates]
      /\ \A u \in Context : CallKept(call, call', u)
      /\ Executing /\ k.sched
  BY InvFacts, CallsKept DEF Delay, InTask
<1>2. PICK a : a = OsSchedDelay(k)
  OBVIOUS
<1>3. PICK t : t = k.run
  OBVIOUS
<1>4. RunsFreely(k) /\ t \in Task
  BY <1>1, <1>3, ExecFacts DEF RunsFreely
<1>5. /\ Only(k, a, t) /\ Place(k, t, {}) /\ a.status[t] = k.status[t] \cup {"DELAY"}
  BY <1>1, <1>2, <1>3, <1>4, DelayCore
<1>6. Drops(k, a, t)
  <2>1. Spares(k, a)
    BY <1>1, <1>2, <1>3, <1>4, SpareFields DEF OsSchedDelay, Status, Context
  <2> QED BY <2>1, DropTrans
<1>7. \A o \in IpcList : ~On(k, t, Ipc(o))
  BY <1>5, IpcFacts DEF Place
<1>8. /\ Living(a, t) <=> Living(k, t)
      /\ Late(a, t) <=> Late(k, t)
  BY <1>5 DEF Living, Late
<1>9. \A u \in Task : u # t => a.status[u] = k.status[u]
  BY <1>5 DEF Only, SameAt
<1>10. (\A u \in Task : CallKept(call, call', u)) => Calm(k, k', call, call')
  <2>1. k' = LOS_Schedule(a)
    BY <1>2 DEF Delay, LOS_TaskDelay
  <2> QED BY <1>1, <1>4, <1>6, <1>7, <1>8, <1>9, <2>1, CalmOne
<1> QED BY <1>1, <1>10, CalmStep

(* A TCB that is wiped had no living task and no call. *)
LEMMA WipedIpc ==
    ASSUME Inv(k, call, tick), NEW t \in Task, ~Living(k, t),
           Drops(k, k', t), k'.status = [k.status EXCEPT ![t] = {"UNUSED"}],
           \A u \in Context : CallKept(call, call', u)
    PROVE  IpcStep(k, k', call, call')
<1>1. /\ Core(k) /\ Own(k, call) /\ k \in SchedState /\ Local(k, t)
      /\ \A o \in IpcList : On(k, t, Ipc(o)) => "PEND" \in k.status[t]
  BY InvFacts
<1>2. k.status \in [Context -> SUBSET Status] /\ t \in Context
  BY <1>1 DEF SchedState, Context
<1>3. k'.status[t] = {"UNUSED"} /\ \A u \in Task : u # t => k'.status[u] = k.status[u]
  BY <1>2 DEF Context
<1>4. ~Living(k', t) /\ ~Late(k', t)
  BY <1>3 DEF Living, Late
<1>5. ~IsIpc(call[t])
  <2>1. call[t] = None
    BY <1>1 DEF Own, OwnSelf, Living
  <2> QED BY SMT, <2>1 DEF IsIpc, None
<1>6. \A o \in IpcList : ~On(k, t, Ipc(o))
  BY <1>1 DEF Local, Living
<1>7. (\A u \in Task : CallKept(call, call', u)) => Calm(k, k', call, call')
  BY <1>1, <1>3, <1>4, <1>5, <1>6, CalmOne
<1> QED BY <1>7, CalmStep

(* OsRecycleFinishedTask, from LOS_TaskCreateOnly and from idle *)
LEMMA RecycleIpc ==
    ASSUME Inv(k, call, tick), CreateRecycle \/ IdleRecycle
    PROVE  IpcStep(k, k', call, call')
<1>1. /\ Core(k) /\ k \in SchedState /\ call \in [Context -> CallStates] /\ k.run \in Context
      /\ \A t \in Task : Local(k, t)
  BY InvFacts
<1>2. \A u \in Context : CallKept(call, call', u)
  <2>1. CASE IdleRecycle
    BY <1>1, <2>1, CallsKept DEF IdleRecycle
  <2>2. CASE CreateRecycle
    <3>1. call[k.run] \in NotIpc /\ <<"recycle", 0>> \in NotIpc /\ <<"pop", 0>> \in NotIpc
      BY SMT, <2>2 DEF CreateRecycle, InTask, NotIpc
    <3>2. GoesOn(k.run, <<"recycle", 0>>) \/ GoesOn(k.run, <<"pop", 0>>)
      BY <2>2 DEF CreateRecycle
    <3> QED BY <1>1, <3>1, <3>2, CallsKept
  <2> QED BY <2>1, <2>2
<1>3. CASE k.list[RecycleList] # <<>> /\ k' = RecycleFirst(k)
  <2>1. PICK t : t = Head(k.list[RecycleList])
    OBVIOUS
  <2>2. k.list[RecycleList] \in Seq(Task)
    BY <1>1, HeadFacts DEF SchedState
  <2>3. t \in Task /\ On(k, t, RecycleList)
    BY <1>3, <2>1, <2>2, HeadProps DEF On, OnList
  <2>4. "UNUSED" \in k.status[t] /\ "JOINABLE" \notin k.status[t]
    BY <1>1, <2>3 DEF Local
  <2>5. Drops(k, k', t) /\ k'.status = [k.status EXCEPT ![t] = {"UNUSED"}]
    BY <1>1, <1>3, <2>1, <2>3, <2>4, DropRecycle
  <2> QED BY <1>2, <2>3, <2>4, <2>5, WipedIpc DEF Living
<1>4. CASE k' = k
  <2>1. (\A u \in Task : CallKept(call, call', u)) => Calm(k, k', call, call')
    BY <1>1, <1>4, CalmNone
  <2> QED BY <1>2, <2>1, CalmStep
<1> QED BY <1>3, <1>4 DEF CreateRecycle, IdleRecycle

(* LOS_TaskCreateOnly takes a TCB from the free list. *)
LEMMA CreatePopIpc ==
    ASSUME Inv(k, call, tick), CreatePop
    PROVE  IpcStep(k, k', call, call')
<1>1. /\ Core(k) /\ k \in SchedState /\ call \in [Context -> CallStates] /\ k.run \in Context
      /\ \A t \in Task : Local(k, t)
      /\ \A t \in Task, o \in IpcList : On(k, t, Ipc(o)) => "PEND" \in k.status[t]
  BY InvFacts
<1>2. call[k.run] \in NotIpc
  BY SMT DEF CreatePop, NotIpc
<1>3. CASE k.list[FreeTask] = <<>>
  <2>1. k' = k /\ GoesOn(k.run, None) /\ None \in NotIpc
    BY SMT, <1>3 DEF CreatePop, Returns, GoesOn, NotIpc
  <2>2. \A u \in Context : CallKept(call, call', u)
    BY <1>1, <1>2, <2>1, CallsKept
  <2>3. (\A u \in Task : CallKept(call, call', u)) => Calm(k, k', call, call')
    BY <1>1, <2>1, CalmNone
  <2> QED BY <2>2, <2>3, CalmStep
<1>4. CASE k.list[FreeTask] # <<>>
  <2>1. PICK t : t = Head(k.list[FreeTask])
    OBVIOUS
  <2>2. k.list[FreeTask] \in Seq(Task)
    BY <1>1, HeadFacts DEF SchedState
  <2>3. t \in Task /\ On(k, t, FreeTask)
    BY <1>4, <2>1, <2>2, HeadProps DEF On, OnList
  <2>4. k' = ListDelete(k, t) /\ GoesOn(k.run, <<"init", t>>) /\ <<"init", t>> \in NotIpc
    BY SMT, <1>4, <2>1, <2>3 DEF CreatePop, NotIpc
  <2>5. \A u \in Context : CallKept(call, call', u)
    BY <1>1, <1>2, <2>4, CallsKept
  <2>6. Drops(k, k', t) /\ k'.status = k.status
    BY <1>1, <2>3, <2>4, DropDelete DEF ListDelete, SchedState
  <2>7. k.status[t] = {"UNUSED"}
    BY <1>1, <2>3 DEF Local
  <2>8. k'.status = [k.status EXCEPT ![t] = {"UNUSED"}]
    BY <1>1, <2>3, <2>6, <2>7 DEF SchedState
  <2> QED BY <2>3, <2>5, <2>6, <2>7, <2>8, WipedIpc DEF Living
<1> QED BY <1>3, <1>4

(* LOS_TaskCreateOnly makes the task, or fails. *)
LEMMA CreateInitIpc ==
    ASSUME Inv(k, call, tick), NEW t \in Task, NEW p \in 0 .. (PriNum - 2), NEW attr \in Attrs,
           CreateInit(t, p, attr)
    PROVE  IpcStep(k, k', call, call')
<1>1. /\ Core(k) /\ Own(k, call) /\ k \in SchedState /\ call \in [Context -> CallStates]
      /\ k.run \in Context /\ t \in Context
  BY InvFacts
<1>2. call[k.run] = CInit(t) /\ call[k.run] \in NotIpc
  BY SMT DEF CreateInit, CInit, NotIpc
<1>3. k.status[t] = {"UNUSED"} /\ Place(k, t, {})
  BY <1>1, <1>2 DEF Own, OwnC, Fresh
<1>4. ~Living(k, t) /\ call[t] = None
  <2>1. "UNUSED" \in k.status[t]
    BY <1>3
  <2> QED BY <1>1, <2>1 DEF Living, Own, OwnSelf
<1>5. \A u \in Context : CallKept(call, call', u)
  <2>1. PICK v \in NotIpc : GoesOn(k.run, v)
    BY SMT DEF CreateInit, Returns, GoesOn, NotIpc
  <2> QED BY <1>1, <1>2, <2>1, CallsKept
<1>6. CASE k' = OsInsertTCBToFreeList(k, t)
  <2>1. Spares(k, k') /\ k'.status = [k.status EXCEPT ![t] = {"UNUSED"}]
    BY <1>1, <1>6, SpareFree
  <2> QED BY <1>4, <1>5, <2>1, WipedIpc, DropTrans
<1>7. CASE k' = OsNewTaskInit(k, t, p, attr)
  <2>1. p \in Prio /\ attr \in SUBSET {"JOINABLE", "STACK_FREE"}
    BY SMT, SchedConstants, TaskConstants DEF Prio
  <2>2. ~Linked(k, t)
    BY <1>3 DEF Place, Linked, On
  <2>3. Only(k, k', t) /\ k'.status[t] = {"SUSPEND"} \cup attr
    BY SMTT(60), <1>1, <1>3, <1>7, <2>1, <2>2, NewTaskCore
  <2>4. Spares(k, k')
    BY <1>1, <1>7, <2>1, SpareNew
  <2>5. Living(k', t) /\ ~Late(k', t)
    BY <2>1, <2>3 DEF Living, Late
  <2>6. OthersSpared(k, k', call, call', t)
    BY <1>5, <2>3, InvFacts DEF OthersSpared, Spared, Living, Late, Only, SameAt
  <2> QED BY <1>1, <1>4, <1>5, <2>4, <2>5, <2>6, CallsKept DEF IpcStep, Created
<1> QED BY <1>6, <1>7 DEF CreateInit

(* The end of LOS_TaskCreate *)
LEMMA CreateEnQueueIpc ==
    ASSUME Inv(k, call, tick), NEW t \in Task, CreateEnQueue(t)
    PROVE  IpcStep(k, k', call, call')
<1>1. /\ Core(k) /\ Own(k, call) /\ k \in SchedState /\ call \in [Context -> CallStates]
      /\ k.run \in Context /\ Base(k) /\ Local(k, t)
      /\ \A o \in IpcList : On(k, t, Ipc(o)) => "PEND" \in k.status[t]
  BY InvFacts
<1>2. PICK a : a = OsSchedTaskEnQueue(k, t)
  OBVIOUS
<1>3. k' = LOS_Schedule(a) /\ GoesOn(k.run, None) /\ call[k.run] = CEnQueue(t)
  BY <1>2 DEF CreateEnQueue, Returns, GoesOn, CEnQueue
<1>4. \A u \in Context : CallKept(call, call', u)
  <2>1. None \in NotIpc /\ call[k.run] \in NotIpc
    BY SMT, <1>3 DEF NotIpc, CEnQueue
  <2> QED BY <1>1, <1>3, <2>1, CallsKept
<1>5. Making(k.status[t])
  BY <1>1, <1>3 DEF Own, OwnC
<1>6. t # Idle /\ k.run # t /\ t \notin k.sortLink
  BY <1>1, <1>5 DEF Local, Making
<1>7. Place(k, t, {}) /\ Queueable(k.status[t])
  <2>1. k.status[t] \cap {"READY", "PEND", "UNUSED"} = {} /\ Queueable(k.status[t])
    BY <1>5 DEF Making, Queueable
  <2> QED BY <1>1, <2>1, UnlinkedIf
<1>8. Only(k, a, t) /\ a.status[t] = Readied(k.status[t])
  <2>1. Only(k, k, t) /\ t \in Task \ {Idle}
    BY <1>6 DEF Only, SameGlobals, SameAt
  <2> QED BY SMT, <1>1, <1>2, <1>6, <1>7, <2>1, EnQueueCore
<1>9. Drops(k, a, t)
  BY <1>1, <1>2, SpareEnQueue, DropTrans
<1>10. (Living(a, t) <=> Living(k, t)) /\ (Late(a, t) <=> Late(k, t))
  BY <1>8 DEF Living, Late, Readied
<1>11. \A o \in IpcList : ~On(k, t, Ipc(o))
  BY <1>1, <1>5 DEF Making
<1>12. \A u \in Task : u # t => a.status[u] = k.status[u]
  BY <1>8 DEF Only, SameAt
<1>13. (\A u \in Task : CallKept(call, call', u)) => Calm(k, k', call, call')
  BY <1>1, <1>3, <1>9, <1>10, <1>11, <1>12, CalmOne
<1> QED BY <1>4, <1>13, CalmStep

(* LOS_TaskJoin up to LOS_Schedule, also from LOS_TaskDetach *)
LEMMA JoinIpc ==
    ASSUME Inv(k, call, tick), NEW t \in Task, Join(t) \/ DetachExited(t)
    PROVE  IpcStep(k, k', call, call')
<1>1. /\ Core(k) /\ Own(k, call) /\ k \in SchedState /\ call \in [Context -> CallStates]
      /\ k.run \in Context
  BY InvFacts
<1>2. PICK a : a = (IF Has(k, t, {"EXIT"}) THEN k ELSE OsSchedTaskWait(k, JoinList(t), TRUE))
  OBVIOUS
<1>3. k' = LOS_Schedule(a)
  BY <1>2 DEF Join, DetachExited, JoinPend
<1>4. Executing /\ k.sched /\ call[k.run] = None /\ GoesOn(k.run, <<"join", t>>)
  BY DEF Join, DetachExited, InTask
<1>5. \A u \in Context : CallKept(call, call', u)
  <2>1. None \in NotIpc /\ <<"join", t>> \in NotIpc
    BY SMT DEF NotIpc
  <2> QED BY <1>1, <1>4, <2>1, CallsKept
<1>6. PICK c : c = k.run
  OBVIOUS
<1>7. c \in Task /\ RunsFreely(k)
  BY <1>4, <1>6, ExecFacts DEF RunsFreely
<1>8. CASE Has(k, t, {"EXIT"})
  <2>1. a = k
    BY <1>2, <1>8
  <2>2. Drops(k, a, c)
    BY <1>1, <2>1 DEF Drops
  <2>3. (\A u \in Task : CallKept(call, call', u)) => Calm(k, k', call, call')
    BY <1>1, <1>3, <1>7, <2>1, <2>2, CalmOne
  <2> QED BY <1>5, <2>3, CalmStep
<1>9. CASE ~Has(k, t, {"EXIT"})
  <2>1. PICK h \in WaitLists, forever \in BOOLEAN :
           h = JoinList(t) /\ forever = TRUE /\ a = OsSchedTaskWait(k, h, forever)
    BY <1>2, <1>9, HeadFacts
  <2>2. /\ Only(k, a, c) /\ Place(k, c, {})
        /\ a.status[c] = k.status[c] \cup (IF forever THEN {"PEND"} ELSE {"PEND", "PEND_TIME"})
    <3>1. Core(k) /\ RunsFreely(k) /\ c = k.run /\ a = OsSchedTaskWait(k, h, forever)
      BY <1>1, <1>6, <1>7, <2>1
    <3>2. /\ Core(a) /\ Only(k, a, c) /\ Place(k, c, {}) /\ Place(a, c, {h})
          /\ a.status[c] = k.status[c] \cup
                             (IF forever THEN {"PEND"} ELSE {"PEND", "PEND_TIME"})
      BY SMT, <3>1, WaitCore
    <3> QED BY <3>2
  <2>3. Drops(k, a, c)
    <3>1. PICK b : b = ListTailInsert(k, h, c)
      OBVIOUS
    <3>2. h \in Head_ /\ \A o \in IpcList : h # Ipc(o)
      BY <2>1, HeadFacts, IpcFacts
    <3>3. Spares(k, b) /\ b \in SchedState
      BY SMT, <1>1, <1>7, <3>1, <3>2, SpareAdd DEF Spares
    <3>4. a = SetStatus(b, c, {"PEND"}) /\ c \in Context
      BY <1>1, <1>6, <2>1, <3>1 DEF OsSchedTaskWait
    <3>5. {"PEND"} \in SUBSET Status
      BY DEF Status
    <3>6. Spares(b, a)
      BY <3>3, <3>4, <3>5, SpareFields
    <3> QED BY <3>3, <3>6, DropTrans
  <2>4. (Living(a, c) <=> Living(k, c)) /\ (Late(a, c) <=> Late(k, c))
    BY <2>2 DEF Living, Late
  <2>5. \A o \in IpcList : ~On(k, c, Ipc(o))
    BY <2>2, IpcFacts DEF Place
  <2>6. \A u \in Task : u # c => a.status[u] = k.status[u]
    BY <2>2 DEF Only, SameAt
  <2>7. (\A u \in Task : CallKept(call, call', u)) => Calm(k, k', call, call')
    BY <1>1, <1>3, <1>7, <2>3, <2>4, <2>5, <2>6, CalmOne
  <2> QED BY <1>5, <2>7, CalmStep
<1> QED BY <1>8, <1>9

(* LOS_TaskJoin after LOS_Schedule *)
LEMMA JoinFinishIpc ==
    ASSUME Inv(k, call, tick), NEW t \in Task, JoinFinish(t)
    PROVE  IpcStep(k, k', call, call')
<1>1. /\ Core(k) /\ Own(k, call) /\ k \in SchedState /\ call \in [Context -> CallStates]
      /\ k.run \in Context
  BY InvFacts
<1>2. ~Living(k, t)
  BY JoinedExited DEF Living
<1>3. PICK a : a = ClrStatus(k, t, {"JOINABLE"})
  OBVIOUS
<1>4. k' = OsRecycleTaskResources(a, t)
  BY <1>3 DEF JoinFinish, JoinReclaim
<1>5. \A u \in Context : CallKept(call, call', u)
  <2>1. None \in NotIpc /\ call[k.run] \in NotIpc /\ GoesOn(k.run, None)
    BY SMT DEF NotIpc, JoinFinish, Returns, GoesOn
  <2> QED BY <1>1, <2>1, CallsKept
<1>6. Spares(k, a) /\ a \in SchedState
  <2>1. {"JOINABLE"} \in SUBSET Status /\ t \in Context
    BY DEF Status, Context
  <2> QED BY <1>1, <1>3, <2>1, SpareFields DEF Spares
<1>7. "JOINABLE" \notin a.status[t] /\ a.status = [k.status EXCEPT ![t] = @ \ {"JOINABLE"}]
  BY <1>1, <1>3 DEF ClrStatus, SchedState
<1>8. Spares(a, k') /\ k'.status = [a.status EXCEPT ![t] = {"UNUSED"}]
  BY <1>4, <1>6, <1>7, SpareFree
<1>9. k'.status = [k.status EXCEPT ![t] = {"UNUSED"}]
  BY <1>1, <1>7, <1>8 DEF SchedState
<1>10. Drops(k, k', t)
  BY <1>6, <1>8, DropTrans
<1> QED BY <1>2, <1>5, <1>9, <1>10, WipedIpc

(* LOS_TaskDetach of a task that has not exited *)
LEMMA DetachIpc ==
    ASSUME Inv(k, call, tick), NEW t \in Task, Detach(t)
    PROVE  IpcStep(k, k', call, call')
<1>1. Core(k) /\ Base(k) /\ k \in SchedState /\ call \in [Context -> CallStates]
  BY InvFacts
<1>2. k' = ClrStatus(k, t, {"JOINABLE"}) /\ {"JOINABLE"} \in SUBSET Status /\ t \in Context
  BY DEF Detach, OsTaskSetDetachUnsafe, Status, Context
<1>3. \A u \in Context : CallKept(call, call', u)
  BY <1>1, CallsKept DEF Detach
<1>4. Drops(k, k', t)
  BY <1>1, <1>2, SpareFields, DropTrans
<1>5. /\ Only(k, k', t) /\ SamePlace(k, k', t) /\ k'.status[t] = k.status[t] \ {"JOINABLE"}
  BY SMT, <1>1, <1>2, SetClrEffect
<1>6. (Living(k', t) <=> Living(k, t)) /\ (Late(k', t) <=> Late(k, t))
  BY <1>5 DEF Living, Late
<1>7. \A o \in IpcList : On(k, t, Ipc(o)) => On(k', t, Ipc(o))
  BY <1>5, IpcFacts DEF SamePlace
<1>8. \A u \in Task : u # t => k'.status[u] = k.status[u]
  BY <1>5 DEF Only, SameAt
<1>9. (\A u \in Task : CallKept(call, call', u)) => Calm(k, k', call, call')
  BY <1>1, <1>4, <1>6, <1>7, <1>8, CalmOne
<1> QED BY <1>3, <1>9, CalmStep

(* OsSchedTaskSwitch *)
LEMMA SwitchIpc ==
    ASSUME HasLeast, Inv(k, call, tick), Switch
    PROVE  IpcStep(k, k', call, call')
<1>1. Core(k) /\ k \in SchedState /\ call \in [Context -> CallStates]
  BY InvFacts
<1>2. PICK spent \in BOOLEAN : k' = OsSchedTaskSwitch(k, spent)
  BY DEF Switch
<1>3. k'.run \in Task /\ Drops(k, k', k'.run)
  BY <1>1, <1>2, DropSwitch
<1>4. \A u \in Task : Kept(k, k', u)
  BY <1>1, <1>2, SwitchCore DEF Switched
<1>5. \A u \in Context : CallKept(call, call', u)
  BY <1>1, CallsKept DEF Switch
<1>6. \A o \in IpcList : On(k, k'.run, Ipc(o)) => On(k', k'.run, Ipc(o))
  BY <1>3, <1>4, IpcFacts DEF Kept
<1>7. Spares(k, k')
  BY <1>1, <1>3, <1>6, ListsSame
<1>8. ASSUME NEW u \in Task PROVE Spared(k, k', call, call', u)
  <2>1. {"UNUSED", "EXIT", "TIMEOUT"} \subseteq Status \ {"READY", "RUNNING"}
    BY DEF Status
  <2>2. \A b \in {"UNUSED", "EXIT", "TIMEOUT"} : b \in k'.status[u] <=> b \in k.status[u]
    BY <1>4, <2>1 DEF Kept
  <2>3. (Living(k', u) <=> Living(k, u)) /\ (Late(k', u) <=> Late(k, u))
    BY <2>2 DEF Living, Late
  <2> QED BY <1>1, <1>5, <2>3, CallsKept DEF Spared
<1>9. Calm(k, k', call, call')
  BY <1>7, <1>8 DEF Calm, AllSpared
<1> QED BY <1>5, <1>9, CalmStep

(* LOS_Start *)
LEMMA StartIpc ==
    ASSUME HasLeast, Inv(k, call, tick), LOS_Start
    PROVE  IpcStep(k, k', call, call')
<1>1. /\ Core(k) /\ Own(k, call) /\ Leaves(k, tick) /\ k \in SchedState
      /\ call \in [Context -> CallStates] /\ \A t \in Task : Local(k, t)
      /\ \A t \in Task, o \in IpcList : On(k, t, Ipc(o)) => "PEND" \in k.status[t]
  BY InvFacts
<1>2. k.run = Shadow /\ ~k.sched /\ k' = StartToRun(k)
  BY <1>1 DEF LOS_Start, StartToRun, Leaves
<1>3. PICK t : t = k'.run
  OBVIOUS
<1>4. t \in Task /\ Drops(k, k', t)
  BY <1>1, <1>2, <1>3, DropStart
<1>5. Started(k, k')
  BY <1>1, <1>2, StartCore
<1>6. /\ k'.status[t] = {"RUNNING"} /\ "READY" \in k.status[t]
      /\ \A u \in Task : u # t => k'.status[u] = k.status[u]
  BY <1>3, <1>5 DEF Started, SameAt
<1>7. "UNUSED" \notin k.status[t] /\ "EXIT" \notin k.status[t] /\ "PEND" \notin k.status[t]
  BY <1>1, <1>4, <1>6 DEF Local
<1>8. Living(k, t) /\ Living(k', t) /\ ~Late(k', t)
  BY <1>6, <1>7 DEF Living, Late
<1>9. ~IsIpc(call[t])
  <2>1. call[t] = None
    BY <1>1, <1>2, <1>4 DEF Own, OwnSelf
  <2> QED BY SMT, <2>1 DEF IsIpc, None
<1>10. \A o \in IpcList : ~On(k, t, Ipc(o))
  BY <1>1, <1>4, <1>7
<1>11. \A u \in Context : CallKept(call, call', u)
  BY <1>1, CallsKept DEF LOS_Start
<1>12. (\A u \in Task : CallKept(call, call', u)) => Calm(k, k', call, call')
  BY <1>1, <1>4, <1>6, <1>8, <1>9, <1>10, CalmOne
<1> QED BY <1>11, <1>12, CalmStep

(* A time-out runs out: a delay, or a wait on an IPC object, since no time *)
(* bounds the wait of LOS_TaskJoin.                                        *)
LEMMA TickExpireIpc ==
    ASSUME Inv(k, call, tick), NEW t \in Task, TickExpire(t)
    PROVE  IpcStep(k, k', call, call')
<1>1. /\ Core(k) /\ Own(k, call) /\ Base(k) /\ Local(k, t) /\ k \in SchedState
      /\ call \in [Context -> CallStates] /\ t \in Context
      /\ \A o \in IpcList : On(k, t, Ipc(o)) => "PEND" \in k.status[t]
  BY InvFacts
<1>2. k' = OsSchedWakePendTimeTask(k, t) /\ t \in k.sortLink /\ call' = call
  BY DEF TickExpire, NoCallChange
<1>3. Core(k') /\ Only(k, k', t) /\ Expired(k, k', t) /\ OffLists(k', t)
  BY <1>1, <1>2, ExpireCore
<1>4. Drops(k, k', t)
  BY <1>1, <1>2, DropExpire
<1>5. \A u \in Context : CallKept(call, call', u)
  BY <1>1, CallsKept DEF TickExpire
<1>6. /\ "DELAY" \in k.status[t] \/ "PEND_TIME" \in k.status[t]
      /\ "PEND_TIME" \in k.status[t] => "PEND" \in k.status[t]
      /\ "PEND" \in k.status[t] => "DELAY" \notin k.status[t]
  BY <1>1, <1>2 DEF Local
<1>7. Living(k', t) <=> Living(k, t)
  BY SMT, <1>3 DEF Living, Expired
<1>8. \A u \in Task : u # t => k'.status[u] = k.status[u]
  BY <1>3 DEF Only, SameAt
<1>9. CASE "PEND" \notin k.status[t]
  <2>1. Late(k', t) <=> Late(k, t)
    BY SMT, <1>3, <1>9 DEF Late, Expired
  <2>2. (\A u \in Task : CallKept(call, call', u)) => Calm(k, k', call, call')
    BY <1>1, <1>4, <1>7, <1>8, <1>9, <2>1, CalmOne
  <2> QED BY <1>5, <2>2, CalmStep
<1>10. CASE "PEND" \in k.status[t]
  <2>1. PICK h \in WaitLists : On(k, t, h)
    BY <1>1, <1>10, PendingPlace
  <2>2. ASSUME NEW x \in Task, h = JoinList(x) PROVE FALSE
    <3>1. OwnC(k, call, t, x)
      BY <1>1 DEF Own
    <3> QED BY <1>6, <1>10, <2>1, <2>2, <3>1 DEF OwnC
  <2>3. PICK o \in IpcList : On(k, t, Ipc(o))
    BY <2>1, <2>2, IpcFacts
  <2>4. \A q \in IpcList : ~On(k', t, Ipc(q))
    BY <1>3, IpcFacts DEF OffLists
  <2>5. Unlinks(k, k', t)
    BY <1>1, <1>4, <2>4, ListsDrop DEF Unlinks, Drops
  <2>6. Late(k', t)
    BY <1>3, <1>10 DEF Late, Expired
  <2>7. Living(k, t)
    BY <1>1, <1>10 DEF Local, Living
  <2>8. OthersSpared(k, k', call, call', t)
    BY <1>1, <1>5, <1>8, CallsKept DEF OthersSpared, Spared, Living, Late
  <2>9. TimedOut(k, k', call, call', t)
    BY <1>2, <1>7, <2>3, <2>5, <2>6, <2>7, <2>8 DEF TimedOut
  <2> QED BY <1>1, <1>5, <2>9, CallsKept DEF IpcStep
<1> QED BY <1>9, <1>10

(* LOS_TaskDelete *)
LEMMA DeleteIpc ==
    ASSUME Inv(k, call, tick), Unguarded = {}, NEW t \in Task, Delete(t)
    PROVE  IpcStep(k, k', call, call')
<1>1. /\ Core(k) /\ Own(k, call) /\ Leaves(k, tick) /\ k \in SchedState
      /\ call \in [Context -> CallStates] /\ t \in Context
  BY InvFacts
<1>2. /\ MayDelete(t) /\ DeleteOK(k, t) /\ k' = LOS_TaskDelete(k, t)
      /\ call' = [call EXCEPT ![t] = None]
  BY DEF Delete, Returns
<1>3. t \in Task \ {Idle} /\ "UNUSED" \notin k.status[t] /\ "EXIT" \notin k.status[t]
  BY <1>2 DEF DeleteOK, Has
<1>4. k.run = t => k.sched
  BY <1>1, TaskFacts DEF Leaves
<1>5. \A u, v \in Task : On(k, u, JoinList(t)) /\ On(k, v, JoinList(t)) => u = v
  <2> SUFFICES ASSUME NEW u \in Task, NEW v \in Task,
                      On(k, u, JoinList(t)), On(k, v, JoinList(t))
               PROVE  u = v
    OBVIOUS
  <2>1. u \in Context /\ v \in Context /\ OwnC(k, call, u, t) /\ OwnC(k, call, v, t)
    BY <1>1 DEF Own, Context
  <2>2. call[u] = CJoin(t) /\ call[v] = CJoin(t)
    BY <2>1 DEF OwnC
  <2> QED BY <1>1, <2>1, <2>2 DEF Own, OwnCalls
<1>6. ~On(k, t, JoinList(t))
  <2>1. OwnC(k, call, t, t)
    BY <1>1 DEF Own
  <2> QED BY <1>1, <2>1 DEF OwnC, Own, OwnCalls
<1>7. "JOINABLE" \notin k.status[t] => Unjoined(k, t)
  BY <1>1 DEF Own, OwnT
<1>8. Gone(k, k', t)
  BY <1>1, <1>2, <1>3, <1>4, <1>5, <1>6, <1>7, DeleteCore
<1>9. /\ GoneSelf(k, k', t) /\ \A u \in Task : u # t => GoneJoiner(k, k', t, u)
  BY <1>8 DEF Gone
<1>10. \A o \in IpcList : ~On(k', t, Ipc(o))
  BY <1>9, IpcFacts DEF GoneSelf, Place
<1>11. Unlinks(k, k', t)
  <2>1. Drops(k, k', t)
    BY <1>1, <1>2, <1>3, DropTaskDelete
  <2> QED BY <1>1, <1>10, <2>1, ListsDrop DEF Unlinks, Drops
<1>12. \A u \in Context : u # t => call'[u] = call[u]
  BY <1>1, <1>2
<1>13. call'[t] = None
  BY <1>1, <1>2
<1>14. OthersSpared(k, k', call, call', t)
  <2>1. ASSUME NEW u \in Task, u # t PROVE Spared(k, k', call, call', u)
    <3>1. (Living(k', u) <=> Living(k, u)) /\ (Late(k', u) <=> Late(k, u))
      <4>1. CASE SameAt(k, k', u)
        BY <4>1 DEF SameAt, Living, Late
      <4>2. CASE Woken(k, k', u)
        BY SMT, <4>2 DEF Woken, Living, Late
      <4> QED BY <1>9, <2>1, <4>1, <4>2 DEF GoneJoiner
    <3>2. CallKept(call, call', u)
      BY <1>1, <1>12, <2>1, CallsKept DEF CallKept
    <3> QED BY <3>1, <3>2 DEF Spared
  <2> QED BY <2>1 DEF OthersSpared
<1>15. Living(k, t) /\ ~Living(k', t)
  BY <1>3, <1>9 DEF Living, GoneSelf
<1>16. CallKept(call, call', Shadow)
  BY <1>1, <1>12, TaskFacts, CallsKept DEF CallKept
<1> QED BY <1>11, <1>13, <1>14, <1>15, <1>16 DEF IpcStep, Ended

----------------------------------------------------------------------------

(* Every step of module Task is one of the four. *)
LEMMA NextIpc ==
    ASSUME HasLeast, Inv(k, call, tick), Unguarded = {}, TaskNext
    PROVE  IpcStep(k, k', call, call')
<1>1. ASSUME NEW t \in Task,
             \/ Resume(t) \/ Suspend(t) \/ Delete(t)
             \/ Join(t) \/ JoinFinish(t) \/ Detach(t) \/ DetachExited(t)
             \/ CreateEnQueue(t) \/ TickExpire(t)
      PROVE  IpcStep(k, k', call, call')
  <2>1. PICK p : p \in Prio
    BY SMT, SchedConstants DEF Prio
  <2> QED BY <1>1, <2>1, ParamIpc, DeleteIpc, JoinIpc, JoinFinishIpc, DetachIpc,
             CreateEnQueueIpc, TickExpireIpc
<1>2. ASSUME NEW t \in Task, NEW p \in Prio, PriSet(t, p) PROVE IpcStep(k, k', call, call')
  BY <1>2, ParamIpc
<1>3. ASSUME NEW t \in Task, NEW p \in 0 .. (PriNum - 2), NEW attr \in Attrs,
             CreateInit(t, p, attr)
      PROVE  IpcStep(k, k', call, call')
  BY <1>3, CreateInitIpc
<1> QED BY <1>1, <1>2, <1>3, QuietIpc, DelayIpc, RecycleIpc, CreatePopIpc, StartIpc,
           SwitchIpc DEF TaskNext

----------------------------------------------------------------------------
(* What calls on IPC objects do to the wait lists. *)

(* OsSchedTaskWait and LOS_Schedule of a call that waits on o. *)
LEMMA PendWaits ==
    ASSUME NEW s, Inv(s, call, tick), RunsFreely(s), call[s.run] = None,
           NEW o \in IpcList, NEW forever \in BOOLEAN,
           NEW r, r = LOS_Schedule(OsSchedTaskWait(s, Ipc(o), forever)),
           GoesOn(s.run, CIpc(o))
    PROVE  Pended(s, r, call, call', s.run, o)
<1>1. Core(s) /\ s \in SchedState /\ call \in [Context -> CallStates]
  BY DEF Inv, Semi, Core, Base
<1>2. PICK c : c = s.run
  OBVIOUS
<1>3. c \in Task \ {Idle} /\ RunsFreely(s) /\ c \in Context
  BY <1>2 DEF RunsFreely, Context
<1>4. "UNUSED" \notin s.status[c] /\ "EXIT" \notin s.status[c] /\ ~Linked(s, c)
  BY <1>1, <1>2, <1>3, RunsFreelyFacts
<1>5. PICK h \in WaitLists : h = Ipc(o)
  BY IpcFacts
<1>6. PICK a : a = OsSchedTaskWait(s, h, forever)
  OBVIOUS
<1>7. PICK X : X = (IF forever THEN {"PEND"} ELSE {"PEND", "PEND_TIME"})
  OBVIOUS
<1>8. /\ Core(a) /\ Only(s, a, c) /\ Place(s, c, {}) /\ a.status[c] = s.status[c] \cup X
  <2>1. /\ Core(s) /\ RunsFreely(s) /\ c = s.run /\ h \in WaitLists /\ forever \in BOOLEAN
        /\ a = OsSchedTaskWait(s, h, forever)
    BY <1>1, <1>2, <1>3, <1>6
  <2>2. /\ Core(a) /\ Only(s, a, c) /\ Place(s, c, {}) /\ Place(a, c, {h})
        /\ a.status[c] = s.status[c] \cup
                            (IF forever THEN {"PEND"} ELSE {"PEND", "PEND_TIME"})
    BY SMT, <2>1, WaitCore
  <2> QED BY <1>7, <2>2
<1>9. r.status = a.status /\ r.list = a.list /\ r \in SchedState
  <2>1. Core(r) /\ SameButSwitch(a, r)
    BY <1>5, <1>6, <1>8, ScheduleCore
  <2> QED BY <2>1 DEF SameButSwitch, Core, Base
<1>10. /\ a.list[Ipc(o)] = Append(s.list[Ipc(o)], c)
       /\ \A p \in IpcList : p # o => a.list[Ipc(p)] = s.list[Ipc(p)]
  <2>1. PICK b : b = ListTailInsert(s, h, c)
    OBVIOUS
  <2>2. b.list = [s.list EXCEPT ![h] = Append(@, c)] /\ h \in Head_
    BY <1>1, <2>1, HeadFacts DEF ListTailInsert, SchedState
  <2>3. a.list = b.list
    <3>1. b \in SchedState
      BY <1>1, <1>3, <1>4, <2>1, AddEffect DEF Core, Base
    <3>2. a = SetStatus(b, c, X)
      BY <1>2, <1>6, <1>7, <2>1 DEF OsSchedTaskWait
    <3> QED BY <3>1, <3>2 DEF SetStatus, SchedState
  <2>4. s.list \in [Head_ -> Seq(Task)]
    BY <1>1 DEF SchedState
  <2> QED BY <1>5, <2>2, <2>3, <2>4, IpcFacts
<1>11. \A p \in IpcList : ~On(s, c, Ipc(p))
  BY <1>8, IpcFacts DEF Place
<1>12. Living(s, c) /\ Living(r, c) /\ (Late(r, c) <=> Late(s, c))
  BY SMT, <1>4, <1>7, <1>8, <1>9 DEF Living, Late
<1>13. call'[c] = CIpc(o) /\ \A u \in Context : u # c => call'[u] = call[u]
  BY <1>1, <1>2, <1>3 DEF GoesOn
<1>14. OthersSpared(s, r, call, call', c)
  <2>1. \A u \in Task : u # c => r.status[u] = s.status[u] /\ call'[u] = call[u]
    BY <1>1, <1>8, <1>9, <1>13, CallsKept DEF Only, SameAt
  <2> QED BY <2>1 DEF OthersSpared, Spared, Living, Late, CallKept
<1>15. CallKept(call, call', Shadow)
  BY <1>1, <1>3, <1>13, TaskFacts, CallsKept DEF CallKept
<1>16. Pended(s, r, call, call', c, o)
  BY <1>2, <1>3, <1>9, <1>10, <1>11, <1>12, <1>13, <1>14, <1>15 DEF Pended
<1> QED BY <1>2, <1>16

(* OsSchedTaskWake and LOS_Schedule for a task that waits on o. *)
LEMMA WakeHands ==
    ASSUME NEW s, Core(s), NEW t \in Task, NEW o \in IpcList, On(s, t, Ipc(o)),
           NEW r, r = LOS_Schedule(OsSchedTaskWake(s, t))
    PROVE  Handed(s, r, call, call, t)
<1>1. Base(s) /\ Local(s, t) /\ s \in SchedState
  BY DEF Core, Base
<1>2. Ipc(o) \in Head_ /\ Ipc(o) \in WaitLists
  BY IpcFacts
<1>3. t # Idle
  BY <1>1, <1>2 DEF Base, ListsDisjoint, On
<1>4. "PEND" \in s.status[t]
  BY <1>1, <1>2, <1>3 DEF Local
<1>5. PICK a : a = OsSchedTaskWake(s, t)
  OBVIOUS
<1>6. Core(a) /\ Only(s, a, t) /\ Woken(s, a, t) /\ OffLists(a, t)
  BY <1>4, <1>5, WakeCore
<1>7. r.status = a.status /\ r.list = a.list /\ r \in SchedState
  <2>1. Core(r) /\ SameButSwitch(a, r)
    BY <1>5, <1>6, ScheduleCore
  <2> QED BY <2>1 DEF SameButSwitch, Core, Base
<1>8. Unlinks(s, r, t)
  <2>1. Drops(s, a, t)
    BY <1>1, <1>5, DropWake
  <2>2. \A p \in IpcList : ~On(a, t, Ipc(p))
    BY <1>6, IpcFacts DEF OffLists
  <2>3. \A p \in IpcList : a.list[Ipc(p)] = Unlink(s.list[Ipc(p)], t)
    BY SMT, <2>1, <2>2, ListsDrop
  <2> QED BY <1>7, <2>3 DEF Unlinks
<1>9. OthersSpared(s, r, call, call, t)
  BY <1>6, <1>7 DEF Only, SameAt, OthersSpared, Spared, Living, Late, CallKept
<1>10. "UNUSED" \notin s.status[t] /\ "EXIT" \notin s.status[t]
  BY <1>1, <1>4 DEF Local
<1>11. Living(r, t) /\ Living(s, t) /\ (Late(r, t) <=> Late(s, t))
  BY SMT, <1>6, <1>7, <1>10 DEF Woken, Living, Late
<1> QED BY <1>8, <1>9, <1>11 DEF Handed

(* A task that runs freely in an IPC call has been woken. *)
LEMMA ReturnEnds ==
    ASSUME Inv(k, call, tick), Executing, NEW o \in IpcList, call[k.run] = CIpc(o),
           ~IsIpc(call[Shadow]), k' = ClrStatus(k, k.run, {"TIMEOUT"}), Returns(k.run)
    PROVE  Returned(k, k', call, call', k.run)
<1>1. Core(k) /\ k \in SchedState /\ call \in [Context -> CallStates]
  BY InvFacts DEF Inv
<1>2. PICK c : c = k.run
  OBVIOUS
<1>3. IsIpc(call[c]) /\ c # Shadow
  BY <1>2, IpcCallFacts
<1>4. c \in Task \ {Idle} /\ RunsFreely(k) /\ c \in Context
  BY <1>2, <1>3, ExecFacts DEF RunsFreely
<1>5. "UNUSED" \notin k.status[c] /\ "EXIT" \notin k.status[c] /\ Place(k, c, {}) /\ Base(k)
  BY <1>1, <1>2, <1>4, RunsFreelyFacts
<1>6. {"TIMEOUT"} \in SUBSET Status /\ k' = ClrStatus(k, c, {"TIMEOUT"})
  BY <1>2 DEF Status
<1>7. Only(k, k', c) /\ k'.status[c] = k.status[c] \ {"TIMEOUT"}
  BY SMT, <1>4, <1>5, <1>6, SetClrEffect
<1>8. Spares(k, k')
  BY <1>1, <1>4, <1>6, SpareFields
<1>9. \A p \in IpcList : ~On(k, c, Ipc(p))
  BY <1>5, IpcFacts DEF Place
<1>10. Living(k, c) /\ Living(k', c) /\ ~Late(k', c)
  BY <1>5, <1>7 DEF Living, Late
<1>11. call'[c] = None /\ \A u \in Context : u # c => call'[u] = call[u]
  BY <1>1, <1>2, <1>4 DEF Returns
<1>12. OthersSpared(k, k', call, call', c)
  <2>1. \A u \in Task : u # c => k'.status[u] = k.status[u] /\ call'[u] = call[u]
    BY <1>1, <1>7, <1>11, CallsKept DEF Only, SameAt
  <2> QED BY <2>1 DEF OthersSpared, Spared, Living, Late, CallKept
<1>13. CallKept(call, call', Shadow)
  BY <1>1, <1>3, <1>11, CallsKept DEF CallKept
<1>14. Returned(k, k', call, call', c)
  BY <1>3, <1>4, <1>8, <1>9, <1>10, <1>11, <1>12, <1>13 DEF Returned
<1> QED BY <1>2, <1>14
============================================================================
