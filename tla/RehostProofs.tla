---------------------------- MODULE RehostProofs ----------------------------
(***************************************************************************)
(* Safety of the rehosting layer for any number of threads, tasks and      *)
(* slots, and for every program, until a signal comes in one of the        *)
(* layer's windows.                                                        *)
(*                                                                         *)
(* OneRunner is not inductive.  That the thread a switch resumes waits for *)
(* it needs the locking discipline (who is on the core holds               *)
(* single_core_mutex, a thread that was just created parks while its       *)
(* creator spins), and that it is the right thread needs the slots: a slot *)
(* in use belongs to the thread made for its task ID, it is invalid while  *)
(* that thread ends, and the slot of a thread that runs or leaves is the   *)
(* first with its ID.  Only when no task was deleted under its thread does *)
(* each valid slot stand for a living task.                                *)
(***************************************************************************)
EXTENDS Rehost, FiniteSetTheorems, TLAPS

(* What a thread returns to: its task, or the end of it, below any number  *)
(* of tick handlers that were switched out.                                *)
Ground == {"task", "exiting", "deleting"}
Bottom(st) == st[Len(st)]
Nest(st) ==
    /\ st # <<>> /\ Bottom(st) \in {At(p) : p \in Ground}
    /\ \A i \in 1 .. Len(st) - 1 : st[i] = At("tickback")

Live(t) == t # Main /\ pc[t].at # "none"
Fresh(t) == t # Main /\ pc[t].at \in {"wrapper", "park"}
Dies(t) == pc[t].at = "exiting" \/ (stack[t] # <<>> /\ Bottom(stack[t]) = At("exiting"))
Flat == {"none", "task", "exiting", "deleting", "spin"}
Deep == {"wrapper", "park", "unlocked", "sigwait", "relock", "queued", "blocked",
         "tick", "tickend", "tickback", "switch", "leave"}
OnCore == {"task", "exiting", "deleting", "queued", "blocked", "tick", "tickend", "tickback",
           "switch", "leave", "park"}
Goers == {"task", "exiting", "deleting", "queued", "blocked", "tick", "tickend", "tickback",
          "switch", "spin", "relock"}
Waits == {"unlocked", "sigwait"}

(* Active, for the stacks there are *)
Goer(t) == pc[t].at \in Goers \/ (pc[t].at \in Waits /\ resume[t])

ThreadInv(t) ==
    /\ \/ pc[t].at \in Flat /\ stack[t] = <<>>
       \/ t = Main /\ pc[t].at \in {"park", "sigwait"} /\ stack[t] = <<>>
       \/ t # Main /\ pc[t].at \in Deep /\ Nest(stack[t])
    /\ pc[t].at \in {"switch", "leave"} => pc[t].run = serves[t]
    /\ Dies(t) => /\ t # Main /\ core = t
                  /\ pc[t].at \in {"exiting", "blocked", "tick", "tickend", "switch", "leave"}
                  /\ pc[t].at \in {"tick", "tickend"} => stack[t] = <<At("exiting")>>
    /\ pc[t].at \in OnCore => core = t
    /\ resume[t] => pc[t].at \in Waits /\ t # Main
    /\ serves[t] = NoTask <=> ~Live(t)
    /\ t = Main => pc[t].at # "none"

FreshInv ==
    /\ \A t \in Threads : Fresh(t) => creating /\ \E c \in Threads : pc[c].at = "spin"
    /\ \A t, u \in Threads : Fresh(t) /\ Fresh(u) => t = u
    /\ pc[Main].at = "park" => \A c \in Threads : pc[c].at # "spin"

SlotInv(i) ==
    \/ /\ slot[i].thread \in Threads /\ Live(slot[i].thread)
       /\ serves[slot[i].thread] = slot[i].task
       /\ slot[i].valid <=> ~Dies(slot[i].thread)
       /\ slot[i].valid /\ slot[i].thread \notin orphans => slot[i].task \in alive
    \/ ~slot[i].valid /\ slot[i].thread = NoThread /\ slot[i].task \in {Idle, NoTask}

SlotsInv ==
    /\ \A i \in Slots : SlotInv(i)
    /\ \A i, j \in Slots :
          slot[i].thread # NoThread /\ slot[i].thread = slot[j].thread => i = j
    /\ \A t \in Threads : Live(t) => \E i \in Slots : slot[i].thread = t
    /\ \A x \in alive : \E i \in Slots : slot[i].valid /\ slot[i].task = x
    /\ IF alive = {} THEN \A i \in Slots : slot[i] = EmptySlot
       ELSE Idle \in alive /\ slot[0].valid /\ slot[0].task = Idle

(* Threads that are no orphans have tasks of their own. *)
OwnTasks ==
    \A i, j \in Slots :
        /\ slot[i].valid /\ slot[j].valid /\ slot[i].task = slot[j].task
        /\ slot[i].thread \notin orphans /\ slot[j].thread \notin orphans
        => i = j

(* The first slot with the thread's task ID is the thread's. *)
First(t) ==
    \E i \in Slots : slot[i].thread = t /\ \A j \in Slots : slot[j].task = serves[t] => i <= j
FirstInv == \A t \in Threads : t # Main /\ (Goer(t) \/ pc[t].at = "leave") => First(t)

(* A task that runs lives, unless it is ending. *)
Ends(a) ==
    \/ pc[a].at \in {"exiting", "deleting", "blocked"}
    \/ pc[a].at = "tick" /\ stack[a] # <<>> /\ Head(stack[a]) \in {At("exiting"), At("deleting")}

Runs(a) ==
    /\ \A u \in Threads : Goer(u) <=> u = a
    /\ IF pc[a].at = "switch"
       THEN pc[a].new = runTask /\ pc[a].new # pc[a].run
       ELSE serves[a] = runTask
    /\ a # Main => runTask \in alive \/ Ends(a)

IInv ==
    /\ RehostTypeOK
    /\ \A t \in Threads : ThreadInv(t)
    /\ FreshInv /\ SlotsInv /\ OwnTasks /\ FirstInv
    /\ \E a \in Threads : Runs(a)

----------------------------------------------------------------------------
(* A frame is one of the places, or a switch with its tasks. *)
LEMMA FrameFacts ==
    /\ \A f \in Frame : f.at \notin {"switch", "leave"} => f = At(f.at)
    /\ \A f \in Frame : f.at \in {"switch", "leave"} => f.new \in Tasks /\ f.run \in Tasks
    /\ \A p \in Places : At(p) \in Frame /\ At(p).at = p
    /\ \A f \in Frame : f.at \in Places \cup {"switch", "leave"}
    /\ NoTask \notin Tasks /\ Idle \in Tasks /\ 0 \in Slots
  BY RehostConstants DEF Frame, At, Places, Tasks, NoTask, Idle, Slots

(* Calls and tick handlers that begin leave the bottom where it is. *)
LEMMA NestPush ==
    ASSUME NEW st \in Seq(Frame), Nest(st)
    PROVE  LET new == <<At("tickback")>> \o st
           IN  new \in Seq(Frame) /\ Nest(new) /\ Bottom(new) = Bottom(st) /\ new # <<>>
<1> DEFINE new == <<At("tickback")>> \o st
<1>1. At("tickback") \in Frame
  BY FrameFacts DEF Places
<1>2. new \in Seq(Frame) /\ Len(new) = Len(st) + 1 /\ Len(st) \in Nat /\ Len(st) # 0
  BY <1>1 DEF Nest
<1>3. \A i \in 1 .. Len(new) : new[i] = IF i = 1 THEN At("tickback") ELSE st[i - 1]
  BY <1>1, <1>2
<1> QED BY <1>2, <1>3 DEF Nest, Bottom

(* A thread switched out of its task returns to it, without a handler in between. *)
LEMMA NestOne ==
    ASSUME NEW p \in Ground
    PROVE  LET new == <<At(p)>> \o <<>>
           IN  new \in Seq(Frame) /\ Nest(new) /\ Bottom(new) = At(p) /\ new = <<At(p)>>
<1>1. At(p) \in Frame
  BY FrameFacts DEF Places, Ground
<1> QED BY <1>1 DEF Nest, Bottom

(* What a thread returns to, and what is left then *)
LEMMA NestPop ==
    ASSUME NEW st \in Seq(Frame), Nest(st)
    PROVE  /\ Head(st) \in Frame /\ Tail(st) \in Seq(Frame)
           /\ \/ Head(st) = Bottom(st) /\ Tail(st) = <<>>
              \/ /\ Head(st) = At("tickback") /\ Nest(Tail(st))
                 /\ Bottom(Tail(st)) = Bottom(st) /\ Tail(st) # <<>>
<1>1. Len(st) \in Nat \ {0} /\ st # <<>>
  BY DEF Nest
<1>2. Head(st) = st[1] /\ Tail(st) \in Seq(Frame) /\ Len(Tail(st)) = Len(st) - 1
      /\ \A i \in 1 .. Len(st) - 1 : Tail(st)[i] = st[i + 1]
  BY <1>1
<1>3. CASE Len(st) = 1
  BY <1>1, <1>2, <1>3 DEF Bottom
<1>4. CASE Len(st) # 1
  <2> DEFINE tail == Tail(st)
  <2> HIDE DEF tail
  <2>1. /\ tail = Tail(st) /\ tail \in Seq(Frame) /\ Len(tail) = Len(st) - 1
        /\ \A i \in 1 .. Len(st) - 1 : tail[i] = st[i + 1]
    BY <1>2 DEF tail
  <2>5. Len(tail) \in Nat /\ Len(tail) # 0 /\ tail # <<>>
    <3>1. Len(tail) \in Nat /\ Len(tail) # 0
      BY <1>1, <1>4, <2>1
    <3>2. Len(<<>>) = 0
      OBVIOUS
    <3> QED BY Zenon, <3>1, <3>2
  <2>2. tail[Len(tail)] = st[Len(st)] /\ st[1] = At("tickback")
    BY <1>1, <2>1, <2>5 DEF Nest
  <2>3. \A i \in 1 .. Len(tail) - 1 : tail[i] = At("tickback")
    BY <1>1, <2>1, <2>5 DEF Nest
  <2>4. Head(st) \in Frame
    BY <1>1, <1>2
  <2> QED BY <1>2, <2>1, <2>2, <2>3, <2>4, <2>5 DEF Bottom, Nest
<1> QED BY <1>1, <1>2, <1>3, <1>4

(* Only a thread in Pthread_Schedule itself has handed over. *)
LEMMA ActiveIs ==
    ASSUME RehostTypeOK, NEW t \in Threads, ThreadInv(t)
    PROVE  Active(t) <=> Goer(t)
<1>1. ~\E i \in 1 .. Len(stack[t]) : stack[t][i].at = "leave"
  <2>1. CASE stack[t] = <<>>
    BY <2>1
  <2>2. CASE Nest(stack[t])
    BY <2>2 DEF Nest, Bottom, Ground, At, RehostTypeOK
  <2> QED BY <2>1, <2>2 DEF ThreadInv
<1>2. pc[t].at \in Flat \cup Deep
  BY DEF ThreadInv, Deep
<1> QED BY <1>1, <1>2 DEF Active, Leaving, Goer, Goers, Waits, Flat, Deep

(* A thread that a step leaves alone *)
LEMMA OtherThread ==
    ASSUME NEW u \in Threads, ThreadInv(u), core = u => core' = u,
           pc'[u] = pc[u], stack'[u] = stack[u], resume'[u] = resume[u], serves'[u] = serves[u]
    PROVE  /\ ThreadInv(u)' /\ Live(u)' = Live(u) /\ Dies(u)' = Dies(u)
           /\ Fresh(u)' = Fresh(u) /\ Goer(u)' = Goer(u)
<1>1. Live(u)' = Live(u) /\ Dies(u)' = Dies(u) /\ Fresh(u)' = Fresh(u) /\ Goer(u)' = Goer(u)
  BY DEF Live, Dies, Fresh, Goer
<1> QED BY <1>1 DEF ThreadInv

(* The slots do not notice what keeps threads alive. *)
LEMMA SlotsKept ==
    ASSUME SlotsInv, OwnTasks, slot' = slot, alive' = alive, serves' = serves, orphans' = orphans,
           \A u \in Threads : Live(u)' = Live(u) /\ Dies(u)' = Dies(u)
    PROVE  SlotsInv' /\ OwnTasks'
<1>1. ASSUME NEW i \in Slots
      PROVE  SlotInv(i)'
  <2>1. SlotInv(i)
    BY DEF SlotsInv
  <2> QED BY <2>1 DEF SlotInv
<1>2. OwnTasks'
  BY DEF OwnTasks
<1> QED BY <1>1, <1>2 DEF SlotsInv

(* A thread has one slot. *)
LEMMA SlotOne ==
    ASSUME IInv, NEW i \in Slots, NEW j \in Slots,
           slot[i].thread # NoThread, slot[i].thread = slot[j].thread
    PROVE  i = j
  BY DEF IInv, SlotsInv

(* Whose slot was the first with its ID *)
LEMMA FirstKept ==
    ASSUME FirstInv, slot' = slot, serves' = serves, NEW t \in Threads,
           \A u \in Threads \ {t} : pc'[u] = pc[u] /\ Goer(u)' = Goer(u),
           Goer(t)' \/ pc'[t].at = "leave" => Goer(t) \/ pc[t].at = "leave"
    PROVE  FirstInv'
<1>1. \A u \in Threads : First(u)' = First(u)
  BY DEF First
<1> QED BY <1>1 DEF FirstInv

(* What one thread t does to itself while the tasks stay *)
LEMMA OneThread ==
    ASSUME IInv, NEW t \in Threads,
           \A u \in Threads \ {t} :
               pc'[u] = pc[u] /\ stack'[u] = stack[u] /\ resume'[u] = resume[u],
           slot' = slot, alive' = alive, serves' = serves, orphans' = orphans,
           core' = core \/ core = t \/ core = NoThread,
           ThreadInv(t)', Live(t)' = Live(t), Dies(t)' = Dies(t),
           Goer(t)' \/ pc'[t].at = "leave" => Goer(t) \/ pc[t].at = "leave"
    PROVE  /\ \A u \in Threads : ThreadInv(u)'
           /\ SlotsInv' /\ OwnTasks' /\ FirstInv'
           /\ \A u \in Threads \ {t} : Fresh(u)' = Fresh(u) /\ Goer(u)' = Goer(u)
<1>1. ASSUME NEW u \in Threads \ {t}
      PROVE  /\ ThreadInv(u)' /\ Live(u)' = Live(u) /\ Dies(u)' = Dies(u)
             /\ Fresh(u)' = Fresh(u) /\ Goer(u)' = Goer(u)
  <2>1. ThreadInv(u) /\ (core = u => core' = u) /\ serves'[u] = serves[u]
    BY RehostConstants DEF IInv
  <2> QED BY <2>1, OtherThread
<1>2. SlotsInv' /\ OwnTasks'
  BY <1>1, SlotsKept DEF IInv
<1>3. FirstInv'
  BY Zenon, <1>1, FirstKept DEF IInv
<1> QED BY <1>1, <1>2, <1>3

(* A thread that goes on keeps the creation of others as it was. *)
LEMMA FreshKept ==
    ASSUME FreshInv, NEW t \in Threads, \A u \in Threads \ {t} : pc'[u] = pc[u],
           Fresh(t)' => Fresh(t), creating' = creating, pc[t].at = "spin" => ~creating,
           pc'[t].at # "spin", t = Main => pc'[t].at # "park"
    PROVE  FreshInv'
<1>1. \A u \in Threads : Fresh(u)' => Fresh(u)
  BY DEF Fresh
<1>2. ASSUME NEW c \in Threads, pc[c].at = "spin", creating
      PROVE  pc'[c].at = "spin"
  BY <1>2
<1>3. pc'[Main].at = "park" => \A c \in Threads : pc'[c].at # "spin"
  BY RehostConstants DEF FreshInv
<1> QED BY <1>1, <1>2, <1>3 DEF FreshInv

(* The one thread that goes on does so by itself, for the same task. *)
LEMMA RunsKept ==
    ASSUME IInv, NEW t \in Threads, Goer(t), Goer(t)',
           \A u \in Threads \ {t} : Goer(u)' = Goer(u),
           IF pc'[t].at = "switch"
           THEN pc'[t].new = runTask' /\ pc'[t].new # pc'[t].run
           ELSE serves'[t] = runTask',
           t # Main => runTask' \in alive' \/ Ends(t)'
    PROVE  \E a \in Threads : Runs(a)'
<1>1. PICK a \in Threads : Runs(a)
  BY DEF IInv
<1>2. a = t
  BY <1>1 DEF Runs
<1> QED BY <1>1, <1>2 DEF Runs

(* Who goes on in a place other than a switch is the running task's. *)
LEMMA GoerFacts ==
    ASSUME IInv, NEW t \in Threads, Goer(t)
    PROVE  /\ \A u \in Threads : Goer(u) => u = t
           /\ pc[t].at # "switch" => serves[t] = runTask
           /\ pc[t].at # "switch" /\ runTask # NoTask => t # Main
           /\ t # Main => runTask \in alive \/ Ends(t)
<1>1. PICK a \in Threads : Runs(a)
  BY DEF IInv
<1>2. ThreadInv(t)
  BY DEF IInv
<1> QED BY <1>1, <1>2 DEF Runs, ThreadInv, Live

(* A thread that waits, before and after, does not touch the one that runs. *)
LEMMA RunsOn ==
    ASSUME IInv, NEW t \in Threads, ~Goer(t), ~Goer(t)',
           \A u \in Threads \ {t} : pc'[u] = pc[u] /\ Goer(u)' = Goer(u),
           stack' = stack, serves' = serves, alive' = alive, runTask' = runTask
    PROVE  \E a \in Threads : Runs(a)'
<1>1. PICK a \in Threads : Runs(a)
  BY DEF IInv
<1>2. a # t
  BY <1>1 DEF Runs
<1>3. Ends(a)' = Ends(a)
  BY <1>2 DEF Ends
<1> QED BY <1>1, <1>2, <1>3 DEF Runs

(* A step of the thread that runs, while the tasks and slots stay *)
LEMMA GoesOn ==
    ASSUME IInv, RehostTypeOK', NEW t \in Threads, Goer(t), Goer(t)',
           \A u \in Threads \ {t} :
               pc'[u] = pc[u] /\ stack'[u] = stack[u] /\ resume'[u] = resume[u],
           slot' = slot, alive' = alive, serves' = serves, orphans' = orphans, creating' = creating,
           core' = core \/ core = t \/ core = NoThread,
           ThreadInv(t)', Dies(t)' = Dies(t),
           pc[t].at = "spin" => ~creating, pc'[t].at # "spin",
           IF pc'[t].at = "switch"
           THEN pc'[t].new = runTask' /\ pc'[t].new # pc'[t].run
           ELSE serves'[t] = runTask',
           t # Main => runTask' \in alive' \/ Ends(t)'
    PROVE  IInv'
<1>1. Live(t)' = Live(t) /\ ~Fresh(t)' /\ pc'[t].at # "park"
  BY DEF Live, Fresh, Goer, Goers, Waits
<1>2. /\ \A u \in Threads : ThreadInv(u)'
      /\ SlotsInv' /\ OwnTasks' /\ FirstInv'
      /\ \A u \in Threads \ {t} : Fresh(u)' = Fresh(u) /\ Goer(u)' = Goer(u)
  BY <1>1, OneThread
<1>3. FreshInv'
  BY <1>1, FreshKept DEF IInv
<1>4. \E a \in Threads : Runs(a)'
  BY <1>2, RunsKept
<1> QED BY <1>2, <1>3, <1>4 DEF IInv

----------------------------------------------------------------------------
(* Thread_Wrapper: the new thread takes the core its creator gave up. *)
LEMMA WrapperInv ==
    ASSUME IInv, NEW t \in Threads, Thread_Wrapper(t)
    PROVE  IInv'
<1>1. /\ pc[t].at = "wrapper" /\ pc' = [pc EXCEPT ![t] = At("park")] /\ core = NoThread
      /\ core' = t /\ pc \in [Threads -> Frame] /\ ThreadInv(t)
      /\ UNCHANGED <<irq, systick, creating, slot, stack, resume, alive, runTask, serves, orphans, hurt, aborted>>
  BY DEF Thread_Wrapper, kernel, IInv, RehostTypeOK
<1>2. pc'[t].at = "park" /\ At("park") \in Frame /\ \A u \in Threads \ {t} : pc'[u] = pc[u]
  BY <1>1, FrameFacts DEF Places
<1>3. RehostTypeOK'
  BY <1>1, <1>2 DEF IInv, RehostTypeOK
<1>4. ThreadInv(t)' /\ Live(t)' = Live(t) /\ Dies(t)' = Dies(t) /\ ~Goer(t)'
  BY <1>1, <1>2, RehostConstants DEF ThreadInv, Waits, Live, Dies, Goer, Goers, Flat, Deep, OnCore
<1>5. /\ \A u \in Threads : ThreadInv(u)'
      /\ SlotsInv' /\ OwnTasks' /\ FirstInv'
      /\ \A u \in Threads \ {t} : Fresh(u)' = Fresh(u) /\ Goer(u)' = Goer(u)
  BY <1>1, <1>2, <1>4, OneThread
<1>6. FreshInv'
  <2>1. t # Main
    BY <1>1 DEF ThreadInv, Waits, Flat
  <2> QED BY <1>1, <1>2, <2>1, FreshKept DEF IInv, Fresh
<1>7. \E a \in Threads : Runs(a)'
  <2>1. ~Goer(t)
    BY <1>1 DEF Goer, Goers, Waits
  <2> QED BY <1>1, <1>2, <1>4, <1>5, <2>1, RunsOn
<1> QED BY <1>3, <1>5, <1>6, <1>7 DEF IInv

(* Suspend_Signal_Handler: it gives the core back and waits for its first resume. *)
LEMMA ParkInv ==
    ASSUME IInv, NEW t \in Threads, Suspend_Signal_Handler(t)
    PROVE  IInv'
<1>1. /\ pc[t].at = "park" /\ pc' = [pc EXCEPT ![t] = At("sigwait")] /\ creating' = FALSE
      /\ core' = NoThread /\ pc \in [Threads -> Frame] /\ ThreadInv(t)
      /\ UNCHANGED <<irq, systick, slot, stack, resume, alive, runTask, serves, orphans, hurt, aborted>>
  BY DEF Suspend_Signal_Handler, kernel, IInv, RehostTypeOK
<1>2. /\ pc'[t].at = "sigwait" /\ At("sigwait") \in Frame /\ core = t
      /\ \A u \in Threads \ {t} : pc'[u] = pc[u]
  BY <1>1, FrameFacts DEF Places, ThreadInv, Waits, OnCore
<1>3. RehostTypeOK'
  BY Zenon, <1>1, <1>2 DEF IInv, RehostTypeOK
<1>4. ThreadInv(t)' /\ Live(t)' = Live(t) /\ Dies(t)' = Dies(t) /\ ~Goer(t)'
  BY <1>1, <1>2, RehostConstants DEF ThreadInv, Waits, Live, Dies, Goer, Goers, Flat, Deep, OnCore
<1>5. /\ \A u \in Threads : ThreadInv(u)'
      /\ SlotsInv' /\ OwnTasks' /\ FirstInv'
      /\ \A u \in Threads \ {t} : Fresh(u)' = Fresh(u) /\ Goer(u)' = Goer(u)
  BY <1>1, <1>2, <1>4, OneThread
<1>6. \A u \in Threads : ~Fresh(u)'
  <2>1. ASSUME NEW u \in Threads, Fresh(u)'
        PROVE  FALSE
    <3>1. u # t /\ Fresh(u)
      BY <1>2, <1>5, <2>1 DEF Fresh
    <3>2. PICK c \in Threads : pc[c].at = "spin"
      BY <3>1 DEF IInv, FreshInv
    <3>3. CASE t = Main
      BY <1>1, <3>2, <3>3 DEF IInv, FreshInv
    <3>4. CASE t # Main
      BY <1>1, <3>1, <3>4 DEF Fresh, IInv, FreshInv
    <3> QED BY <3>3, <3>4
  <2> QED BY <2>1
<1>7. \E a \in Threads : Runs(a)'
  <2>1. ~Goer(t)
    BY <1>1 DEF Goer, Goers, Waits
  <2> QED BY <1>1, <1>2, <1>4, <1>5, <2>1, RunsOn
<1>8. FreshInv'
  <2>1. pc'[Main].at # "park"
    BY Zenon, <1>1, <1>2, RehostConstants DEF IInv, ThreadInv, Waits, OnCore
  <2> QED BY <1>6, <2>1 DEF FreshInv
<1> QED BY <1>3, <1>5, <1>7, <1>8 DEF IInv

(* PMCU_BE_Task_Create: the creator has seen creat_not_done fall and goes on. *)
LEMMA CreateReturnsInv ==
    ASSUME IInv, NEW t \in Threads, CreateReturns(t)
    PROVE  IInv'
<1>1. /\ pc[t].at = "spin" /\ ~creating /\ core = NoThread /\ core' = t /\ irq' = TRUE
      /\ systick' = NoThread /\ pc' = [pc EXCEPT ![t] = At("task")]
      /\ UNCHANGED <<creating, slot, stack, resume, alive, runTask, serves, orphans, hurt, aborted>>
      /\ pc \in [Threads -> Frame] /\ ThreadInv(t)
  BY DEF CreateReturns, kernel, IInv, RehostTypeOK
<1>2. pc'[t].at = "task" /\ At("task") \in Frame /\ \A u \in Threads \ {t} : pc'[u] = pc[u]
  BY <1>1, FrameFacts DEF Places
<1>3. RehostTypeOK'
  BY <1>1, <1>2 DEF IInv, RehostTypeOK
<1>4. ThreadInv(t)' /\ Dies(t)' = Dies(t)
  BY Zenon, <1>1, <1>2, RehostConstants DEF ThreadInv, Waits, Live, Dies, Flat, Deep, OnCore
<1>5. Goer(t) /\ Goer(t)'
  BY <1>1, <1>2 DEF Goer, Goers, Waits
<1>6. serves[t] = runTask /\ (t # Main => runTask \in alive)
  BY <1>1, <1>5, GoerFacts DEF Ends
<1> QED BY <1>1, <1>2, <1>3, <1>4, <1>5, <1>6, GoesOn

(* A call or a handler begins: the place it returns to is pushed. *)
LEMMA PushFacts ==
    ASSUME IInv, NEW t \in Threads, NEW f \in Frame,
           \/ pc[t].at \in Ground /\ f = At(pc[t].at)
           \/ pc[t].at = "deleting" /\ f = At("task")
           \/ pc[t].at \in {"tick", "tickback"} /\ f = At("tickback")
    PROVE  LET new == <<f>> \o stack[t]
           IN  /\ new \in Seq(Frame) /\ Nest(new) /\ new # <<>>
               /\ Bottom(new) = At("exiting") <=> Dies(t)
               /\ pc[t].at \in Ground => new = <<f>>
<1> DEFINE st == stack[t]
<1>1. st \in Seq(Frame) /\ ThreadInv(t)
  BY DEF IInv, RehostTypeOK
<1>2. At("task") # At("exiting") /\ At("deleting") # At("exiting")
  BY DEF At
<1>3. CASE pc[t].at \in Ground
  <2>1. st = <<>>
    BY <1>1, <1>3 DEF ThreadInv, Deep, Ground
  <2>2. PICK p \in Ground : f = At(p) /\ (p = "exiting" <=> pc[t].at = "exiting")
    BY <1>3 DEF Ground
  <2> HIDE DEF st
  <2>3. Dies(t) <=> pc[t].at = "exiting"
    BY <2>1 DEF Dies, st
  <2>4. /\ <<f>> \o st \in Seq(Frame) /\ Nest(<<f>> \o st) /\ Bottom(<<f>> \o st) = f
        /\ <<f>> \o st = <<f>>
    BY Zenon, <2>1, <2>2, NestOne
  <2> QED BY <1>2, <1>3, <2>2, <2>3, <2>4 DEF st, Ground
<1>4. CASE pc[t].at \in {"tick", "tickback"}
  <2>1. Nest(st)
    BY <1>1, <1>4 DEF ThreadInv, Flat
  <2>2. f = At("tickback")
    BY <1>4 DEF Ground
  <2> HIDE DEF st
  <2>3. Dies(t) <=> Bottom(st) = At("exiting")
    BY <1>4, <2>1 DEF Dies, st, Nest
  <2>4. /\ <<f>> \o st \in Seq(Frame) /\ Nest(<<f>> \o st) /\ Bottom(<<f>> \o st) = Bottom(st)
        /\ <<f>> \o st # <<>>
    BY Zenon, <1>1, <2>1, <2>2, NestPush
  <2> QED BY <1>4, <2>3, <2>4 DEF st, Ground
<1> QED BY <1>3, <1>4 DEF Ground

(* LOS_Schedule of a task that runs, ends or has deleted itself *)
LEMMA ScheduleInv ==
    ASSUME IInv, NEW t \in Threads, LOS_Schedule(t)
    PROVE  IInv'
<1>1. PICK back \in {"task", "exiting"}, p \in {"queued", "blocked"} :
         /\ \/ pc[t].at = "task" /\ back = "task"
            \/ pc[t].at = "deleting" /\ back = "task" /\ (p = "queued" <=> runTask \in alive)
            \/ pc[t].at = "exiting" /\ back = "exiting" /\ p = "blocked"
         /\ pc' = [pc EXCEPT ![t] = At(p)]
         /\ stack' = [stack EXCEPT ![t] = <<At(back)>> \o @]
  BY Zenon DEF LOS_Schedule
<1> DEFINE st == <<At(back)>> \o stack[t]
<1>2. /\ core = t /\ runTask # NoTask
      /\ UNCHANGED <<irq, core, systick, creating, slot, resume, alive, runTask, serves, orphans, hurt, aborted>>
      /\ pc \in [Threads -> Frame] /\ stack \in [Threads -> Seq(Frame)] /\ ThreadInv(t)
  BY DEF LOS_Schedule, locks, kernel, IInv, RehostTypeOK
<1>3. pc[t].at \in Ground /\ Goer(t)
  BY <1>1 DEF Ground, Goer, Goers
<1>4. /\ At(back) \in Frame /\ At(p) \in Frame /\ At(p).at = p
  BY FrameFacts DEF Places
<1>5. /\ st \in Seq(Frame) /\ Nest(st) /\ st # <<>>
      /\ Bottom(st) = At("exiting") <=> Dies(t)
  BY <1>1, <1>3, <1>4, PushFacts DEF Ground
<1> HIDE DEF st
<1>6. /\ pc'[t] = At(p) /\ pc'[t].at = p /\ stack'[t] = st
      /\ \A u \in Threads \ {t} : pc'[u] = pc[u] /\ stack'[u] = stack[u]
  BY <1>1, <1>2, <1>4 DEF st
<1>7. RehostTypeOK'
  <2>1. pc' \in [Threads -> Frame] /\ stack' \in [Threads -> Seq(Frame)]
    BY Zenon, <1>1, <1>2, <1>4, <1>5 DEF st
  <2> QED BY Zenon, <1>2, <2>1 DEF IInv, RehostTypeOK
<1>8. serves[t] = runTask /\ t # Main /\ (runTask \in alive \/ Ends(t))
  BY <1>1, <1>2, <1>3, GoerFacts
<1>9. Dies(t)' = Dies(t) /\ Goer(t)' /\ (Dies(t) => p = "blocked")
  <2>2. Dies(t) => p = "blocked"
    BY Zenon, <1>1, <1>2 DEF ThreadInv
  <2>3. Goer(t)'
    BY <1>1, <1>6 DEF Goer, Goers
  <2>4. pc'[t].at # "exiting"
    BY <1>1, <1>6
  <2>5. Dies(t)' = Dies(t)
    BY <1>5, <1>6, <2>4 DEF Dies
  <2> QED BY Zenon, <2>2, <2>3, <2>5
<1>10. ThreadInv(t)'
  <2>1. ~resume'[t] /\ serves'[t] # NoTask /\ Live(t)' /\ core' = t
    BY <1>1, <1>2, <1>3, <1>6, <1>8 DEF ThreadInv, Waits, Live, Ground
  <2>2. pc'[t].at \in {"queued", "blocked"} /\ (Dies(t)' => pc'[t].at = "blocked")
    BY Zenon, <1>6, <1>9
  <2> QED BY <1>5, <1>6, <1>8, <2>1, <2>2 DEF ThreadInv, Deep
<1>11. runTask' \in alive' \/ Ends(t)'
  BY <1>1, <1>2, <1>6, <1>8 DEF Ends
<1> QED BY Zenon, <1>1, <1>2, <1>3, <1>6, <1>7, <1>8, <1>9, <1>10, <1>11, GoesOn

(* The switch itself, in a task or in the tick handler: st is what is      *)
(* below it.                                                               *)
LEMMA SwitchInv ==
    ASSUME IInv, NEW t \in Threads, NEW x \in alive \ {runTask}, NEW st \in Seq(Frame),
           pc[t].at \in {"queued", "blocked", "tick"}, runTask # NoTask,
           Nest(st), Bottom(st) = At("exiting") <=> Dies(t),
           ArchTaskSchedule(t, x, st), UNCHANGED <<locks, slot, resume, hurt, aborted>>
    PROVE  IInv'
<1> DEFINE f == [at |-> "switch", new |-> x, run |-> runTask]
<1>1. /\ pc \in [Threads -> Frame] /\ stack \in [Threads -> Seq(Frame)] /\ ThreadInv(t)
      /\ x \in Tasks /\ runTask \in Tasks /\ Goer(t) /\ core = t
  <2>1. core = t
    BY Zenon DEF IInv, ThreadInv, OnCore
  <2> QED BY <2>1 DEF IInv, RehostTypeOK, Goer, Goers
<1>2. f \in Frame /\ f.at = "switch" /\ f.new = x /\ f.run = runTask
  BY <1>1, FrameFacts DEF Frame, Places
<1>3. /\ pc' = [pc EXCEPT ![t] = f] /\ stack' = [stack EXCEPT ![t] = st] /\ runTask' = x
      /\ UNCHANGED <<irq, core, systick, creating, slot, resume, alive, serves, orphans, hurt, aborted>>
  BY DEF ArchTaskSchedule, locks
<1>4. st # <<>>
  BY DEF Nest
<1> HIDE DEF f
<1>5. /\ pc'[t] = f /\ stack'[t] = st
      /\ \A u \in Threads \ {t} : pc'[u] = pc[u] /\ stack'[u] = stack[u]
  BY <1>1, <1>3
<1>6. RehostTypeOK'
  BY Zenon, <1>1, <1>2, <1>3 DEF IInv, RehostTypeOK
<1>7. serves[t] = runTask /\ t # Main
  BY <1>1, GoerFacts
<1>8. Dies(t)' = Dies(t) /\ Goer(t)'
  BY Zenon, <1>2, <1>4, <1>5 DEF Dies, Goer, Goers
<1>9. ThreadInv(t)'
  BY Zenon, <1>1, <1>2, <1>3, <1>4, <1>5, <1>7, <1>8 DEF ThreadInv, Waits, Live, Flat, Deep, OnCore
<1> QED BY Zenon, <1>1, <1>2, <1>3, <1>5, <1>6, <1>7, <1>8, <1>9, GoesOn

(* Systick_Signal_Handler interrupts the thread on the core. *)
LEMMA TickComesInv ==
    ASSUME IInv, hurt' = {}, NEW t \in Threads, Systick_Signal_Handler(t)
    PROVE  IInv'
<1> DEFINE f == pc[t]
           st == <<f>> \o stack[t]
<1>1. /\ pc[t].at \in Ground \cup {"tickback"} /\ core = t /\ runTask # NoTask
      /\ irq' = FALSE /\ systick' = t
      /\ pc' = [pc EXCEPT ![t] = At("tick")] /\ stack' = [stack EXCEPT ![t] = st]
      /\ UNCHANGED <<core, creating, slot, resume, alive, runTask, serves, orphans, aborted>>
  BY DEF Systick_Signal_Handler, TickComes, Ground, kernel
<1>2. /\ pc \in [Threads -> Frame] /\ stack \in [Threads -> Seq(Frame)] /\ ThreadInv(t)
      /\ Goer(t) /\ f \in Frame /\ f = At(pc[t].at)
  <2>1. pc[t].at \notin {"switch", "leave"}
    BY <1>1 DEF Ground
  <2> QED BY Zenon, <1>1, <2>1, FrameFacts DEF IInv, RehostTypeOK, Goer, Goers, Ground
<1>3. /\ st \in Seq(Frame) /\ Nest(st) /\ st # <<>>
      /\ Bottom(st) = At("exiting") <=> Dies(t)
      /\ pc[t].at \in Ground => st = <<f>>
  BY <1>1, <1>2, PushFacts
<1> HIDE DEF st
<1>4. /\ pc'[t] = At("tick") /\ At("tick") \in Frame /\ pc'[t].at = "tick" /\ stack'[t] = st
      /\ \A u \in Threads \ {t} : pc'[u] = pc[u] /\ stack'[u] = stack[u]
  BY <1>1, <1>2, FrameFacts DEF Places
<1>5. RehostTypeOK'
  BY Zenon, <1>1, <1>2, <1>3, <1>4 DEF IInv, RehostTypeOK
<1>6. serves[t] = runTask /\ t # Main /\ (runTask \in alive \/ Ends(t))
  <2>1. pc[t].at # "switch"
    BY <1>1 DEF Ground
  <2> QED BY <1>1, <1>2, <2>1, GoerFacts
<1>7. Dies(t)' = Dies(t) /\ Goer(t)'
  BY <1>3, <1>4 DEF Dies, Goer, Goers
<1>8. Dies(t) => st = <<At("exiting")>>
  BY <1>1, <1>2, <1>3 DEF ThreadInv, Ground
<1>9. ThreadInv(t)'
  <2>1. ~resume'[t] /\ serves'[t] # NoTask /\ Live(t)' /\ core' = t
    BY <1>1, <1>2, <1>4, <1>6 DEF ThreadInv, Waits, Live, Ground
  <2> QED BY <1>3, <1>4, <1>6, <1>7, <1>8, <2>1 DEF ThreadInv, Deep
<1>10. runTask' \in alive' \/ Ends(t)'
  <2>1. CASE Ends(t)
    <3>1. pc[t].at \in {"exiting", "deleting"}
      BY <1>1, <2>1 DEF Ends, Ground
    <3>2. Head(<<f>>) = f
      OBVIOUS
    <3>3. Head(st) \in {At("exiting"), At("deleting")}
      BY Zenon, <1>2, <1>3, <3>1, <3>2 DEF Ground
    <3> QED BY <1>3, <1>4, <3>3 DEF Ends
  <2> QED BY <1>1, <1>6, <2>1
<1>11. pc[t].at # "spin" /\ resume' = resume /\ pc'[t].at \notin {"spin", "switch"}
  BY <1>1, <1>4 DEF Ground
<1> QED BY Zenon, <1>1, <1>2, <1>11, <1>4, <1>5, <1>6, <1>7, <1>9, <1>10, GoesOn

(* OsTickHandler switches to another task or returns; what it interrupted  *)
(* is no OsSchedTaskSwitch.                                                *)
LEMMA TickHandlerInv ==
    ASSUME IInv, NEW t \in Threads, OsTickHandler(t)
    PROVE  IInv' /\ aborted' = aborted
<1> DEFINE st == <<At("tickback")>> \o stack[t]
<1>1. pc[t].at = "tick" /\ pc \in [Threads -> Frame] /\ ThreadInv(t) /\ Goer(t)
      /\ stack[t] \in Seq(Frame) /\ Nest(stack[t])
  BY DEF OsTickHandler, IInv, RehostTypeOK, Goer, Goers, ThreadInv, Flat
<1>2. serves[t] = runTask /\ t # Main /\ runTask # NoTask
  BY Zenon, <1>1, GoerFacts DEF ThreadInv, Live, Flat
<1>3. Head(stack[t]).at # "queued"
  <2>1. Head(stack[t]) \in {At(q) : q \in Ground \cup {"tickback"}}
    BY Zenon, <1>1, NestPop DEF Nest
  <2> QED BY <2>1 DEF At, Ground
<1>4. CASE \E x \in alive \ {runTask} : ArchTaskSchedule(t, x, st) /\ UNCHANGED <<locks, slot, resume, hurt, aborted>>
  <2>1. PICK x \in alive \ {runTask} : ArchTaskSchedule(t, x, st) /\ UNCHANGED <<locks, slot, resume, hurt, aborted>>
    BY <1>4
  <2>2. At("tickback") \in Frame
    BY FrameFacts DEF Places
  <2>3. st \in Seq(Frame) /\ Nest(st) /\ (Bottom(st) = At("exiting") <=> Dies(t))
    BY <1>1, <2>2, PushFacts
  <2> HIDE DEF st
  <2> QED BY Zenon, <1>1, <1>2, <2>1, <2>3, SwitchInv
<1>5. CASE /\ runTask \in alive /\ pc' = [pc EXCEPT ![t] = At("tickend")]
           /\ UNCHANGED <<locks, slot, stack, resume, kernel, hurt, aborted>>
  <2>1. UNCHANGED <<irq, core, systick, creating, slot, stack, resume, alive, runTask, serves, orphans, hurt, aborted>>
    BY <1>5 DEF locks, kernel
  <2>2. /\ pc'[t] = At("tickend") /\ At("tickend") \in Frame /\ pc'[t].at = "tickend"
        /\ \A u \in Threads \ {t} : pc'[u] = pc[u]
    BY Zenon, <1>1, <1>5, FrameFacts DEF Places
  <2>3. RehostTypeOK'
    BY <1>5, <2>1, <2>2 DEF IInv, RehostTypeOK
  <2>4. Dies(t)' = Dies(t) /\ Goer(t)'
    BY <1>1, <2>1, <2>2 DEF Dies, Goer, Goers
  <2>5. ThreadInv(t)'
    BY Zenon, <1>1, <1>2, <2>1, <2>2, <2>4 DEF ThreadInv, Waits, Live, Flat, Deep, OnCore
  <2> QED BY Zenon, <1>1, <1>2, <1>5, <2>1, <2>2, <2>3, <2>4, <2>5, GoesOn
<1> QED BY Zenon, <1>3, <1>4, <1>5 DEF OsTickHandler

(* The return to what was pushed *)
LEMMA ReturnInv ==
    ASSUME IInv, NEW t \in Threads, pc[t].at \in {"tickend", "tickback", "relock", "queued"},
           core \in {t, NoThread}, core' = t,
           irq' \in BOOLEAN, systick' \in Threads \cup {NoThread},
           pc' = [pc EXCEPT ![t] = Head(stack[t])], stack' = [stack EXCEPT ![t] = Tail(@)],
           UNCHANGED <<creating, slot, resume, alive, runTask, serves, orphans, hurt, aborted>>
    PROVE  IInv'
<1> DEFINE st == stack[t]
<1>1. /\ pc \in [Threads -> Frame] /\ stack \in [Threads -> Seq(Frame)] /\ ThreadInv(t)
      /\ Goer(t) /\ st \in Seq(Frame) /\ Nest(st) /\ t # Main
  BY Zenon DEF IInv, RehostTypeOK, Goer, Goers, Waits, ThreadInv, Flat
<1>2. serves[t] = runTask /\ runTask \in alive
  BY <1>1, GoerFacts DEF Ends
<1>3. /\ Head(st) \in Frame /\ Tail(st) \in Seq(Frame)
      /\ \/ Head(st) = Bottom(st) /\ Tail(st) = <<>>
         \/ /\ Head(st) = At("tickback") /\ Nest(Tail(st))
            /\ Bottom(Tail(st)) = Bottom(st) /\ Tail(st) # <<>>
  BY <1>1, NestPop
<1>4. st # <<>> /\ Bottom(st) \in {At(p) : p \in Ground}
  BY <1>1 DEF Nest
<1>5. Dies(t) <=> Bottom(st) = At("exiting")
  BY <1>4 DEF Dies
<1>6. Dies(t) => Tail(st) = <<>>
  <2>1. ASSUME Dies(t)
        PROVE  st = <<At("exiting")>>
    BY Zenon, <1>1, <2>1 DEF ThreadInv, Waits
  <2>2. Tail(<<At("exiting")>>) = <<>>
    OBVIOUS
  <2> QED BY Zenon, <2>1, <2>2
<1> HIDE DEF st
<1>7. /\ pc'[t] = Head(st) /\ stack'[t] = Tail(st)
      /\ \A u \in Threads \ {t} : pc'[u] = pc[u] /\ stack'[u] = stack[u]
  BY <1>1 DEF st
<1>8. RehostTypeOK'
  <2>1. pc' \in [Threads -> Frame] /\ stack' \in [Threads -> Seq(Frame)]
    BY <1>1, <1>3 DEF st
  <2> QED BY <2>1 DEF IInv, RehostTypeOK
<1>9. At("tickback").at = "tickback" /\ \A p \in Ground : At(p).at = p
  BY DEF At
<1>10. /\ ~resume'[t] /\ serves'[t] # NoTask /\ serves'[t] = runTask' /\ pc[t].at # "spin"
       /\ \A u \in Threads \ {t} : resume'[u] = resume[u]
  BY Zenon, <1>1, <1>2 DEF ThreadInv, Waits, Live
<1>11. CASE Head(st) = Bottom(st) /\ Tail(st) = <<>>
  <2>1. PICK p \in Ground : pc'[t] = At(p) /\ At(p).at = p
    <3>1. PICK p \in Ground : Bottom(st) = At(p)
      BY <1>4
    <3> QED BY Zenon, <1>7, <1>9, <1>11, <3>1
  <2>3. /\ Dies(t)' <=> p = "exiting"
        /\ Dies(t) <=> p = "exiting"
    <3>1. Bottom(st) = At("exiting") <=> p = "exiting"
      BY <1>7, <1>11, <2>1 DEF At
    <3> QED BY Zenon, <1>5, <1>7, <1>11, <2>1, <3>1 DEF Dies
  <2>4. /\ Goer(t)' /\ pc'[t].at \in Ground
        /\ Dies(t)' => pc'[t].at = "exiting"
    BY Zenon, <2>1, <2>3 DEF Goer, Goers, Ground
  <2>2. ThreadInv(t)'
    BY <1>1, <1>7, <1>11, <1>10, <2>4 DEF ThreadInv, Live, Flat, Ground
  <2>5. Dies(t)' = Dies(t) /\ pc'[t].at \notin {"spin", "switch"}
    BY <2>3, <2>4 DEF Ground, Dies
  <2> QED BY Zenon, <1>1, <1>2, <1>7, <1>8, <1>10, <2>2, <2>4, <2>5, GoesOn
<1>12. CASE /\ Head(st) = At("tickback") /\ Nest(Tail(st))
            /\ Bottom(Tail(st)) = Bottom(st) /\ Tail(st) # <<>>
  <2>1. Dies(t)' = Dies(t) /\ ~Dies(t)' /\ Goer(t)' /\ pc'[t].at = "tickback"
    BY Zenon, <1>5, <1>6, <1>7, <1>9, <1>12 DEF Dies, Goer, Goers, Waits
  <2>2. ThreadInv(t)'
    BY Zenon, <1>1, <1>7, <1>12, <1>10, <2>1 DEF ThreadInv, Waits, Live, Deep
  <2> QED BY Zenon, <1>1, <1>2, <1>7, <1>8, <1>10, <2>1, <2>2, GoesOn
<1> QED BY <1>3, <1>11, <1>12

(* OsSchedTaskSwitch of a task goes over to another task or returns. *)
LEMMA TaskSwitchInv ==
    ASSUME IInv, NEW t \in Threads, OsSchedTaskSwitch(t)
    PROVE  IInv'
<1> DEFINE st == stack[t]
<1>1. /\ pc[t].at \in {"queued", "blocked"} /\ ThreadInv(t) /\ Goer(t) /\ core = t
      /\ stack \in [Threads -> Seq(Frame)]
  BY Zenon DEF OsSchedTaskSwitch, IInv, RehostTypeOK, Goer, Goers, ThreadInv, OnCore
<1>2. st \in Seq(Frame) /\ Nest(st) /\ t # Main
  BY <1>1 DEF ThreadInv, Flat
<1>3. serves[t] = runTask /\ runTask # NoTask
  BY Zenon, <1>1, <1>2, GoerFacts DEF ThreadInv, Live, Flat
<1>4. CASE \E x \in alive \ {runTask} : ArchTaskSchedule(t, x, st)
  <2>1. Bottom(st) = At("exiting") <=> Dies(t)
    BY Zenon, <1>1, <1>2 DEF Dies, Nest
  <2> HIDE DEF st
  <2> QED BY Zenon, <1>1, <1>2, <1>3, <1>4, <2>1, SwitchInv DEF OsSchedTaskSwitch
<1>5. CASE ~\E x \in alive \ {runTask} : ArchTaskSchedule(t, x, st)
  <2>1. /\ pc[t].at = "queued" /\ pc' = [pc EXCEPT ![t] = Head(stack[t])]
        /\ stack' = [stack EXCEPT ![t] = Tail(@)]
        /\ UNCHANGED <<irq, core, systick, creating, slot, resume, alive, runTask, serves, orphans, hurt, aborted>>
    BY Zenon, <1>5 DEF OsSchedTaskSwitch, locks, kernel
  <2>2. irq' \in BOOLEAN /\ systick' \in Threads \cup {NoThread}
    BY <2>1 DEF IInv, RehostTypeOK
  <2> QED BY Zenon, <1>1, <2>1, <2>2, ReturnInv
<1> QED BY <1>4, <1>5

(* The end of a tick handler *)
LEMMA TickReturnInv ==
    ASSUME IInv, NEW t \in Threads, TickReturn(t)
    PROVE  IInv'
<1>1. core = t
  BY Zenon DEF TickReturn, IInv, ThreadInv, Waits, OnCore
<1> QED BY Zenon, <1>1, ReturnInv DEF TickReturn, kernel

(* Suspend_Thread_Self: the resumed thread has the core again. *)
LEMMA ResumedInv ==
    ASSUME IInv, NEW t \in Threads, Resumed(t)
    PROVE  IInv'
<1>1. systick \in Threads \cup {NoThread}
  BY DEF IInv, RehostTypeOK
<1> QED BY Zenon, <1>1, ReturnInv DEF Resumed, kernel

(* Suspend_Thread_Self: sigwait takes the pending SIG_RESUME. *)
LEMMA SigwaitReturnsInv ==
    ASSUME IInv, NEW t \in Threads, SigwaitReturns(t)
    PROVE  IInv'
<1>1. /\ pc[t].at = "sigwait" /\ resume[t] /\ pc' = [pc EXCEPT ![t] = At("relock")]
      /\ resume' = [resume EXCEPT ![t] = FALSE]
      /\ UNCHANGED <<irq, core, systick, creating, slot, stack, alive, runTask, serves, orphans, hurt, aborted>>
      /\ pc \in [Threads -> Frame] /\ resume \in [Threads -> BOOLEAN] /\ ThreadInv(t) /\ Goer(t)
  BY DEF SigwaitReturns, locks, kernel, IInv, RehostTypeOK, Goer, Waits
<1>2. /\ pc'[t].at = "relock" /\ At("relock") \in Frame /\ ~resume'[t]
      /\ \A u \in Threads \ {t} : pc'[u] = pc[u] /\ resume'[u] = resume[u]
  BY <1>1, FrameFacts DEF Places
<1>3. RehostTypeOK'
  BY <1>1, <1>2 DEF IInv, RehostTypeOK
<1>4. Dies(t)' = Dies(t) /\ Goer(t)' /\ t # Main
  BY Zenon, <1>1, <1>2 DEF Dies, Goer, Goers, Waits, ThreadInv
<1>5. ThreadInv(t)'
  BY Zenon, <1>1, <1>2, <1>4 DEF ThreadInv, Waits, Live, Flat, Deep, OnCore
<1>6. serves[t] = runTask /\ runTask \in alive
  BY <1>1, <1>4, GoerFacts DEF Ends
<1> QED BY Zenon, <1>1, <1>2, <1>3, <1>4, <1>5, <1>6, GoesOn

(* Suspend_Thread_Self: the thread that gave up the core comes to sigwait. *)
LEMMA SigwaitInv ==
    ASSUME IInv, NEW t \in Threads, sigwait(t)
    PROVE  IInv'
<1>1. /\ pc[t].at = "unlocked" /\ pc' = [pc EXCEPT ![t] = At("sigwait")]
      /\ UNCHANGED <<irq, core, systick, creating, slot, stack, resume, alive, runTask, serves, orphans, hurt, aborted>>
      /\ pc \in [Threads -> Frame] /\ ThreadInv(t)
  BY DEF sigwait, locks, kernel, IInv, RehostTypeOK
<1>2. pc'[t].at = "sigwait" /\ At("sigwait") \in Frame /\ \A u \in Threads \ {t} : pc'[u] = pc[u]
  BY <1>1, FrameFacts DEF Places
<1>3. RehostTypeOK'
  BY Zenon, <1>1, <1>2 DEF IInv, RehostTypeOK
<1>4. /\ Dies(t)' = Dies(t) /\ Goer(t)' = Goer(t) /\ Live(t)' = Live(t) /\ ~Fresh(t)' /\ t # Main
  BY <1>1, <1>2 DEF Dies, Goer, Goers, Waits, Live, Fresh, ThreadInv, Flat
<1>5. ThreadInv(t)'
  BY Zenon, <1>1, <1>2, <1>4 DEF ThreadInv, Waits, Flat, Deep, OnCore
<1>6. CASE Goer(t)
  <2>1. serves[t] = runTask /\ runTask \in alive
    BY <1>1, <1>4, <1>6, GoerFacts DEF Ends
  <2> QED BY Zenon, <1>1, <1>2, <1>3, <1>4, <1>5, <1>6, <2>1, GoesOn
<1>7. CASE ~Goer(t)
  <2>1. /\ \A u \in Threads : ThreadInv(u)'
        /\ SlotsInv' /\ OwnTasks' /\ FirstInv'
        /\ \A u \in Threads \ {t} : Fresh(u)' = Fresh(u) /\ Goer(u)' = Goer(u)
    BY Zenon, <1>1, <1>2, <1>4, <1>5, <1>7, OneThread
  <2>2. FreshInv'
    BY <1>1, <1>2, <1>4, FreshKept DEF IInv
  <2>3. \E a \in Threads : Runs(a)'
    BY <1>1, <1>2, <1>4, <1>7, <2>1, RunsOn
  <2> QED BY <1>3, <2>1, <2>2, <2>3 DEF IInv
<1> QED BY <1>6, <1>7

----------------------------------------------------------------------------
(* The thread of a valid slot waits to be resumed, unless it runs itself:  *)
(* it is not on its way to sigwait, since the core is taken, and not just  *)
(* created, since its creator would be the one that runs.                  *)
LEMMA ResumeTarget ==
    ASSUME IInv, NEW t \in Threads, Goer(t), core = t, pc[t].at # "spin",
           NEW i \in Slots, slot[i].valid, slot[i].thread # t
    PROVE  LET n == slot[i].thread
           IN  /\ n \in Threads /\ n # Main /\ pc[n].at \in Waits /\ ~resume[n]
               /\ serves[n] = slot[i].task
<1> DEFINE n == slot[i].thread
<1>1. n \in Threads /\ Live(n) /\ serves[n] = slot[i].task
  BY Zenon DEF IInv, SlotsInv, SlotInv
<1>2. ThreadInv(n) /\ n # t /\ n # Main
  BY Zenon, <1>1 DEF IInv, Live
<1> HIDE DEF n
<1>3. ~Goer(n)
  BY <1>1, <1>2, GoerFacts
<1>4. ~Fresh(n)
  <2>1. ASSUME NEW c \in Threads, pc[c].at = "spin"
        PROVE  FALSE
    BY <2>1, GoerFacts DEF Goer, Goers, Waits
  <2> QED BY <1>1, <2>1 DEF IInv, FreshInv
<1>5. pc[n].at # "leave"
  BY <1>2 DEF ThreadInv, Waits, OnCore
<1>6. pc[n].at \in Waits /\ ~resume[n]
  BY Zenon, <1>1, <1>2, <1>3, <1>4, <1>5 DEF Goer, Goers, Waits, Fresh, Live, ThreadInv, Flat, Deep
<1> QED BY Zenon, <1>1, <1>2, <1>6 DEF n

(* The first valid slot of a living task is its first slot at all, when no *)
(* thread of the task is ending.                                           *)
LEMMA FirstIs ==
    ASSUME IInv, NEW x \in alive, NEW i \in Slots,
           IsFirst(i, {j \in Slots : slot[j].task = x /\ slot[j].valid}),
           \A u \in Threads : Dies(u) => serves[u] # x
    PROVE  First(slot[i].thread)
<1>1. /\ slot[i].task = x /\ slot[i].valid
      /\ \A j \in Slots : slot[j].task = x /\ slot[j].valid => i <= j
  BY DEF IsFirst
<1>2. serves[slot[i].thread] = x
  BY Zenon, <1>1 DEF IInv, SlotsInv, SlotInv
<1>3. ASSUME NEW j \in Slots, slot[j].task = x, ~slot[j].valid
      PROVE  i <= j
  <2>1. SlotInv(j) /\ x # NoTask
    BY FrameFacts DEF IInv, SlotsInv, RehostTypeOK
  <2>2. x = Idle
    BY Zenon, <1>3, <2>1 DEF SlotInv
  <2>3. slot[0].valid /\ slot[0].task = Idle /\ 0 \in Slots
    BY FrameFacts DEF IInv, SlotsInv
  <2>4. i <= 0 /\ 0 <= j
    BY <1>1, <2>2, <2>3 DEF Slots
  <2> QED BY <2>4 DEF Slots
<1>4. \A j \in Slots : slot[j].task = x => i <= j
  BY <1>1, <1>3
<1> QED BY Zenon, <1>2, <1>4 DEF First

(* Thread t hands over to thread n, which waits for it. *)
LEMMA HandOver ==
    ASSUME IInv, RehostTypeOK', NEW t \in Threads, NEW n \in Threads, n # t, n # Main,
           Goer(t), pc[t].at # "spin", pc[n].at \in Waits, First(n),
           \A u \in Threads \ {t} : pc'[u] = pc[u], stack' = stack,
           resume' = [resume EXCEPT ![n] = TRUE],
           core' = core, slot' = slot, alive' = alive, serves' = serves, orphans' = orphans,
           ThreadInv(t)', Dies(t)' = Dies(t), pc[t].at # "none",
           pc'[t].at = "leave" \/ (pc'[t].at = "park" /\ t = Main),
           runTask' = serves[n], runTask' \in alive
    PROVE  IInv'
<1>1. \A u \in Threads : ThreadInv(u) /\ (u # t => ~Goer(u))
  BY Zenon, GoerFacts DEF IInv
<1>2. /\ resume'[n] /\ \A u \in Threads \ {n} : resume'[u] = resume[u]
  BY DEF IInv, RehostTypeOK
<1>3. ThreadInv(n)' /\ Live(n)' = Live(n) /\ Dies(n)' = Dies(n) /\ Goer(n)'
  <2>1. Live(n)' = Live(n) /\ Dies(n)' = Dies(n) /\ Goer(n)' /\ pc'[n] = pc[n] /\ stack'[n] = stack[n]
    BY Zenon, <1>2 DEF Live, Dies, Goer
  <2> QED BY Zenon, <1>1, <2>1 DEF ThreadInv
<1>4. ASSUME NEW u \in Threads \ {t, n}
      PROVE  /\ ThreadInv(u)' /\ Live(u)' = Live(u) /\ Dies(u)' = Dies(u)
             /\ Goer(u)' = Goer(u)
  BY Zenon, <1>1, <1>2, OtherThread
<1>5. Live(t)' = Live(t) /\ ~Goer(t)' /\ ~Fresh(t)'
  BY Zenon DEF Live, Goer, Goers, Waits, Fresh
<1>6. SlotsInv' /\ OwnTasks'
  BY Zenon, <1>3, <1>4, <1>5, SlotsKept DEF IInv
<1>7. ASSUME NEW c \in Threads
      PROVE  pc[c].at # "spin" /\ pc'[c].at # "spin"
  BY <1>1 DEF Goer, Goers
<1>8. \A u \in Threads : ~Fresh(u)'
  <2>1. \A u \in Threads : ~Fresh(u)
    BY Zenon, <1>7 DEF IInv, FreshInv
  <2> QED BY Zenon, <1>5, <2>1 DEF Fresh
<1>9. Runs(n)'
  <2>1. \A u \in Threads : Goer(u)' <=> u = n
    BY Zenon, <1>1, <1>3, <1>4, <1>5
  <2>2. pc'[n].at # "switch"
    BY DEF Waits
  <2> QED BY <2>1, <2>2 DEF Runs
<1>10. FirstInv'
  <2>1. \A u \in Threads : First(u)' = First(u)
    BY DEF First
  <2>2. ASSUME NEW u \in Threads \ {t, n}, u # Main, Goer(u)' \/ pc'[u].at = "leave"
        PROVE  First(u)
    BY Zenon, <1>4, <2>2 DEF IInv, FirstInv
  <2>3. t # Main => First(t)
    BY Zenon DEF IInv, FirstInv
  <2> QED BY Zenon, <2>1, <2>2, <2>3 DEF FirstInv
<1> QED BY Zenon, <1>3, <1>4, <1>6, <1>7, <1>8, <1>9, <1>10 DEF IInv, FreshInv

(* Start_Scheduler resumes the thread of the first task and parks the boot code. *)
LEMMA StartInv ==
    ASSUME IInv, hurt' = {}, NEW t \in Threads, Start_Scheduler(t)
    PROVE  IInv'
<1>1. PICK x \in alive, i \in Slots :
         /\ IsFirst(i, {j \in Slots : slot[j].task = x /\ slot[j].valid})
         /\ runTask' = x /\ ResumeThread(slot[i].thread)
  BY Zenon DEF Start_Scheduler
<1>2. /\ t = Main /\ pc[t].at = "task" /\ core = t /\ creating' = TRUE
      /\ pc' = [pc EXCEPT ![t] = At("park")]
      /\ UNCHANGED <<irq, core, systick, slot, stack, alive, serves, orphans, aborted>>
      /\ pc \in [Threads -> Frame] /\ resume \in [Threads -> BOOLEAN] /\ ThreadInv(t) /\ Goer(t)
  BY DEF Start_Scheduler, IInv, RehostTypeOK, Goer, Goers, Waits
<1>3. slot[i].task = x /\ slot[i].valid
  BY <1>1 DEF IsFirst
<1> DEFINE n == slot[i].thread
<1>4. n # t
  BY Zenon, <1>2, <1>3 DEF IInv, SlotsInv, SlotInv, Live
<1>5. n \in Threads /\ n # Main /\ pc[n].at \in Waits /\ ~resume[n] /\ serves[n] = x
  BY Zenon, <1>2, <1>3, <1>4, ResumeTarget
<1>6. resume' = [resume EXCEPT ![n] = TRUE]
  <2>1. Keeps(n)
    BY <1>1 DEF ResumeThread
  <2> QED BY Zenon, <1>1, <1>2, <1>5, <2>1 DEF ResumeThread
<1>10. First(n)
  <2>1. \A u \in Threads : ~Dies(u)
    BY <1>2 DEF IInv, ThreadInv
  <2> QED BY Zenon, <1>1, <2>1, FirstIs
<1> HIDE DEF n
<1>7. pc'[t].at = "park" /\ At("park") \in Frame /\ \A u \in Threads \ {t} : pc'[u] = pc[u]
  BY <1>2, FrameFacts DEF Places
<1>8. RehostTypeOK'
  BY <1>1, <1>2, <1>5, <1>6, <1>7 DEF IInv, RehostTypeOK
<1>9. ThreadInv(t)' /\ Dies(t)' = Dies(t)
  <2>1. ~resume'[t]
    BY <1>2, <1>4, <1>5, <1>6 DEF ThreadInv, Waits
  <2> QED BY Zenon, <1>2, <1>7, <2>1 DEF ThreadInv, Waits, Live, Dies, Flat, Deep, OnCore
<1> QED BY Zenon, <1>1, <1>2, <1>4, <1>5, <1>6, <1>7, <1>8, <1>9, <1>10, HandOver

(* A thread that switches runs the task it leaves, and the task it goes to *)
(* has a slot.                                                             *)
LEMMA SwitchFinds ==
    ASSUME IInv, NEW t \in Threads, pc[t].at = "switch"
    PROVE  /\ Goer(t) /\ core = t /\ pc[t].new = runTask /\ runTask \in alive /\ pc[t].new # pc[t].run
           /\ pc[t].run = serves[t] /\ ThreadInv(t)
           /\ \E i \in Slots : slot[i].task = pc[t].new /\ slot[i].valid
<1>1. PICK a \in Threads : Runs(a)
  BY Zenon DEF IInv
<1>2. ThreadInv(t) /\ Goer(t) /\ t # Main
  BY DEF IInv, Goer, Goers, ThreadInv, Flat
<1>3. a = t
  BY <1>1, <1>2 DEF Runs
<1>4. pc[t].new = runTask /\ pc[t].new \in alive /\ pc[t].new # pc[t].run
  BY <1>1, <1>2, <1>3 DEF Runs, Ends
<1> QED BY Zenon, <1>2, <1>4 DEF ThreadInv, Waits, OnCore, IInv, SlotsInv

(* Pthread_Schedule finds the slot of the new task and resumes its thread. *)
LEMMA HandOverInv ==
    ASSUME IInv, hurt' = {}, NEW t \in Threads, Pthread_Schedule(t)
    PROVE  IInv' /\ aborted' = aborted
<1>1. /\ pc[t].at = "switch" /\ Goer(t) /\ core = t /\ pc[t].new = runTask /\ runTask \in alive
      /\ pc[t].new # pc[t].run /\ pc[t].run = serves[t] /\ ThreadInv(t)
      /\ {j \in Slots : slot[j].task = pc[t].new /\ slot[j].valid} # {}
  BY SwitchFinds DEF Pthread_Schedule
<1>2. PICK i \in Slots :
         /\ IsFirst(i, {j \in Slots : slot[j].task = pc[t].new /\ slot[j].valid})
         /\ IF slot[i].thread = t
            THEN /\ pc' = [pc EXCEPT ![t] = Head(stack[t])]
                 /\ stack' = [stack EXCEPT ![t] = Tail(@)]
                 /\ UNCHANGED <<irq, systick, resume, hurt>>
            ELSE /\ ResumeThread(slot[i].thread)
                 /\ systick' = NoThread /\ irq' = TRUE
                 /\ pc' = [pc EXCEPT ![t].at = "leave"]
                 /\ UNCHANGED stack
         /\ UNCHANGED <<core, creating, slot, kernel, aborted>>
  BY Zenon, <1>1 DEF Pthread_Schedule
<1>3. slot[i].task = runTask /\ slot[i].valid
  BY <1>1, <1>2 DEF IsFirst
<1> DEFINE n == slot[i].thread
<1>4. n # t
  <2>1. SlotInv(i)
    BY Zenon DEF IInv, SlotsInv
  <2>2. serves[n] = runTask
    BY Zenon, <1>3, <2>1 DEF SlotInv
  <2> QED BY Zenon, <1>1, <2>2
<1>5. n \in Threads /\ n # Main /\ pc[n].at \in Waits /\ ~resume[n] /\ serves[n] = runTask
  BY Zenon, <1>1, <1>3, <1>4, ResumeTarget
<1>6. /\ resume' = [resume EXCEPT ![n] = TRUE] /\ systick' = NoThread /\ irq' = TRUE
      /\ pc' = [pc EXCEPT ![t].at = "leave"]
      /\ UNCHANGED <<core, creating, slot, stack, alive, runTask, serves, orphans, aborted>>
      /\ resume \in [Threads -> BOOLEAN] /\ pc \in [Threads -> Frame]
  <2>1. Keeps(n)
    BY <1>2, <1>4 DEF ResumeThread
  <2> QED BY Zenon, <1>2, <1>4, <1>5, <2>1 DEF ResumeThread, kernel, IInv, RehostTypeOK
<1>10. First(n)
  <2>1. \A u \in Threads : Dies(u) => serves[u] # runTask
    BY <1>1 DEF IInv, ThreadInv
  <2> QED BY Zenon, <1>1, <1>2, <2>1, FirstIs
<1> HIDE DEF n
<1>7. /\ pc'[t].at = "leave" /\ pc'[t].run = pc[t].run /\ pc'[t] \in Frame
      /\ \A u \in Threads \ {t} : pc'[u] = pc[u]
  <2>1. pc[t] \in [at : {"switch", "leave"}, new : Tasks, run : Tasks]
    BY <1>1, <1>6 DEF Frame, At, Places
  <2> QED BY <1>6, <2>1 DEF Frame
<1>8. RehostTypeOK'
  <2>1. pc' \in [Threads -> Frame] /\ resume' \in [Threads -> BOOLEAN]
    BY Zenon, <1>6, <1>7
  <2> QED BY <1>6, <2>1 DEF IInv, RehostTypeOK
<1>9. ThreadInv(t)' /\ Dies(t)' = Dies(t)
  <2>1. ~resume'[t] /\ Dies(t)' = Dies(t) /\ t # Main /\ Live(t) /\ Live(t)'
    BY <1>1, <1>4, <1>6, <1>7 DEF ThreadInv, Waits, Dies, Live, Flat
  <2> QED BY <1>1, <1>6, <1>7, <2>1 DEF ThreadInv, Waits, Flat, Deep, OnCore
<1> QED BY Zenon, <1>1, <1>4, <1>5, <1>6, <1>7, <1>8, <1>9, <1>10, HandOver

(* The first slot of the task that ran is the thread's own. *)
LEMMA OwnSlotIs ==
    ASSUME IInv, NEW t \in Threads, pc[t].at = "leave"
    PROVE  \E i \in Slots : /\ OwnSlot(t, i) /\ slot[i].thread = t /\ SlotInv(i)
                            /\ \A j \in Slots : OwnSlot(t, j) => j = i
<1>1. ThreadInv(t) /\ t # Main /\ pc[t].run = serves[t] /\ First(t)
  BY Zenon DEF IInv, ThreadInv, Flat, FirstInv
<1>2. PICK i \in Slots : slot[i].thread = t /\ \A j \in Slots : slot[j].task = serves[t] => i <= j
  BY Zenon, <1>1 DEF First
<1>3. t # NoThread /\ \A j \in Slots : j \in Int
  BY RehostConstants DEF Slots
<1>4. SlotInv(i) /\ slot[i].task = serves[t]
  BY Zenon, <1>2, <1>3 DEF IInv, SlotsInv, SlotInv
<1>5. OwnSlot(t, i)
  BY <1>1, <1>2, <1>4 DEF OwnSlot, IsFirst
<1>6. \A j \in Slots : OwnSlot(t, j) => j = i
  BY <1>3, <1>5 DEF OwnSlot, IsFirst
<1> QED BY <1>2, <1>4, <1>5, <1>6

(* Suspend_Thread_Self: a thread that stays gives up the core and waits. *)
LEMMA SuspendInv ==
    ASSUME IInv, NEW t \in Threads, Suspend_Thread_Self(t)
    PROVE  IInv'
<1>1. /\ pc[t].at = "leave" /\ irq' = FALSE /\ core' = NoThread
      /\ pc' = [pc EXCEPT ![t] = At("unlocked")]
      /\ UNCHANGED <<systick, creating, slot, stack, resume, alive, runTask, serves, orphans, hurt, aborted>>
      /\ pc \in [Threads -> Frame] /\ ThreadInv(t)
  BY DEF Suspend_Thread_Self, kernel, IInv, RehostTypeOK
<1>2. PICK i \in Slots : slot[i].thread = t /\ SlotInv(i) /\ slot[i].valid
  BY <1>1, OwnSlotIs DEF Suspend_Thread_Self
<1>3. ~Dies(t) /\ core = t /\ t # Main /\ ~resume[t]
  BY Zenon, <1>1, <1>2, RehostConstants DEF SlotInv, ThreadInv, Waits, OnCore, Flat
<1>4. pc'[t].at = "unlocked" /\ At("unlocked") \in Frame /\ \A u \in Threads \ {t} : pc'[u] = pc[u]
  BY Zenon, <1>1, FrameFacts DEF Places
<1>5. RehostTypeOK'
  BY Zenon, <1>1, <1>4 DEF IInv, RehostTypeOK
<1>6. /\ Dies(t)' = Dies(t) /\ Live(t)' = Live(t) /\ ~Goer(t) /\ ~Goer(t)' /\ ~Fresh(t)'
  BY Zenon, <1>1, <1>3, <1>4 DEF Dies, Live, Goer, Goers, Waits, Fresh
<1>7. ThreadInv(t)'
  BY Zenon, <1>1, <1>3, <1>4, <1>6 DEF ThreadInv, Waits, Flat, Deep, OnCore
<1>8. /\ \A u \in Threads : ThreadInv(u)'
      /\ SlotsInv' /\ OwnTasks' /\ FirstInv'
      /\ \A u \in Threads \ {t} : Fresh(u)' = Fresh(u) /\ Goer(u)' = Goer(u)
  BY Zenon, <1>1, <1>3, <1>4, <1>6, <1>7, OneThread
<1>9. FreshInv'
  BY <1>1, <1>3, <1>4, <1>6, FreshKept DEF IInv
<1>10. \E a \in Threads : Runs(a)'
  BY <1>1, <1>4, <1>6, <1>8, RunsOn
<1> QED BY <1>5, <1>8, <1>9, <1>10 DEF IInv

(* Pthread_Schedule: a thread whose slot is not valid ends and frees the slot. *)
LEMMA ExitInv ==
    ASSUME IInv, NEW t \in Threads, pthread_exit(t)
    PROVE  IInv'
<1>1. /\ pc[t].at = "leave" /\ core' = NoThread /\ pc' = [pc EXCEPT ![t] = At("none")]
      /\ stack' = [stack EXCEPT ![t] = <<>>] /\ serves' = [serves EXCEPT ![t] = NoTask]
      /\ UNCHANGED <<irq, systick, creating, resume, alive, runTask, orphans, hurt, aborted>>
      /\ RehostTypeOK /\ ThreadInv(t)
  BY DEF pthread_exit, IInv
<1>2. PICK i \in Slots :
         /\ slot[i].thread = t /\ ~slot[i].valid
         /\ slot' = [slot EXCEPT ![i].task = NoTask, ![i].thread = NoThread]
  BY Zenon DEF pthread_exit
<1>3. core = t /\ t # Main /\ ~resume[t] /\ t # NoThread
  BY Zenon, <1>1, RehostConstants DEF ThreadInv, Waits, OnCore, Flat
<1>4. /\ pc'[t].at = "none" /\ stack'[t] = <<>> /\ serves'[t] = NoTask /\ At("none") \in Frame
      /\ \A u \in Threads \ {t} : pc'[u] = pc[u] /\ stack'[u] = stack[u] /\ serves'[u] = serves[u]
  BY Zenon, <1>1, FrameFacts DEF Places, RehostTypeOK
<1>5. /\ ~slot'[i].valid /\ slot'[i].thread = NoThread /\ slot'[i].task = NoTask
      /\ \A j \in Slots \ {i} : slot'[j] = slot[j]
  BY <1>1, <1>2 DEF RehostTypeOK
<1>6. RehostTypeOK'
  <2>1. slot' \in [Slots -> [valid : BOOLEAN, task : Tasks \cup {NoTask}, thread : Threads \cup {NoThread}]]
    <3> DEFINE Rec == [valid : BOOLEAN, task : Tasks \cup {NoTask}, thread : Threads \cup {NoThread}]
               new == [slot[i] EXCEPT !.task = NoTask, !.thread = NoThread]
    <3>1. slot \in [Slots -> Rec] /\ slot[i] \in Rec
      BY <1>1, <1>2 DEF RehostTypeOK
    <3>2. new \in Rec
      BY Zenon, <3>1
    <3>3. slot' = [slot EXCEPT ![i] = new]
      BY Zenon, <1>2, <3>1
    <3> HIDE DEF Rec, new
    <3>4. slot' \in [Slots -> Rec]
      BY <3>1, <3>2, <3>3
    <3> QED BY <3>4 DEF Rec
  <2>2. pc' \in [Threads -> Frame] /\ stack' \in [Threads -> Seq(Frame)]
    BY <1>1, <1>4 DEF RehostTypeOK
  <2>3. serves' \in [Threads -> Tasks \cup {NoTask}]
    BY <1>1 DEF RehostTypeOK
  <2> QED BY <1>1, <2>1, <2>2, <2>3 DEF RehostTypeOK
<1>7. ThreadInv(t)' /\ ~Goer(t) /\ ~Goer(t)' /\ ~Live(t)' /\ ~Fresh(t)'
  BY Zenon, <1>1, <1>3, <1>4 DEF ThreadInv, Dies, Live, Goer, Goers, Waits, Fresh, Flat, OnCore
<1>8. ASSUME NEW u \in Threads \ {t}
      PROVE  /\ ThreadInv(u)' /\ Live(u)' = Live(u) /\ Dies(u)' = Dies(u)
             /\ Goer(u)' = Goer(u)
  BY <1>1, <1>3, <1>4, OtherThread DEF IInv
<1>9. \A j \in Slots \ {i} : slot[j].thread # t
  BY <1>2, <1>3 DEF IInv, SlotsInv
<1>10. \A j \in Slots : SlotInv(j)'
  <2>1. ASSUME NEW j \in Slots \ {i}
        PROVE  SlotInv(j)'
    <3>1. SlotInv(j) /\ slot'[j] = slot[j] /\ slot[j].thread # t
      BY Zenon, <1>5, <1>9 DEF IInv, SlotsInv
    <3>2. CASE slot[j].thread \in Threads
      <4>1. Live(slot[j].thread)' = Live(slot[j].thread) /\ Dies(slot[j].thread)' = Dies(slot[j].thread)
        BY Zenon, <1>8, <3>1, <3>2
      <4>2. serves'[slot[j].thread] = serves[slot[j].thread] /\ alive' = alive /\ orphans' = orphans
        BY Zenon, <1>1, <1>4, <3>1, <3>2
      <4> QED BY Zenon, <3>1, <4>1, <4>2 DEF SlotInv
    <3>3. CASE slot[j].thread \notin Threads
      BY Zenon, <3>1, <3>3 DEF SlotInv
    <3> QED BY Zenon, <3>2, <3>3
  <2> QED BY Zenon, <1>5, <2>1 DEF SlotInv
<1>11. SlotsInv'
  <2>1. alive # {} /\ Idle \in alive /\ slot[0].valid /\ slot[0].task = Idle /\ 0 \in Slots \ {i}
    BY <1>2, <1>3, FrameFacts DEF IInv, SlotsInv, EmptySlot
  <2>2. ASSUME NEW u \in Threads, Live(u)'
        PROVE  \E j \in Slots : slot'[j].thread = u
    <3>1. u # t /\ Live(u)
      BY <1>7, <1>8, <2>2
    <3>2. PICK j \in Slots : slot[j].thread = u
      BY <3>1 DEF IInv, SlotsInv
    <3> QED BY Zenon, <1>2, <1>5, <3>1, <3>2
  <2>3. ASSUME NEW x \in alive'
        PROVE  \E j \in Slots : slot'[j].valid /\ slot'[j].task = x
    <3>1. PICK j \in Slots : slot[j].valid /\ slot[j].task = x
      BY <1>1 DEF IInv, SlotsInv
    <3> QED BY Zenon, <1>2, <1>5, <3>1
  <2>4. ASSUME NEW j \in Slots, NEW l \in Slots, slot'[j].thread # NoThread,
               slot'[j].thread = slot'[l].thread
        PROVE  j = l
    <3>1. slot'[j] = slot[j] /\ slot'[l] = slot[l]
      BY Zenon, <1>5, <2>4
    <3> QED BY Zenon, <2>4, <3>1, SlotOne
  <2> QED BY Zenon, <1>1, <1>5, <1>10, <2>1, <2>2, <2>3, <2>4 DEF SlotsInv
<1>14. OwnTasks'
  BY <1>1, <1>5 DEF IInv, OwnTasks
<1>15. FirstInv'
  <2>1. ASSUME NEW u \in Threads, u # Main, Goer(u)' \/ pc'[u].at = "leave"
        PROVE  First(u)'
    <3>1. u # t
      BY Zenon, <1>4, <1>7, <2>1
    <3>2. First(u) /\ serves[u] # NoTask
      <4>1. Goer(u) \/ pc[u].at = "leave"
        BY Zenon, <1>4, <1>8, <2>1, <3>1
      <4> QED BY Zenon, <2>1, <4>1 DEF IInv, FirstInv, ThreadInv, Live, Goer, Goers, Waits
    <3>3. PICK k \in Slots : slot[k].thread = u /\ \A l \in Slots : slot[l].task = serves[u] => k <= l
      BY Zenon, <3>2 DEF First
    <3>4. k # i /\ slot'[k].thread = u /\ serves'[u] = serves[u]
      BY Zenon, <1>2, <1>4, <1>5, <3>1, <3>3
    <3>5. \A l \in Slots : slot'[l].task = serves'[u] => k <= l
      BY Zenon, <1>5, <3>2, <3>3, <3>4
    <3> QED BY Zenon, <3>4, <3>5 DEF First
  <2> QED BY <2>1 DEF FirstInv
<1>12. FreshInv'
  BY <1>1, <1>3, <1>4, <1>7, FreshKept DEF IInv
<1>13. \E a \in Threads : Runs(a)'
  <2>1. PICK a \in Threads : Runs(a)
    BY DEF IInv
  <2>2. a # t
    BY Zenon, <1>7, <2>1 DEF Runs
  <2>3. \A u \in Threads : Goer(u)' <=> u = a
    BY Zenon, <1>7, <1>8, <2>1, <2>2 DEF Runs
  <2>4. /\ pc'[a] = pc[a] /\ serves'[a] = serves[a] /\ runTask' = runTask /\ alive' = alive
        /\ Ends(a)' = Ends(a)
    BY Zenon, <1>1, <1>4, <2>2 DEF Ends
  <2> QED BY Zenon, <2>1, <2>3, <2>4 DEF Runs
<1> QED BY Zenon, <1>6, <1>7, <1>8, <1>11, <1>12, <1>13, <1>14, <1>15 DEF IInv

(* PMCU_ThreadExit takes the slot out of use while its thread still runs. *)
LEMMA TaskEndsInv ==
    ASSUME IInv, NEW t \in Threads, PMCU_ThreadExit(t)
    PROVE  IInv'
<1>1. /\ pc[t].at = "task" /\ core = t /\ runTask # NoTask /\ serves[t] # Idle /\ irq' = TRUE
      /\ pc' = [pc EXCEPT ![t] = At("exiting")]
      /\ UNCHANGED <<core, systick, creating, stack, resume, runTask, serves, hurt, aborted>>
      /\ RehostTypeOK /\ ThreadInv(t) /\ Goer(t)
  BY DEF PMCU_ThreadExit, IInv, Goer, Goers, Waits
<1>2. PICK i \in Slots : /\ slot[i].thread = t /\ slot' = [slot EXCEPT ![i].valid = FALSE]
                         /\ alive' = alive \ {slot[i].task}
                         /\ orphans' = (orphans \cup Orphaned(slot[i].task)) \ {t}
  BY Zenon DEF PMCU_ThreadExit, IsFirst
<1>3. /\ serves[t] = runTask /\ t # Main /\ t # NoThread /\ ~resume[t] /\ stack[t] = <<>> /\ ~Dies(t)
  BY Zenon, <1>1, GoerFacts, RehostConstants DEF ThreadInv, Waits, Deep, Dies
<1>4. pc'[t].at = "exiting" /\ At("exiting") \in Frame /\ \A u \in Threads \ {t} : pc'[u] = pc[u]
  BY Zenon, <1>1, FrameFacts DEF Places, RehostTypeOK
<1>5. SlotInv(i) /\ slot[i].task = serves[t] /\ slot[i].valid
  BY <1>2, <1>3 DEF IInv, SlotsInv, SlotInv
<1>6. /\ ~slot'[i].valid /\ slot'[i].thread = t /\ slot'[i].task = serves[t]
      /\ \A j \in Slots \ {i} : slot'[j] = slot[j]
  BY <1>1, <1>2, <1>5 DEF RehostTypeOK
<1>7. RehostTypeOK'
  <2>1. slot' \in [Slots -> [valid : BOOLEAN, task : Tasks \cup {NoTask}, thread : Threads \cup {NoThread}]]
    <3> DEFINE Rec == [valid : BOOLEAN, task : Tasks \cup {NoTask}, thread : Threads \cup {NoThread}]
               new == [slot[i] EXCEPT !.valid = FALSE]
    <3>1. slot \in [Slots -> Rec] /\ slot[i] \in Rec
      BY <1>1, <1>2 DEF RehostTypeOK
    <3>2. new \in Rec
      BY Zenon, <3>1
    <3>3. slot' = [slot EXCEPT ![i] = new]
      BY <1>2, <3>1
    <3> HIDE DEF Rec, new
    <3>4. slot' \in [Slots -> Rec]
      BY <3>1, <3>2, <3>3
    <3> QED BY <3>4 DEF Rec
  <2>2. pc' \in [Threads -> Frame] /\ alive' \in SUBSET Tasks /\ orphans' \in SUBSET Threads
    BY <1>1, <1>2, <1>4 DEF RehostTypeOK, Orphaned
  <2> QED BY <1>1, <2>1, <2>2 DEF RehostTypeOK
<1>8. Goer(t)' /\ Dies(t)' /\ Live(t)' /\ ~Fresh(t)'
  BY Zenon, <1>3, <1>4 DEF Goer, Goers, Waits, Dies, Live, Fresh
<1>9. ThreadInv(t)'
  BY Zenon, <1>1, <1>3, <1>4, <1>8 DEF ThreadInv, Waits, Live, Flat, OnCore
<1>10. ASSUME NEW u \in Threads \ {t}
       PROVE  /\ ThreadInv(u)' /\ Live(u)' = Live(u) /\ Dies(u)' = Dies(u)
              /\ Goer(u)' = Goer(u)
  BY Zenon, <1>1, <1>4, OtherThread DEF IInv
<1>11. \A j \in Slots \ {i} : slot[j].thread # t
  BY <1>2, <1>3 DEF IInv, SlotsInv
<1>12. \A j \in Slots : SlotInv(j)'
  <2>1. ASSUME NEW j \in Slots \ {i}
        PROVE  SlotInv(j)'
    <3>1. SlotInv(j) /\ slot'[j] = slot[j] /\ slot[j].thread # t
      BY Zenon, <1>6, <1>11 DEF IInv, SlotsInv
    <3>2. CASE slot[j].thread = NoThread
      BY Zenon, <3>1, <3>2, RehostConstants DEF SlotInv
    <3>3. CASE slot[j].thread # NoThread
      <4>1. PICK u \in Threads \ {t} : u = slot[j].thread
        BY Zenon, <3>1, <3>3 DEF SlotInv
      <4>2. /\ Live(u) /\ serves[u] = slot[j].task /\ (slot[j].valid <=> ~Dies(u))
            /\ slot[j].valid /\ u \notin orphans => slot[j].task \in alive
        BY Zenon, <3>1, <3>3, <4>1 DEF SlotInv
      <4>3. Live(u)' /\ Dies(u)' = Dies(u) /\ serves'[u] = serves[u]
        BY Zenon, <1>1, <1>10, <4>2
      <4>4. slot[j].valid /\ u \notin orphans' => slot[j].task \in alive'
        BY <1>2, <4>1, <4>2 DEF Orphaned
      <4> QED BY Zenon, <3>1, <4>1, <4>2, <4>3, <4>4 DEF SlotInv
    <3> QED BY Zenon, <3>2, <3>3
  <2>2. SlotInv(i)'
    BY <1>1, <1>2, <1>5, <1>6, <1>8 DEF SlotInv
  <2> QED BY <2>1, <2>2
<1>13. SlotsInv'
  <2>1. slot[0].valid /\ slot[0].task = Idle /\ 0 \in Slots \ {i} /\ Idle \in alive
    BY <1>1, <1>2, <1>3, <1>5, FrameFacts DEF IInv, SlotsInv, EmptySlot
  <2>2. Idle \in alive'
    BY <1>1, <1>2, <1>5, <2>1
  <2>3. ASSUME NEW u \in Threads, Live(u)'
        PROVE  \E j \in Slots : slot'[j].thread = u
    <3>1. CASE u = t
      BY <1>6, <3>1
    <3>2. CASE u # t
      <4>1. PICK j \in Slots : slot[j].thread = u
        BY <1>10, <2>3, <3>2 DEF IInv, SlotsInv
      <4> QED BY <1>2, <1>6, <3>2, <4>1
    <3> QED BY <3>1, <3>2
  <2>4. ASSUME NEW x \in alive'
        PROVE  \E j \in Slots : slot'[j].valid /\ slot'[j].task = x
    <3>1. PICK j \in Slots : slot[j].valid /\ slot[j].task = x
      BY <1>2 DEF IInv, SlotsInv
    <3> QED BY <1>2, <1>6, <3>1
  <2>5. ASSUME NEW j \in Slots, NEW l \in Slots, slot'[j].thread # NoThread,
               slot'[j].thread = slot'[l].thread
        PROVE  j = l
    <3>1. slot'[j].thread = slot[j].thread /\ slot'[l].thread = slot[l].thread
      BY Zenon, <1>2, <1>6
    <3> QED BY Zenon, <2>5, <3>1, SlotOne
  <2> QED BY Zenon, <1>6, <1>12, <2>1, <2>2, <2>3, <2>4, <2>5 DEF SlotsInv
<1>14. FreshInv'
  BY <1>1, <1>4, <1>8, FreshKept DEF IInv
<1>15. \E a \in Threads : Runs(a)'
  <2>1. Ends(t)'
    BY Zenon, <1>4 DEF Ends
  <2> QED BY Zenon, <1>1, <1>3, <1>4, <1>8, <1>10, <2>1, RunsKept
<1>16. OwnTasks'
  <2>1. ASSUME NEW j \in Slots, slot'[j].valid, slot'[j].thread \notin orphans'
        PROVE  slot[j].valid /\ slot[j].thread \notin orphans /\ slot'[j] = slot[j]
    BY <1>2, <1>6, <1>11, <2>1
  <2> QED BY Zenon, <2>1 DEF IInv, OwnTasks
<1>17. FirstInv'
  <2>1. \A j \in Slots : slot'[j].thread = slot[j].thread /\ slot'[j].task = slot[j].task
    BY Zenon, <1>2, <1>5, <1>6
  <2>2. \A u \in Threads : First(u)' = First(u)
    BY <1>1, <2>1 DEF First
  <2>3. ASSUME NEW u \in Threads, u # Main, Goer(u)' \/ pc'[u].at = "leave"
        PROVE  First(u)
    <3>1. Goer(u) \/ pc[u].at = "leave"
      BY Zenon, <1>1, <1>4, <1>10, <2>3
    <3> QED BY Zenon, <2>3, <3>1 DEF IInv, FirstInv
  <2> QED BY Zenon, <2>2, <2>3 DEF FirstInv
<1> QED BY Zenon, <1>7, <1>9, <1>10, <1>13, <1>14, <1>15, <1>16, <1>17 DEF IInv

(* LOS_TaskDelete leaves the threads and slots as they are. *)
LEMMA DeleteInv ==
    ASSUME IInv, NEW t \in Threads, LOS_TaskDelete(t)
    PROVE  IInv'
<1>1. PICK x \in alive \ {Idle} :
         /\ alive' = alive \ {x} /\ orphans' = orphans \cup Orphaned(x)
         /\ pc' = IF x = runTask THEN [pc EXCEPT ![t] = At("deleting")] ELSE pc
  BY Zenon DEF LOS_TaskDelete
<1>2. /\ pc[t].at = "task" /\ core = t /\ runTask # NoTask /\ irq' = TRUE
      /\ UNCHANGED <<core, systick, creating, slot, stack, resume, runTask, serves, hurt, aborted>>
      /\ RehostTypeOK /\ ThreadInv(t) /\ Goer(t)
  BY DEF LOS_TaskDelete, IInv, Goer, Goers
<1>3. /\ serves[t] = runTask /\ t # Main /\ ~resume[t] /\ stack[t] = <<>> /\ ~Dies(t) /\ runTask \in alive
  BY <1>2, GoerFacts DEF ThreadInv, Deep, Dies, Waits, Ends
<1>4. /\ pc'[t].at \in {"task", "deleting"} /\ pc'[t] \in Frame /\ \A u \in Threads \ {t} : pc'[u] = pc[u]
      /\ x = runTask => pc'[t].at = "deleting"
  BY <1>1, <1>2, FrameFacts DEF Places, RehostTypeOK
<1>5. RehostTypeOK'
  <2>1. pc' \in [Threads -> Frame] /\ alive' \in SUBSET Tasks /\ orphans' \in SUBSET Threads
    BY <1>1, <1>2, FrameFacts DEF RehostTypeOK, Orphaned, Places
  <2> QED BY <1>2, <2>1 DEF RehostTypeOK
<1>6. Goer(t)' /\ ~Dies(t)' /\ Dies(t)' = Dies(t) /\ Live(t)' = Live(t) /\ ~Fresh(t)'
  BY <1>2, <1>3, <1>4 DEF Goer, Goers, Dies, Live, Fresh
<1>7. ThreadInv(t)'
  BY <1>2, <1>3, <1>4, <1>6 DEF ThreadInv, Live, Flat, Waits, OnCore
<1>8. ASSUME NEW u \in Threads \ {t}
      PROVE  /\ ThreadInv(u)' /\ Live(u)' = Live(u) /\ Dies(u)' = Dies(u)
             /\ Goer(u)' = Goer(u)
  <2>1. ThreadInv(u) /\ core' = core /\ pc'[u] = pc[u] /\ stack' = stack /\ resume' = resume /\ serves' = serves
    BY Zenon, <1>2, <1>4 DEF IInv
  <2> QED BY Zenon, <2>1, OtherThread
<1>9. \A u \in Threads : Live(u)' = Live(u) /\ Dies(u)' = Dies(u)
  BY Zenon, <1>3, <1>6, <1>8
<1>10. ASSUME NEW j \in Slots
       PROVE  SlotInv(j)'
  <2>1. SlotInv(j) /\ slot'[j] = slot[j]
    BY Zenon, <1>2 DEF IInv, SlotsInv
  <2>2. CASE slot[j].thread \notin Threads
    BY Zenon, <2>1, <2>2 DEF SlotInv
  <2>3. CASE slot[j].thread \in Threads
    <3>1. PICK u \in Threads : u = slot[j].thread
      BY <2>3
    <3>2. /\ Live(u) /\ serves[u] = slot[j].task /\ (slot[j].valid <=> ~Dies(u))
          /\ slot[j].valid /\ u \notin orphans => slot[j].task \in alive
      BY Zenon, <2>1, <3>1, RehostConstants DEF SlotInv
    <3>3. slot[j].valid /\ u \notin orphans' => slot[j].task \in alive'
      BY <1>1, <3>2 DEF Orphaned
    <3> QED BY Zenon, <1>2, <1>9, <2>1, <3>1, <3>2, <3>3 DEF SlotInv
  <2> QED BY <2>2, <2>3
<1>11. SlotsInv'
  <2>1. Idle \in alive' /\ slot[0].valid /\ slot[0].task = Idle
    BY <1>1 DEF IInv, SlotsInv
  <2>2. \A y \in alive' : \E i \in Slots : slot[i].valid /\ slot[i].task = y
    BY Zenon, <1>1 DEF IInv, SlotsInv
  <2>3. /\ \A i, j \in Slots : slot[i].thread # NoThread /\ slot[i].thread = slot[j].thread => i = j
        /\ \A u \in Threads : Live(u)' => \E i \in Slots : slot[i].thread = u
    BY Zenon, <1>9 DEF IInv, SlotsInv
  <2> QED BY Zenon, <1>2, <1>10, <2>1, <2>2, <2>3 DEF SlotsInv
<1>12. OwnTasks'
  BY <1>1, <1>2 DEF IInv, OwnTasks
<1>13. FirstInv'
  BY Zenon, <1>2, <1>4, <1>8, FirstKept DEF IInv
<1>14. FreshInv'
  BY <1>2, <1>4, <1>6, FreshKept DEF IInv
<1>15. \E a \in Threads : Runs(a)'
  <2>1. runTask' \in alive' \/ Ends(t)'
    BY <1>1, <1>2, <1>3, <1>4 DEF Ends
  <2>2. pc'[t].at # "switch" /\ serves'[t] = runTask'
    BY <1>2, <1>3, <1>4
  <2> QED BY Zenon, <1>2, <1>3, <1>6, <1>8, <2>1, <2>2, RunsKept
<1> QED BY Zenon, <1>5, <1>7, <1>8, <1>11, <1>12, <1>13, <1>14, <1>15 DEF IInv

(* A failed assert leaves everything as it is. *)
LEMMA SameInv ==
    ASSUME IInv, UNCHANGED <<locks, slot, pc, stack, resume, kernel, hurt>>, aborted' \in BOOLEAN
    PROVE  IInv'
<1>1. /\ irq' = irq /\ core' = core /\ systick' = systick /\ creating' = creating /\ slot' = slot
      /\ pc' = pc /\ stack' = stack /\ resume' = resume
      /\ alive' = alive /\ runTask' = runTask /\ serves' = serves /\ orphans' = orphans /\ hurt' = hurt
  BY Zenon DEF locks, kernel
<1>2. RehostTypeOK'
  BY Zenon, <1>1 DEF IInv, RehostTypeOK
<1>3. ASSUME NEW t
      PROVE  /\ Live(t)' = Live(t) /\ Dies(t)' = Dies(t) /\ Fresh(t)' = Fresh(t) /\ Goer(t)' = Goer(t)
             /\ Ends(t)' = Ends(t) /\ First(t)' = First(t)
  BY Zenon, <1>1 DEF Live, Dies, Fresh, Goer, Ends, First
<1>4. ASSUME NEW t \in Threads
      PROVE  ThreadInv(t)'
  <2>1. ThreadInv(t)
    BY Zenon DEF IInv
  <2> QED BY Zenon, <1>1, <1>3, <2>1 DEF ThreadInv, Waits
<1>5. FreshInv'
  BY Zenon, <1>1, <1>3 DEF IInv, FreshInv
<1>6. SlotsInv' /\ OwnTasks'
  BY Zenon, <1>1, <1>3, SlotsKept DEF IInv
<1>8. FirstInv'
  BY Zenon, <1>1, <1>3 DEF IInv, FirstInv
<1>7. \E a \in Threads : Runs(a)'
  BY Zenon, <1>1, <1>3 DEF IInv, Runs
<1> QED BY Zenon, <1>2, <1>4, <1>5, <1>6, <1>7, <1>8 DEF IInv

(* PMCU_BE_Task_Create finds the first slot that is not valid: it is free, *)
(* and slot 0 goes to the idle task.                                       *)
LEMMA CreatedInv ==
    ASSUME IInv, NEW t \in Threads, pc[t].at = "task", core = t,
           NEW x \in Tasks \ alive, NEW n \in Threads, pc[n].at = "none", alive = {} => x = Idle,
           NEW i \in Slots, ~slot[i].valid, \A j \in Slots : ~slot[j].valid => i <= j,
           slot' = [slot EXCEPT ![i] = [valid |-> TRUE, task |-> x, thread |-> n]],
           pc' = [pc EXCEPT ![n] = At("wrapper"), ![t] = At("spin")],
           stack' = [stack EXCEPT ![n] = <<At("task")>>],
           serves' = [serves EXCEPT ![n] = x], alive' = alive \cup {x},
           irq' = FALSE, core' = NoThread, systick' = t, creating' = TRUE,
           UNCHANGED <<resume, runTask, orphans, hurt, aborted>>
    PROVE  IInv'
<1>1. /\ RehostTypeOK /\ ThreadInv(t) /\ ThreadInv(n) /\ Goer(t) /\ n # t /\ n # Main
      /\ t # NoThread /\ n # NoThread
  BY Zenon, RehostConstants DEF IInv, Goer, Goers, Waits, ThreadInv
<1>2. /\ stack[t] = <<>> /\ ~resume[t] /\ ~resume[n] /\ ~Dies(t) /\ serves[t] = runTask
      /\ t # Main => runTask \in alive
  BY <1>1, GoerFacts DEF Ends, ThreadInv, Waits, Deep, Dies
<1>3. /\ pc'[n] = At("wrapper") /\ pc'[t] = At("spin") /\ pc'[n].at = "wrapper" /\ pc'[t].at = "spin"
      /\ At("wrapper") \in Frame /\ At("spin") \in Frame
      /\ \A u \in Threads \ {t, n} : pc'[u] = pc[u]
  <2>1. pc \in [Threads -> Frame] /\ At("wrapper").at = "wrapper" /\ At("spin").at = "spin"
    BY Zenon, <1>1, FrameFacts DEF Places, RehostTypeOK
  <2> QED BY Zenon, <1>1, <2>1, FrameFacts DEF Places
<1>4. /\ stack'[n] = <<At("task")>> /\ serves'[n] = x /\ stack'[n] \in Seq(Frame) /\ Nest(stack'[n])
      /\ Bottom(stack'[n]) # At("exiting") /\ stack'[n] # <<>>
      /\ \A u \in Threads \ {n} : stack'[u] = stack[u] /\ serves'[u] = serves[u]
  <2>1. At("task") # At("exiting") /\ stack'[n] = <<At("task")>> /\ <<At("task")>> \o <<>> = <<At("task")>>
    <3>1. At("task") # At("exiting")
      BY Zenon, FrameFacts DEF Places
    <3>2. stack'[n] = <<At("task")>>
      BY Zenon, <1>1 DEF RehostTypeOK
    <3>3. <<At("task")>> \o <<>> = <<At("task")>>
      BY Zenon, NestOne DEF Ground
    <3> QED BY Zenon, <3>1, <3>2, <3>3
  <2>2. serves'[n] = x /\ \A u \in Threads \ {n} : stack'[u] = stack[u] /\ serves'[u] = serves[u]
    BY Zenon, <1>1 DEF RehostTypeOK
  <2>3. LET new == <<At("task")>> \o <<>>
        IN  new \in Seq(Frame) /\ Nest(new) /\ Bottom(new) = At("task") /\ new = <<At("task")>>
    BY Zenon, NestOne DEF Ground
  <2>4. <<At("task")>> # <<>>
    OBVIOUS
  <2> QED BY Zenon, <2>1, <2>2, <2>3, <2>4
<1>5. /\ slot'[i].valid /\ slot'[i].thread = n /\ slot'[i].task = x
      /\ \A j \in Slots \ {i} : slot'[j] = slot[j]
  BY Zenon, <1>1 DEF RehostTypeOK
<1>6. RehostTypeOK'
  <2>1. slot' \in [Slots -> [valid : BOOLEAN, task : Tasks \cup {NoTask}, thread : Threads \cup {NoThread}]]
    BY Zenon, <1>1 DEF RehostTypeOK
  <2>2. pc' \in [Threads -> Frame]
    BY Zenon, <1>1, <1>3 DEF RehostTypeOK
  <2>3. stack' \in [Threads -> Seq(Frame)]
    BY Zenon, <1>1, <1>4 DEF RehostTypeOK
  <2>4. serves' \in [Threads -> Tasks \cup {NoTask}] /\ alive' \in SUBSET Tasks
    BY Zenon, <1>1 DEF RehostTypeOK
  <2> QED BY Zenon, <1>1, <2>1, <2>2, <2>3, <2>4 DEF RehostTypeOK
<1>7. /\ ThreadInv(t)' /\ Live(t)' = Live(t) /\ ~Dies(t)' /\ Goer(t)' /\ ~Fresh(t)'
  <2>1. Live(t)' = Live(t) /\ ~Dies(t)' /\ Goer(t)' /\ ~Fresh(t)'
    BY Zenon, <1>1, <1>2, <1>3, <1>4 DEF Live, Dies, Goer, Goers, Waits, Fresh
  <2> QED BY Zenon, <1>1, <1>2, <1>3, <1>4, <2>1 DEF ThreadInv, Waits, Flat, OnCore
<1>8. /\ ThreadInv(n)' /\ Live(n)' /\ ~Dies(n)' /\ Goer(n)' = Goer(n) /\ ~Live(n)
  <2>1. Live(n)' /\ ~Dies(n)' /\ Goer(n)' = Goer(n) /\ ~Live(n)
    BY Zenon, <1>1, <1>2, <1>3, <1>4 DEF Live, Dies, Goer, Goers, Waits
  <2>2. pc'[n].at \in Deep /\ pc'[n].at \notin OnCore /\ pc'[n].at \notin {"switch", "leave"}
    BY Zenon, <1>3 DEF Deep, OnCore
  <2>3. serves'[n] # NoTask /\ ~resume'[n] /\ Nest(stack'[n])
    BY Zenon, <1>2, <1>4, FrameFacts
  <2> QED BY Zenon, <1>1, <2>1, <2>2, <2>3 DEF ThreadInv, Waits
<1>9. ASSUME NEW u \in Threads \ {t, n}
      PROVE  /\ ThreadInv(u)' /\ Live(u)' = Live(u) /\ Dies(u)' = Dies(u)
             /\ Fresh(u)' = Fresh(u) /\ Goer(u)' = Goer(u)
  BY Zenon, <1>3, <1>4, OtherThread DEF IInv
<1>10. FreshInv'
  <2>1. ASSUME NEW u \in Threads
        PROVE  ~Fresh(u)
    <3>1. ASSUME NEW c \in Threads, pc[c].at = "spin"
          PROVE  FALSE
      BY Zenon, <1>1, <3>1, GoerFacts DEF Goer, Goers, Waits
    <3> QED BY Zenon, <3>1 DEF IInv, FreshInv
  <2>2. pc'[Main].at # "park"
    <3>1. CASE Main = t
      BY Zenon, <1>3, <3>1
    <3>2. CASE Main # t
      BY Zenon, <1>1, <1>3, <3>2, RehostConstants DEF IInv, ThreadInv, Waits, OnCore
    <3> QED BY Zenon, <3>1, <3>2
  <2>3. \A u \in Threads : Fresh(u)' => u = n
    BY Zenon, <1>7, <1>9, <2>1
  <2> QED BY Zenon, <1>3, <2>2, <2>3 DEF FreshInv
<1>11. \A j \in Slots : slot[j].thread # NoThread =>
          /\ slot[j].valid /\ slot[j].thread \in Threads \ {n}
          /\ slot[j].thread \notin orphans => slot[j].task \in alive
  <2>1. ASSUME NEW j \in Slots, slot[j].thread # NoThread
        PROVE  /\ slot[j].valid /\ slot[j].thread \in Threads \ {n}
               /\ slot[j].thread \notin orphans => slot[j].task \in alive
    <3>1. SlotInv(j)
      BY Zenon DEF IInv, SlotsInv
    <3>2. slot[j].thread \in Threads /\ Live(slot[j].thread) /\ ThreadInv(slot[j].thread)
      BY Zenon, <2>1, <3>1 DEF SlotInv, IInv
    <3>3. ~Dies(slot[j].thread)
      BY Zenon, <1>2, <3>2 DEF ThreadInv
    <3> QED BY Zenon, <1>8, <2>1, <3>1, <3>2, <3>3 DEF SlotInv
  <2> QED BY Zenon, <2>1
<1>12. slot[i].thread = NoThread
  BY Zenon, <1>11
<1>13. \A j \in Slots : SlotInv(j)'
  <2>1. SlotInv(i)'
    <3>1. x \in alive'
      BY Zenon
    <3>2. slot[i]'.thread = n /\ slot[i]'.task = x /\ slot[i]'.valid = TRUE
      BY Zenon, <1>5
    <3> QED BY Zenon, <1>4, <1>8, <3>1, <3>2 DEF SlotInv
  <2>2. ASSUME NEW j \in Slots \ {i}
        PROVE  SlotInv(j)'
    <3>1. SlotInv(j) /\ slot'[j] = slot[j]
      BY Zenon, <1>5 DEF IInv, SlotsInv
    <3>2. CASE slot[j].thread = NoThread
      BY Zenon, <3>1, <3>2, RehostConstants DEF SlotInv
    <3>3. CASE slot[j].thread # NoThread
      <4>1. PICK u \in Threads \ {n} : u = slot[j].thread
        BY Zenon, <1>11, <3>3
      <4>2. slot[j].valid /\ (u \notin orphans => slot[j].task \in alive)
        BY Zenon, <1>11, <3>3, <4>1
      <4>3. Live(u) /\ ~Dies(u) /\ serves[u] = slot[j].task
        BY Zenon, <3>1, <3>3, <4>1, <4>2 DEF SlotInv
      <4>4. Live(u)' /\ ~Dies(u)'
        BY Zenon, <1>7, <1>9, <4>3
      <4>5. serves'[u] = serves[u] /\ (u \notin orphans' => slot[j].task \in alive')
        BY Zenon, <1>4, <4>2
      <4> QED BY Zenon, <3>1, <4>1, <4>2, <4>3, <4>4, <4>5 DEF SlotInv
    <3> QED BY Zenon, <3>2, <3>3
  <2> QED BY Zenon, <2>1, <2>2
<1>14. SlotsInv'
  <2>1. slot'[0].valid /\ slot'[0].task = Idle /\ Idle \in alive'
    <3>1. CASE alive = {}
      <4>1. ~slot[0].valid /\ 0 \in Slots
        <5>1. slot[0] = EmptySlot /\ 0 \in Slots
          BY Zenon, <3>1, FrameFacts DEF IInv, SlotsInv
        <5> QED BY <5>1 DEF EmptySlot
      <4>2. i = 0
        BY SMTT(20), <4>1 DEF Slots
      <4> QED BY Zenon, <1>5, <3>1, <4>2
    <3>2. CASE alive # {}
      BY Zenon, <1>5, <3>2, FrameFacts DEF IInv, SlotsInv
    <3> QED BY Zenon, <3>1, <3>2
  <2>2. ASSUME NEW u \in Threads, Live(u)'
        PROVE  \E j \in Slots : slot'[j].thread = u
    <3>1. CASE u = n
      BY Zenon, <1>5, <3>1
    <3>2. CASE u # n
      <4>1. Live(u)
        BY Zenon, <1>7, <1>9, <2>2, <3>2
      <4>2. PICK j \in Slots : slot[j].thread = u
        BY Zenon, <4>1 DEF IInv, SlotsInv
      <4> QED BY Zenon, <1>5, <1>12, <4>2, RehostConstants
    <3> QED BY Zenon, <3>1, <3>2
  <2>3. ASSUME NEW y \in alive'
        PROVE  \E j \in Slots : slot'[j].valid /\ slot'[j].task = y
    <3>1. CASE y = x
      BY Zenon, <1>5, <3>1
    <3>2. CASE y # x
      <4>1. PICK j \in Slots : slot[j].valid /\ slot[j].task = y
        BY Zenon, <3>2 DEF IInv, SlotsInv
      <4> QED BY Zenon, <1>5, <4>1
    <3> QED BY Zenon, <3>1, <3>2
  <2>4. ASSUME NEW j \in Slots, NEW l \in Slots, slot'[j].thread # NoThread,
               slot'[j].thread = slot'[l].thread
        PROVE  j = l
    <3>1. \A k \in Slots \ {i} : slot'[k].thread # NoThread =>
             slot'[k] = slot[k] /\ slot'[k].thread # n
      BY Zenon, <1>5, <1>11
    <3>2. CASE j = i \/ l = i
      BY Zenon, <1>1, <1>5, <2>4, <3>1, <3>2
    <3>3. CASE j # i /\ l # i
      <4>1. slot'[j] = slot[j] /\ slot'[l] = slot[l]
        BY Zenon, <1>5, <3>3
      <4> QED BY Zenon, <2>4, <4>1, SlotOne
    <3> QED BY Zenon, <3>2, <3>3
  <2>5. alive' # {}
    OBVIOUS
  <2>6. \A j, l \in Slots :
           slot'[j].thread # NoThread /\ slot'[j].thread = slot'[l].thread => j = l
    BY Zenon, <2>4
  <2>7. \A u \in Threads : Live(u)' => \E j \in Slots : slot'[j].thread = u
    BY Zenon, <2>2
  <2>8. \A y \in alive' : \E j \in Slots : slot'[j].valid /\ slot'[j].task = y
    BY Zenon, <2>3
  <2> QED BY Zenon, <1>13, <2>1, <2>5, <2>6, <2>7, <2>8 DEF SlotsInv
<1>15. \E a \in Threads : Runs(a)'
  <2>1. \A u \in Threads \ {t} : Goer(u)' = Goer(u)
    BY Zenon, <1>8, <1>9
  <2>2. t # Main => runTask' \in alive'
    BY Zenon, <1>2
  <2> QED BY Zenon, <1>1, <1>2, <1>3, <1>4, <1>7, <2>1, <2>2, RunsKept
<1>16. OwnTasks'
  <2>1. ASSUME NEW j \in Slots \ {i}, slot'[j].valid, slot'[j].thread \notin orphans'
        PROVE  slot[j].valid /\ slot[j].thread \notin orphans /\ slot'[j] = slot[j] /\ slot'[j].task # x
    <3>1. slot'[j] = slot[j] /\ slot[j].thread # NoThread /\ slot[j].thread \notin orphans
      <4>1. slot'[j] = slot[j] /\ SlotInv(j) /\ slot[j].valid
        BY Zenon, <1>5, <2>1 DEF IInv, SlotsInv
      <4>2. slot[j].thread \in Threads
        BY Zenon, <4>1 DEF SlotInv
      <4>3. orphans' = orphans
        OBVIOUS
      <4> QED BY Zenon, <2>1, <4>1, <4>2, <4>3, RehostConstants
    <3> QED BY Zenon, <1>11, <3>1, <2>1
  <2> SUFFICES ASSUME NEW j \in Slots, NEW l \in Slots, slot'[j].valid, slot'[l].valid,
                      slot'[j].task = slot'[l].task,
                      slot'[j].thread \notin orphans', slot'[l].thread \notin orphans'
               PROVE  j = l
    BY Zenon DEF OwnTasks
  <2>2. CASE j = i \/ l = i
    <3>1. \A k \in Slots : slot'[k].valid /\ slot'[k].thread \notin orphans' /\ slot'[k].task = x => k = i
      BY Zenon, <2>1
    <3>2. slot'[j].task = x /\ slot'[l].task = x
      BY Zenon, <1>5, <2>2
    <3> QED BY Zenon, <3>1, <3>2
  <2>3. CASE j # i /\ l # i
    <3>1. /\ slot[j].valid /\ slot[j].thread \notin orphans /\ slot'[j] = slot[j]
          /\ slot[l].valid /\ slot[l].thread \notin orphans /\ slot'[l] = slot[l]
      BY Zenon, <2>1, <2>3
    <3>2. slot[j].task = slot[l].task
      BY Zenon, <3>1
    <3> QED BY <3>1, <3>2 DEF IInv, OwnTasks
  <2> QED BY Zenon, <2>2, <2>3
<1>17. FirstInv'
  <2>1. ASSUME NEW u \in Threads, u # Main, Goer(u)' \/ pc'[u].at = "leave"
        PROVE  First(u)'
    <3>1. u = t
      <4>1. CASE Goer(u)'
        <5>1. Goer(u)
          BY Zenon, <1>1, <1>8, <1>9, <4>1
        <5> QED BY Zenon, <1>1, <5>1, GoerFacts
      <4>2. CASE pc'[u].at = "leave"
        <5>1. u \notin {t, n}
          BY Zenon, <1>3, <4>2
        <5>2. pc[u].at = "leave"
          BY Zenon, <1>3, <4>2, <5>1
        <5> QED BY Zenon, <5>2 DEF IInv, ThreadInv, OnCore
      <4> QED BY <2>1, <4>1, <4>2
    <3>2. First(t) /\ serves[t] \in alive
      BY Zenon, <1>1, <1>2, <2>1, <3>1 DEF IInv, FirstInv
    <3>3. PICK k \in Slots : slot[k].thread = t /\ \A l \in Slots : slot[l].task = serves[t] => k <= l
      BY Zenon, <3>2 DEF First
    <3>4. k # i /\ slot'[k].thread = t /\ serves'[t] = serves[t]
      <4>1. k # i
        BY Zenon, <1>1, <1>12, <3>3
      <4>2. slot'[k] = slot[k]
        BY Zenon, <1>5, <4>1
      <4>3. t \in Threads \ {n}
        BY Zenon, <1>1
      <4>4. serves'[t] = serves[t]
        BY Zenon, <1>4, <4>3
      <4> QED BY Zenon, <3>3, <4>1, <4>2, <4>4
    <3>5. \A l \in Slots : slot'[l].task = serves'[t] => k <= l
      <4>1. slot'[i].task # serves'[t]
        BY Zenon, <1>5, <3>2, <3>4
      <4>2. \A l \in Slots \ {i} : slot'[l].task = slot[l].task
        BY Zenon, <1>5
      <4> QED BY Zenon, <3>3, <3>4, <4>1, <4>2
    <3> QED BY Zenon, <3>1, <3>4, <3>5 DEF First
  <2> QED BY <2>1 DEF FirstInv
<1> QED BY Zenon, <1>6, <1>7, <1>8, <1>9, <1>10, <1>14, <1>15, <1>16, <1>17 DEF IInv

(* PMCU_BE_Task_Create takes a slot, or fails its assert. *)
LEMMA CreateInv ==
    ASSUME IInv, NEW t \in Threads, PMCU_BE_Task_Create(t)
    PROVE  IInv'
<1>1. /\ pc[t].at = "task" /\ core = t
  BY Zenon DEF PMCU_BE_Task_Create
<1>2. PICK x \in Tasks \ alive :
         /\ alive = {} => x = Idle
         /\ \/ Abort
            \/ \E i \in Slots, n \in Threads :
                 /\ Unborn(n)
                 /\ IsFirst(i, {j \in Slots : ~slot[j].valid})
                 /\ slot' = [slot EXCEPT ![i] = [valid |-> TRUE, task |-> x, thread |-> n]]
                 /\ pc' = [pc EXCEPT ![n] = At("wrapper"), ![t] = At("spin")]
                 /\ stack' = [stack EXCEPT ![n] = <<At("task")>>]
                 /\ serves' = [serves EXCEPT ![n] = x]
                 /\ alive' = alive \cup {x}
                 /\ irq' = FALSE /\ core' = NoThread /\ systick' = t /\ creating' = TRUE
                 /\ UNCHANGED <<resume, runTask, orphans, hurt, aborted>>
  BY Zenon DEF PMCU_BE_Task_Create
<1>3. CASE Abort
  BY <1>3, SameInv DEF Abort
<1>4. CASE ~Abort
  <2>1. PICK i \in Slots, n \in Threads :
                 /\ Unborn(n)
                 /\ IsFirst(i, {j \in Slots : ~slot[j].valid})
                 /\ slot' = [slot EXCEPT ![i] = [valid |-> TRUE, task |-> x, thread |-> n]]
                 /\ pc' = [pc EXCEPT ![n] = At("wrapper"), ![t] = At("spin")]
                 /\ stack' = [stack EXCEPT ![n] = <<At("task")>>]
                 /\ serves' = [serves EXCEPT ![n] = x]
                 /\ alive' = alive \cup {x}
                 /\ irq' = FALSE /\ core' = NoThread /\ systick' = t /\ creating' = TRUE
                 /\ UNCHANGED <<resume, runTask, orphans, hurt, aborted>>
    BY Zenon, <1>2, <1>4
  <2>2. pc[n].at = "none" /\ ~slot[i].valid /\ \A j \in Slots : ~slot[j].valid => i <= j
    BY Zenon, <2>1 DEF Unborn, IsFirst
  <2> QED BY Zenon, <1>1, <1>2, <2>1, <2>2, CreatedInv
<1> QED BY <1>3, <1>4

----------------------------------------------------------------------------
(* When no thread is an orphan the valid slots are no more than the tasks. *)
LEMMA SlotsAreTasks ==
    ASSUME IInv, orphans = {}, \A i \in Slots : slot[i].valid
    PROVE  Cardinality(alive) >= THREAD_NUMBER
<1> SUFFICES ASSUME ~(Cardinality(alive) >= THREAD_NUMBER)
             PROVE  FALSE
  OBVIOUS
<1> DEFINE f == [i \in Slots |-> slot[i].task]
<1>1. \A i \in Slots : slot[i].task \in alive
  BY Zenon, RehostConstants DEF IInv, SlotsInv, SlotInv
<1>2. f \in [Slots -> alive]
  BY <1>1
<1>3. IsFiniteSet(Slots) /\ Cardinality(Slots) = THREAD_NUMBER
  BY FS_Interval, RehostConstants DEF Slots
<1>4. IsFiniteSet(Tasks)
  BY FS_Interval, RehostConstants DEF Tasks
<1>5. IsFiniteSet(alive) /\ Cardinality(alive) \in Nat
  BY <1>4, FS_Subset, FS_CardinalityType DEF IInv, RehostTypeOK
<1>6. Cardinality(alive) < Cardinality(Slots)
  BY <1>3, <1>5, RehostConstants
<1>7. PICK i, j \in Slots : i # j /\ f[i] = f[j]
  <2> HIDE DEF f
  <2> QED BY <1>2, <1>3, <1>5, <1>6, FS_PigeonHole
<1> QED BY <1>1, <1>7 DEF IInv, OwnTasks

(* The asserts are in PMCU_BE_Task_Create, Pthread_Schedule and            *)
(* OsSchedTaskEnQueue; only the first can fail.                            *)
LEMMA AbortIs ==
    ASSUME IInv, hurt' = {}, Next, ~aborted
    PROVE  aborted' => AssertsHold'
<1>1. PICK t \in Threads : Goes(t) \/ Begins(t)
  BY DEF Next, Over
<1>2. CASE PMCU_BE_Task_Create(t)
  <2>1. CASE \A i \in Slots : slot[i].valid
    <3>1. alive' = alive /\ orphans' = orphans
      BY Zenon, <1>2, <2>1 DEF PMCU_BE_Task_Create, Abort, kernel
    <3> QED BY <2>1, <3>1, SlotsAreTasks DEF AssertsHold
  <2>2. CASE ~\A i \in Slots : slot[i].valid
    <3>1. aborted' = aborted
      BY Zenon, <1>2, <2>2 DEF PMCU_BE_Task_Create
    <3> QED BY <3>1
  <2> QED BY <2>1, <2>2
<1>3. CASE Pthread_Schedule(t)
  BY <1>3, HandOverInv
<1>4. CASE OsTickHandler(t)
  BY <1>4, TickHandlerInv
<1>5. CASE ~PMCU_BE_Task_Create(t) /\ ~Pthread_Schedule(t) /\ ~OsTickHandler(t)
  <2>1. aborted' = aborted
    BY Zenon, <1>1, <1>5 DEF Goes, Begins, Thread_Wrapper, Suspend_Signal_Handler, CreateReturns, LOS_Schedule,
       OsSchedTaskSwitch, TickReturn, Suspend_Thread_Self, pthread_exit, sigwait, SigwaitReturns, Resumed,
       Start_Scheduler, PMCU_ThreadExit, LOS_TaskDelete, Systick_Signal_Handler
  <2> QED BY <2>1
<1> QED BY <1>2, <1>3, <1>4, <1>5

(* After memset of the slots only the boot code runs. *)
LEMMA InitInv == Init => IInv
<1> SUFFICES ASSUME Init PROVE IInv
  OBVIOUS
<1>1. /\ \A t \in Threads : pc[t] = At(IF t = Main THEN "task" ELSE "none") /\ stack[t] = <<>>
      /\ \A t \in Threads : pc[t].at = (IF t = Main THEN "task" ELSE "none") /\ pc[t] \in Frame
  BY Zenon, FrameFacts DEF Init, Places
<1>2. \A t \in Threads : /\ ~Fresh(t) /\ ~Live(t) /\ ~Dies(t) /\ serves[t] = NoTask /\ ~resume[t]
                         /\ Goer(t) <=> t = Main
                         /\ pc[t].at # "leave"
  BY <1>1 DEF Init, Fresh, Live, Dies, Goer, Goers, Waits
<1>3. RehostTypeOK
  <2>1. slot \in [Slots -> [valid : BOOLEAN, task : Tasks \cup {NoTask}, thread : Threads \cup {NoThread}]]
    <3>1. EmptySlot \in [valid : BOOLEAN, task : Tasks \cup {NoTask}, thread : Threads \cup {NoThread}]
      BY FrameFacts DEF EmptySlot, Idle
    <3> QED BY <3>1 DEF Init
  <2>2. pc \in [Threads -> Frame] /\ stack \in [Threads -> Seq(Frame)]
    BY <1>1 DEF Init
  <2> QED BY Zenon, <2>1, <2>2, RehostConstants DEF Init, RehostTypeOK
<1>4. \A t \in Threads : ThreadInv(t)
  BY Zenon, <1>1, <1>2, RehostConstants DEF ThreadInv, Waits, Flat, OnCore, Init
<1>5. FreshInv
  BY <1>1, <1>2, RehostConstants DEF FreshInv
<1>6. \A i \in Slots : slot[i] = EmptySlot /\ slot[i].thread = NoThread /\ ~slot[i].valid /\ slot[i].task = Idle
  BY DEF Init, EmptySlot, Idle
<1>7. SlotsInv
  BY Zenon, <1>2, <1>6 DEF SlotsInv, SlotInv, Init
<1>8. Runs(Main)
  BY Zenon, <1>1, <1>2, RehostConstants DEF Runs, Init
<1>9. OwnTasks /\ FirstInv
  BY Zenon, <1>2, <1>6 DEF OwnTasks, FirstInv
<1> QED BY Zenon, <1>3, <1>4, <1>5, <1>7, <1>8, <1>9, RehostConstants DEF IInv

(* No step takes back that a signal came in a window. *)
LEMMA HurtStays ==
    ASSUME [Next]_rehostVars, hurt' = {}
    PROVE  hurt = {}
<1>1. CASE UNCHANGED rehostVars
  BY <1>1 DEF rehostVars
<1>2. CASE Over
  BY <1>2 DEF Over, rehostVars
<1>3. CASE \E t \in Threads : Goes(t) \/ Begins(t)
  <2>1. PICK t \in Threads : Goes(t) \/ Begins(t)
    BY <1>3
  <2>2. hurt' \in {hurt, hurt \cup {"tick"}, hurt \cup {"resume"}}
    BY Zenon, <2>1 DEF Goes, Begins, Thread_Wrapper, Suspend_Signal_Handler, CreateReturns, LOS_Schedule,
       OsSchedTaskSwitch, TickReturn, Suspend_Thread_Self, pthread_exit, sigwait, SigwaitReturns, Resumed,
       Start_Scheduler, PMCU_ThreadExit, LOS_TaskDelete, Systick_Signal_Handler, OsTickHandler, Abort,
       Pthread_Schedule, PMCU_BE_Task_Create, ResumeThread
  <2> QED BY <2>2
<1> QED BY <1>1, <1>2, <1>3 DEF Next

(* Every step of every thread, and every signal outside the windows, keeps *)
(* the invariant.                                                          *)
LEMMA NextInv ==
    ASSUME IInv, hurt' = {}, [Next]_rehostVars
    PROVE  IInv'
<1>1. CASE UNCHANGED rehostVars \/ Over
  <2>1. UNCHANGED <<locks, slot, pc, stack, resume, kernel, hurt>> /\ aborted' = aborted
    BY <1>1 DEF Over, rehostVars
  <2> QED BY Zenon, <2>1, SameInv DEF IInv, RehostTypeOK
<1>2. CASE \E t \in Threads : Goes(t) \/ Begins(t)
  <2>1. PICK t \in Threads : Goes(t) \/ Begins(t)
    BY <1>2
  <2>2. CASE Goes(t)
    BY Zenon, <2>2, WrapperInv, ParkInv, CreateReturnsInv, ScheduleInv, TaskSwitchInv, TickHandlerInv,
       TickReturnInv, HandOverInv, SuspendInv, ExitInv, SigwaitInv, SigwaitReturnsInv, ResumedInv DEF Goes
  <2>3. CASE Begins(t)
    BY Zenon, <2>3, CreateInv, StartInv, ScheduleInv, TaskEndsInv, DeleteInv, TickComesInv DEF Begins
  <2> QED BY <2>1, <2>2, <2>3
<1> QED BY <1>1, <1>2 DEF Next

----------------------------------------------------------------------------
(* Until a signal comes in a window the layer keeps its locking discipline *)
(* and the books of its slots, for any number of threads, tasks and slots. *)
THEOREM RehostSafe == Spec => [](Unhurt => IInv)
<1>1. Init => (Unhurt => IInv)
  BY InitInv
<1>2. (Unhurt => IInv) /\ [Next]_rehostVars => (Unhurt => IInv)'
  BY NextInv, HurtStays DEF Unhurt
<1> QED BY <1>1, <1>2, PTL DEF Spec

(* Until a signal comes in a window Pthread_Schedule keeps exactly one     *)
(* thread running or about to run.                                         *)
THEOREM RehostOneRunner == Spec => []OneRunnerUnhurt
<1>1. IInv => OneRunner
  BY ActiveIs DEF IInv, OneRunner, Runs
<1>2. (Unhurt => IInv) => OneRunnerUnhurt
  BY <1>1 DEF OneRunnerUnhurt
<1> QED BY <1>2, RehostSafe, PTL

(* Until a signal comes in a window the thread that runs is one made for   *)
(* the ID of g_losTask.runTask, and it holds single_core_mutex.            *)
THEOREM RehostRunner == Spec => []RunnerIsRunTask
<1>1. ASSUME IInv, NEW t \in Threads, Executes(t)
      PROVE  serves[t] = runTask /\ core = t
  <2>1. Goer(t) /\ pc[t].at # "switch" /\ pc[t].at \in OnCore
    BY <1>1 DEF Executes, Goer, Goers, OnCore
  <2> QED BY Zenon, <1>1, <2>1, GoerFacts DEF IInv, ThreadInv
<1>2. (Unhurt => IInv) => RunnerIsRunTask
  BY <1>1 DEF RunnerIsRunTask
<1> QED BY <1>2, RehostSafe, PTL

(* Until a signal comes in a window a thread that has handed over looks    *)
(* its own slot up by its task ID and finds itself there.                  *)
THEOREM RehostLeaves == Spec => []LeavesByOwnSlot
<1>1. (Unhurt => IInv) => LeavesByOwnSlot
  BY OwnSlotIs DEF LeavesByOwnSlot
<1> QED BY <1>1, RehostSafe, PTL

(* Without a signal in a window and without a task deleted under its       *)
(* thread, no assert fails while fewer than THREAD_NUMBER tasks live.      *)
THEOREM RehostAsserts == Spec => []AssertsHold
<1>1. Init => AssertsHold
  BY DEF Init, AssertsHold
<1>2. (Unhurt => IInv) /\ AssertsHold /\ [Next]_rehostVars => AssertsHold'
  <2> SUFFICES ASSUME Unhurt => IInv, AssertsHold, [Next]_rehostVars, aborted', hurt' = {}
               PROVE  AssertsHold'
    BY DEF AssertsHold, Unhurt
  <2>1. CASE UNCHANGED rehostVars \/ Over
    BY <2>1 DEF AssertsHold, Over, rehostVars, kernel, Unhurt
  <2>2. CASE Next /\ ~Over
    <3>1. ~aborted
      BY <2>2 DEF Next
    <3>2. IInv
      BY HurtStays DEF Unhurt
    <3> QED BY <2>2, <3>1, <3>2, AbortIs
  <2> QED BY <2>1, <2>2
<1> QED BY <1>1, <1>2, RehostSafe, PTL DEF Spec
============================================================================
