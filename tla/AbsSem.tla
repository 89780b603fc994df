------------------------------- MODULE AbsSem -------------------------------
(***************************************************************************)
(* What a semaphore promises, without a scheduler: a count, a first-in     *)
(* first-out queue of waiters, and for each waiter that left the queue     *)
(* exactly one outcome, a token or a time-out.  A token is handed to the   *)
(* waiter at the head and to nobody else; it is never both handed out and  *)
(* counted.                                                                *)
(***************************************************************************)
EXTENDS Naturals, Sequences

CONSTANTS Client, Sem, Counts

VARIABLES
    used,       \* the semaphores that exist
    alive,      \* the clients that exist
    count,      \* tokens to be had at once
    max,        \* the count is never raised above this
    queue,      \* clients waiting, in order of arrival
    outcome     \* what a client that stopped waiting will be told

absVars == <<used, alive, count, max, queue, outcome>>

NotDue == "none"

(* Who waits in the queue q, and q once c has left it *)
Waiting(q) == {q[i] : i \in DOMAIN q}

Without(q, c) ==
    IF c \in Waiting(q)
    THEN LET at == CHOOSE i \in DOMAIN q : q[i] = c
         IN  SubSeq(q, 1, at - 1) \o SubSeq(q, at + 1, Len(q))
    ELSE q

Init ==
    /\ used = {} /\ alive \subseteq Client
    /\ count = [o \in Sem |-> 0] /\ max = [o \in Sem |-> 0]
    /\ queue = [o \in Sem |-> <<>>]
    /\ outcome = [c \in Client |-> NotDue]

Create(o, n, m) ==
    /\ o \notin used /\ n <= m
    /\ used' = used \cup {o}
    /\ count' = [count EXCEPT ![o] = n] /\ max' = [max EXCEPT ![o] = m]
    /\ UNCHANGED <<alive, queue, outcome>>

Destroy(o) ==
    /\ o \in used /\ queue[o] = <<>>
    /\ used' = used \ {o}
    /\ UNCHANGED <<alive, count, max, queue, outcome>>

Born(c) ==
    /\ c \notin alive /\ alive' = alive \cup {c}
    /\ UNCHANGED <<used, count, max, queue, outcome>>

Take(o) ==
    /\ o \in used /\ count[o] > 0
    /\ count' = [count EXCEPT ![o] = @ - 1]
    /\ UNCHANGED <<used, alive, max, queue, outcome>>

Enter(o, c) ==
    /\ o \in used /\ c \in alive /\ count[o] = 0 /\ outcome[c] = NotDue
    /\ \A s \in Sem : c \notin Waiting(queue[s])
    /\ queue' = [queue EXCEPT ![o] = Append(@, c)]
    /\ UNCHANGED <<used, alive, count, max, outcome>>

Post(o) ==
    \/ /\ o \in used /\ queue[o] = <<>> /\ count[o] < max[o]
       /\ count' = [count EXCEPT ![o] = @ + 1]
       /\ UNCHANGED <<used, alive, max, queue, outcome>>
    \/ /\ queue[o] # <<>>
       /\ outcome' = [outcome EXCEPT ![Head(queue[o])] = "token"]
       /\ queue' = [queue EXCEPT ![o] = Tail(@)]
       /\ UNCHANGED <<used, alive, count, max>>

TimeOut(o, c) ==
    /\ c \in Waiting(queue[o])
    /\ queue' = [queue EXCEPT ![o] = Without(@, c)]
    /\ outcome' = [outcome EXCEPT ![c] = "timeout"]
    /\ UNCHANGED <<used, alive, count, max>>

Return(c) ==
    /\ outcome[c] # NotDue
    /\ outcome' = [outcome EXCEPT ![c] = NotDue]
    /\ UNCHANGED <<used, alive, count, max, queue>>

(* A client that is deleted leaves its queue and takes its token along. *)
Cancel(c) ==
    /\ c \in alive /\ alive' = alive \ {c}
    /\ queue' = [o \in Sem |-> Without(queue[o], c)]
    /\ outcome' = [outcome EXCEPT ![c] = NotDue]
    /\ UNCHANGED <<used, count, max>>

Next ==
    \/ \E o \in Sem : Destroy(o) \/ Take(o) \/ Post(o)
    \/ \E o \in Sem, n, m \in Counts : Create(o, n, m)
    \/ \E o \in Sem, c \in Client : Enter(o, c) \/ TimeOut(o, c)
    \/ \E c \in Client : Born(c) \/ Return(c) \/ Cancel(c)

Spec == Init /\ [][Next]_absVars
============================================================================
