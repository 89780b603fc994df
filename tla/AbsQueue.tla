------------------------------ MODULE AbsQueue ------------------------------
(***************************************************************************)
(* What a message queue promises, without waits, counts or a ring: a       *)
(* bounded sequence of messages.  Writers append to it, or put a message   *)
(* before the others; a reader gets the first message, once.               *)
(***************************************************************************)
EXTENDS Naturals, Sequences

CONSTANTS Queue, Msg, NoMsg, Lens

VARIABLES
    used,       \* the queues that exist
    len,        \* how many messages a queue holds at most
    items,      \* the messages in each queue, the next to be read first
    told        \* the message a reader was given in the last step

absVars == <<used, len, items, told>>

Init ==
    /\ used = {} /\ told = NoMsg
    /\ len = [q \in Queue |-> 0] /\ items = [q \in Queue |-> <<>>]

Create(q, n) ==
    /\ q \notin used /\ used' = used \cup {q}
    /\ len' = [len EXCEPT ![q] = n]
    /\ items' = [items EXCEPT ![q] = <<>>]
    /\ told' = NoMsg

(* The messages that were not read are lost with the queue. *)
Destroy(q) ==
    /\ q \in used /\ used' = used \ {q}
    /\ len' = [len EXCEPT ![q] = 0]
    /\ items' = [items EXCEPT ![q] = <<>>]
    /\ told' = NoMsg

Write(q, m) ==
    /\ q \in used /\ Len(items[q]) < len[q]
    /\ \/ items' = [items EXCEPT ![q] = Append(@, m)]
       \/ items' = [items EXCEPT ![q] = <<m>> \o @]
    /\ told' = NoMsg /\ UNCHANGED <<used, len>>

Read(q) ==
    /\ q \in used /\ items[q] # <<>>
    /\ told' = Head(items[q])
    /\ items' = [items EXCEPT ![q] = Tail(@)]
    /\ UNCHANGED <<used, len>>

(* A step that concerns no queue. *)
Forget == told' = NoMsg /\ UNCHANGED <<used, len, items>>

Next ==
    \/ Forget
    \/ \E q \in Queue : Destroy(q) \/ Read(q)
    \/ \E q \in Queue, n \in Lens : Create(q, n)
    \/ \E q \in Queue, m \in Msg : Write(q, m)

Spec == Init /\ [][Next]_absVars
============================================================================
