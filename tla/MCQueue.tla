------------------------------ MODULE MCQueue -------------------------------
(* Small instances of Queue: tasks are created with system stacks, not joined. *)
EXTENDS Queue

CONSTANTS q1, q2

MCPlain == {{"STACK_FREE"}}
MCOneQueue == {q1}
MCTwoQueues == {q1, q2}
MCSymmetry == Permutations(Msgs)
MCLists == Queues \X {"read", "write", "mem"}
============================================================================
