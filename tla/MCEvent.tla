------------------------------ MODULE MCEvent -------------------------------
(* Small instances of Event: tasks are created with system stacks, not joined. *)
EXTENDS Event

CONSTANTS b1, b2

MCPlain == {{"STACK_FREE"}}
MCBits == {b1, b2}
Read(mask, all, clear, forever) ==
    [mask |-> mask, all |-> all, clear |-> clear, forever |-> forever]
MCReads == {Read({b1, b2}, TRUE, TRUE, TRUE), Read({b1, b2}, FALSE, TRUE, FALSE),
            Read({b2}, FALSE, FALSE, TRUE)}
============================================================================
