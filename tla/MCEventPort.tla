---------------------------- MODULE MCEventPort ----------------------------
EXTENDS EventPort

CONSTANTS b1, b2

MCPlain == {{"STACK_FREE"}}
MCBits == {b1, b2}
MCReads == {[mask |-> {b1, b2}, all |-> TRUE, clear |-> TRUE, forever |-> TRUE],
            [mask |-> {b2}, all |-> FALSE, clear |-> FALSE, forever |-> TRUE]}
============================================================================
