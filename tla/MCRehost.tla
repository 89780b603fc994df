------------------------------ MODULE MCRehost ------------------------------
(* The rehosting layer, followed to the first signal in a window and to    *)
(* what the tick handler does then.                                        *)
EXTENDS Rehost

ToFirstHurt == Unhurt \/ \E t \in Threads : pc[t].at = "tick"
=============================================================================
