------------------------------- MODULE MCMux --------------------------------
(* Small instances of Mux: tasks are created with system stacks, not joined. *)
EXTENDS Mux, TLC

MCPlain == {{"STACK_FREE"}}
MCSym == Permutations(IpcList)
============================================================================
