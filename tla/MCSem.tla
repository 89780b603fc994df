------------------------------- MODULE MCSem --------------------------------
(* Small instances of Sem: tasks are created with system stacks, not joined. *)
EXTENDS Sem

MCPlain == {{"STACK_FREE"}}
============================================================================
