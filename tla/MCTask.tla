------------------------------- MODULE MCTask -------------------------------
EXTENDS Task
MCAttrs == {{"STACK_FREE"}, {"STACK_FREE", "JOINABLE"}}
MCPlain == {{"STACK_FREE"}}
============================================================================
