------------------------------- MODULE MCStop -------------------------------
EXTENDS Stop
MCPlain == {{"STACK_FREE"}}
MCAttrs == {{"STACK_FREE"}, {"STACK_FREE", "JOINABLE"}}
============================================================================
