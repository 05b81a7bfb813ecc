------------------------------ MODULE MCAgent ------------------------------
(* An instance of AgentRun for TLC: one process, two classifications of    *)
(* the task, messages of at most four calls.                               *)
EXTENDS AgentSafety

CONSTANT proxy

(* A garbled message, and every shape: pairs of which the second is        *)
(* reached after a success, a refusal or a timeout, or is dropped with the *)
(* gate.                                                                   *)
TheMessages ==
    {<<>>, <<"browse", "overwrite">>, <<"create", "outside">>, <<"destroy", "edit">>,
     <<"branch", "mutate">>, <<"tests", "append">>,
     <<"read", "untestable", "unknown", "malformed">>}
=============================================================================
