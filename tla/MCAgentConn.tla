---------------------------- MODULE MCAgentConn ----------------------------
(* Instances of AgentConn for TLC.                                          *)
EXTENDS AgentConn

CONSTANT r1
MCCallers == {r1}
=============================================================================
