---------------------------- MODULE MCAgentSemaphore ----------------------------
(* AgentSemaphore with small constants, given by the configuration. *)
EXTENDS AgentSemaphore, TLC

================================================================================
