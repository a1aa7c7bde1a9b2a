-------------------------- MODULE MCChatRunHistory --------------------------
(* The instances of MCChatRun with the history of the agent's executions.  *)
EXTENDS MCChatRun, ChatRunHistory
=============================================================================
