---- MODULE MCAgentTasks ----
(* An instance of AgentTasks: one user sends a task with a file and one   *)
(* without, another user lists or downloads.                              *)
EXTENDS AgentTasks, TLC

MCUserOf == 1 :> "u1" @@ 2 :> "u1" @@ 3 :> "u2"

====
