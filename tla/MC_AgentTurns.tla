---------------------------- MODULE MC_AgentTurns ----------------------------
(* Instances of AgentTurns: a session with an orderly user and a provider  *)
(* that answers; a session that meets every fault and every race; and one  *)
(* that waits for approvals while its workers and its provider fail.       *)
EXTENDS AgentTurns, TLC

Orderly == {"turn", "close", "accept", "resume", "archive", "edit", "reject"}
AllFaults == AllOperations \ {"approval"}
Interrupted == {"turn", "approval", "timeout", "provider_error", "worker_crash"}

WorkerSymmetry == Permutations(Workers)
RequestSymmetry == Permutations(Workers) \cup Permutations(Clients)
=============================================================================
