--------------------------- MODULE MC_DurableJobs ---------------------------
(* Instances of DurableJobs: a push of one platform, a push of two, and a  *)
(* generation whose effect is released when the provider fails.            *)
EXTENDS DurableJobsEffects, TLC

CONSTANTS j1, j2, devto, hashnode, provider

PushTwo == [j \in Jobs |-> <<devto, hashnode>>]
PushOne == [j \in Jobs |-> <<devto>>]
Generate == [j \in Jobs |-> <<provider>>]
Mixed == [j \in Jobs |-> <<provider, devto>>]

InOrder == [j \in Jobs |-> IF j = j1 THEN 1 ELSE 2]

WorkerSymmetry == Permutations(Workers)
=============================================================================
