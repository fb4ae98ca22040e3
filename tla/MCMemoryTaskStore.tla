------------------------- MODULE MCMemoryTaskStore -------------------------
(***************************************************************************)
(* Instances of MemoryTaskStore for TLC.                                   *)
(***************************************************************************)
EXTENDS MemoryTaskStore

SpecOf(id, deps, approval, retries, prio, key, after) ==
    [taskID |-> id, agentID |-> "a1", dependsOn |-> deps,
     approvalRequired |-> approval, maxRetries |-> retries, priority |-> prio,
     key |-> key, after |-> after]

\* A task with one retry and one of higher priority that needs approval; both
\* are asked for under one idempotency key.
PlainSpecs ==
    {SpecOf("t1", {}, FALSE, 1, 0, "k1", {}),
     SpecOf("t2", {}, TRUE, 1, 1, "k1", {})}

\* A workflow of three nodes, listed so that every node follows the nodes it
\* depends on.
SortedWorkflow ==
    {SpecOf("t1", {}, FALSE, 0, 0, "nokey", {}),
     SpecOf("t2", {"t1"}, FALSE, 1, 0, "nokey", {"t1"}),
     SpecOf("t3", {"t1", "t2"}, FALSE, 0, 0, "nokey", {"t1", "t2"})}
=============================================================================
