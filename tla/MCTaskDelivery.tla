--------------------------- MODULE MCTaskDelivery ---------------------------
(***************************************************************************)
(* Instance of TaskDelivery for TLC.                                       *)
(***************************************************************************)
EXTENDS TaskDelivery

SpecOf(id, retries) ==
    [taskID |-> id, agentID |-> "a1", dependsOn |-> {}, approvalRequired |-> FALSE,
     maxRetries |-> retries, priority |-> 0, key |-> NoKey, after |-> {}]

\* One task that may be reclaimed once and run again.
OneTask == {SpecOf("t1", 2)}
=============================================================================
