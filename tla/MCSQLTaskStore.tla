--------------------------- MODULE MCSQLTaskStore ---------------------------
(***************************************************************************)
(* Instances of SQLTaskStore for TLC.                                      *)
(***************************************************************************)
EXTENDS SQLTaskStore, TLC

SpecOf(id, deps, approval, retries, prio, key) ==
    [taskID |-> id, agentID |-> "a1", dependsOn |-> deps,
     approvalRequired |-> approval, maxRetries |-> retries, priority |-> prio,
     key |-> key]

NothingYet == <<>>
NoSpecs == {}

\* One task: with a retry, an idempotency key and an approval to wait for, or
\* with none of them.
OneTask == {SpecOf("t1", {}, TRUE, 1, 0, "k1"), SpecOf("t1", {}, FALSE, 0, 0, "nokey")}

\* Two tasks and one that waits for both.
FanIn == <<SpecOf("t1", {}, FALSE, 0, 0, "nokey"), SpecOf("t2", {}, FALSE, 0, 0, "nokey"),
           SpecOf("t3", {"t1", "t2"}, FALSE, 0, 0, "nokey")>>

\* A task and one that waits for it.
Pair == <<SpecOf("t1", {}, FALSE, 0, 0, "nokey"), SpecOf("t2", {"t1"}, FALSE, 0, 0, "nokey")>>

ProcSymmetry == Permutations(Procs)
=============================================================================
