------------------------------ MODULE TaskDag ------------------------------
(***************************************************************************)
(* Status vocabulary of a task and the dependency predicates of            *)
(* internal/dag.  The predicates take the dependencies of one task and     *)
(* Lookup, the byID map of the code restricted to what they read: a        *)
(* function from task IDs to statuses, Missing for an ID that is not in    *)
(* the map.                                                                *)
(***************************************************************************)

\* An ID with no task behind it (the `ok` of a map lookup is false).
Missing == "missing"

\* The statuses the stores write.  "claimed" and "dead_letter" are named by
\* validTaskTransition and isTerminalStatus but never assigned.
Statuses == {"pending", "running", "done", "failed", "cancelled",
             "blocked", "pending_approval", "rejected"}

isTerminalStatus(status) ==
    status \in {"done", "failed", "cancelled", "rejected", "dead_letter"}

\* A missing dependency counts as not terminal.
AllDepsTerminal(deps, Lookup) == \A d \in deps : isTerminalStatus(Lookup[d])

\* Mutant: a cancelled or rejected dependency is not taken for a failure.
AnyDepFailedNarrow(deps, Lookup) == \E d \in deps : Lookup[d] = "failed"

\* A missing dependency counts as not failed.
AnyDepFailed(deps, Lookup) ==
    \E d \in deps : isTerminalStatus(Lookup[d]) /\ Lookup[d] # "done"

\* The status changes a result report may make.
validTaskTransition(from, to) ==
    \/ from = "pending" /\ to \in {"claimed", "running", "blocked", "pending_approval"}
    \/ from = "claimed" /\ to = "running"
    \/ from = "running" /\ to \in {"done", "failed", "cancelled", "pending"}
    \/ from = "blocked" /\ to = "pending"
    \/ from = "pending_approval" /\ to \in {"pending", "rejected"}
=============================================================================
