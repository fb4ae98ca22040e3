--------------------------- MODULE TaskLifecycle ---------------------------
(***************************************************************************)
(* What a task store promises about each task, whatever the backend: the   *)
(* status machine of internal/store/model/contract.go (TaskStore) and      *)
(* internal/proto/model.go (Task), the ownership epoch and the retry       *)
(* budget.  Any number of tasks may move in one step, each by one of the   *)
(* moves below; how tasks are found, ordered, stored or locked does not    *)
(* appear.                                                                 *)
(***************************************************************************)
EXTENDS Integers, TaskDag

VARIABLES
    count,   \* how many tasks have been created
    life     \* the tasks ever created, in creation order

\* One task.  `base` is the epoch at the last requeue by hand.
Life == [status : Statuses, epoch : Nat, retries : Nat, budget : Nat,
         dead : BOOLEAN, needsApproval : BOOLEAN, approved : BOOLEAN, base : Nat]

\* What a step from r to s leaves alone: the terms the task was created with
\* (never changed), the gate it passed, the runs it had, its place among the
\* dead letters.
SameTerms(r, s) == s.budget = r.budget /\ s.needsApproval = r.needsApproval
SameGate(r, s) == s.approved = r.approved /\ s.base = r.base
SameRuns(r, s) == s.epoch = r.epoch /\ s.retries = r.retries
SameDead(r, s) == s.dead = r.dead

\* An agent takes a pending task.
Start(r, s) ==
    /\ r.status = "pending" /\ s.status = "running"
    /\ s.epoch = r.epoch + 1 /\ s.retries = r.retries
    /\ SameGate(r, s) /\ SameDead(r, s)

\* The holder reports success.
Finish(r, s) ==
    /\ r.status = "running" /\ s.status = "done"
    /\ SameGate(r, s) /\ SameRuns(r, s) /\ SameDead(r, s)

\* A run ends badly and a retry is left.
Retry(r, s) ==
    /\ r.status = "running" /\ s.status = "pending"
    /\ r.retries < r.budget
    /\ s.retries = r.retries + 1 /\ s.epoch = r.epoch
    /\ SameGate(r, s) /\ SameDead(r, s)

\* A run ends badly and the task is given up.
GiveUp(r, s) ==
    /\ r.status = "running" /\ s.status = "failed" /\ s.dead = TRUE
    /\ s.retries \in {r.retries, r.retries + 1} /\ s.epoch = r.epoch
    /\ SameGate(r, s)

Cancel(r, s) ==
    /\ r.status \in {"pending", "running"} /\ s.status = "cancelled"
    /\ SameGate(r, s) /\ SameRuns(r, s) /\ SameDead(r, s)

Approve(r, s) ==
    /\ r.status = "pending_approval" /\ s.status = "pending" /\ s.approved = TRUE
    /\ s.base = r.base /\ SameRuns(r, s) /\ SameDead(r, s)

Reject(r, s) ==
    /\ r.status = "pending_approval" /\ s.status = "rejected"
    /\ SameGate(r, s) /\ SameRuns(r, s) /\ SameDead(r, s)

\* The dependencies of a waiting task are done, or one of them failed.
Release(r, s) ==
    /\ r.status = "blocked" /\ s.status = "pending"
    /\ SameGate(r, s) /\ SameRuns(r, s) /\ SameDead(r, s)
FailUpstream(r, s) ==
    /\ r.status = "blocked" /\ s.status = "failed" /\ s.dead = TRUE
    /\ SameGate(r, s) /\ SameRuns(r, s)

\* An operator sends a dead letter back to the queue.
Requeue(r, s) ==
    /\ r.status = "failed" /\ r.dead = TRUE /\ s.status = "pending" /\ s.dead = FALSE
    /\ s.retries = 0 /\ s.epoch = r.epoch /\ s.base = r.epoch
    /\ s.approved = r.approved

Move(r, s) ==
    /\ SameTerms(r, s)
    /\ \/ Start(r, s) \/ Finish(r, s) \/ Retry(r, s) \/ GiveUp(r, s)
       \/ Cancel(r, s) \/ Approve(r, s) \/ Reject(r, s)
       \/ Release(r, s) \/ FailUpstream(r, s) \/ Requeue(r, s)

\* A task as CreateTask leaves it: one that needs approval waits for it.
Fresh(r) ==
    /\ r.status \in {"pending", "blocked", "pending_approval"}
    /\ r.needsApproval => r.status = "pending_approval"
    /\ r.epoch = 0 /\ r.retries = 0 /\ r.base = 0 /\ ~r.dead /\ ~r.approved
-----------------------------------------------------------------------------
Init == count = 0 /\ life = [i \in 1..0 |-> {}]

Create ==
    /\ count' = count + 1
    /\ life' \in [1..(count + 1) -> Life]
    /\ \A i \in 1..count : life'[i] = life[i]
    /\ Fresh(life'[count + 1])

Change ==
    /\ count' = count
    /\ life' \in [1..count -> Life]
    /\ \A i \in 1..count : life'[i] = life[i] \/ Move(life[i], life'[i])

Next == Create \/ Change

Spec == Init /\ [][Next]_<<count, life>>
-----------------------------------------------------------------------------
TypeOK == count \in Nat /\ life \in [1..count -> Life]

\* How the starts of a task since its last requeue relate to the retries spent:
\* the open run, or the one that settled the task, is not yet counted.
Accounted(r) ==
    LET runs == r.epoch - r.base
    IN  /\ r.status \in {"pending", "blocked", "pending_approval", "rejected"} =>
              runs = r.retries /\ r.retries <= r.budget
        /\ r.status \in {"running", "done"} =>
              runs = r.retries + 1 /\ r.retries <= r.budget
        /\ r.status \in {"failed", "cancelled"} =>
              r.base <= r.epoch /\ runs <= r.budget + 1

\* A task that needs approval is past the gate only if it was approved.
Gated(r) ==
    /\ r.needsApproval /\ r.status \notin {"pending_approval", "rejected"} => r.approved
    /\ r.status \in {"blocked", "pending_approval", "rejected"} => r.epoch = 0

LifeOK(r) ==
    /\ r \in Life
    /\ Accounted(r)
    /\ Gated(r)
    /\ r.dead <=> r.status = "failed"

\* The inductive invariant: every task is in order.
AllOK == count \in Nat /\ life \in [1..count -> Life] /\ \A i \in 1..count : LifeOK(life[i])
=============================================================================
