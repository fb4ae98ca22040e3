-------------------------- MODULE MemoryTaskStore --------------------------
(***************************************************************************)
(* The task half of MemoryStore (internal/store/memory/memory.go).  Every  *)
(* operation runs under the store's one mutex, so every operation is one   *)
(* step.                                                                   *)
(*                                                                         *)
(* The code keeps, per agent, a slice of *Task in creation order and an    *)
(* index tasksByID.  Here the heap of task records is `task`, numbered in  *)
(* creation order; `listed` holds the records still in a slice and         *)
(* `tasksByID` the index.  Two records may carry the same task ID: the     *)
(* workflow engine chooses its own IDs ("wf-<id>-<node>") and uses them    *)
(* again on every run of the workflow.                                     *)
(*                                                                         *)
(* Time appears as two facts ReclaimStaleTasks tests against its cutoff:   *)
(* the claim is older than the lease (`leaseOld`), the agent's last        *)
(* heartbeat is older than the lease (`silent`).                           *)
(*                                                                         *)
(* Left out: tenant checks, cron templates, published events and the       *)
(* device fields TaskState and LastResult, which no task operation reads.  *)
(***************************************************************************)
EXTENDS Integers, TaskDag

CONSTANTS
    Agents,      \* registered agents
    TaskIDs,     \* task IDs
    Keys,        \* idempotency keys
    NoKey,       \* the empty idempotency key
    Specs,       \* the tasks callers ask CreateTask for
    CallerIDs,   \* the IDs chosen by the caller, which may be used again
    Lease,       \* TaskLeaseSec: 0 switches ReclaimStaleTasks off
    MaxTasks,    \* bound: task records ever created
    MaxClaims    \* bound: claims of one task record

Entries == 1..MaxTasks

\* One request for a task.  `after` are the tasks the caller has created before
\* it: the workflow engine creates the nodes of a workflow in list order.
TaskSpec ==
    [taskID : TaskIDs, agentID : Agents, dependsOn : SUBSET TaskIDs,
     approvalRequired : BOOLEAN, maxRetries : Nat, priority : Nat,
     key : Keys \cup {NoKey}, after : SUBSET TaskIDs]

ASSUME SpecsAssumption == Specs \subseteq TaskSpec
\* No caller asks for approval and dependencies at once: handleCreateTask and
\* handleBatchCreateTasks know no dependencies, the workflow engine no approval.
ASSUME ApprovalAssumption == \A s \in Specs : s.approvalRequired => s.dependsOn = {}
ASSUME BoundsAssumption == MaxTasks \in Nat /\ MaxClaims \in Nat /\ Lease \in Nat
ASSUME KeysAssumption == NoKey \notin Keys

\* No agent holds the task.
NoAgent == "none"
ASSUME AgentsAssumption == NoAgent \notin Agents

VARIABLES
    task,        \* the task records, by creation number
    n,           \* how many records have been created
    listed,      \* the records in a slice of m.tasks
    tasksByID,   \* m.tasksByID: the record an ID refers to, 0 for none
    idempotency, \* m.idempotencyKeys: the ID an unexpired key maps to
    silent,      \* the agents whose last heartbeat is older than the lease
    alerted,     \* IDs of the tasks with a critical dead-letter alert
    shown,       \* what TaskResult answers for an ID, see SubmitResult
    hist         \* history, read by the properties only

vars == <<task, n, listed, tasksByID, idempotency, silent, alerted, shown, hist>>

NoID == "noid"
ASSUME TaskIDsAssumption == NoID \notin TaskIDs

\* One proto.Task, as far as the lifecycle reads it.
TaskRecord ==
    [taskID : TaskIDs, agentID : Agents, dependsOn : SUBSET TaskIDs,
     approvalRequired : BOOLEAN, maxRetries : Nat, priority : Nat,
     key : Keys \cup {NoKey}, status : Statuses,
     claimedBy : Agents \cup {NoAgent}, leaseOld : BOOLEAN, claimEpoch : Nat,
     retryCount : Nat, deadLetter : BOOLEAN, approved : BOOLEAN]

\* What the properties remember of a record: the epoch at its last requeue by
\* hand, whether it was ever requeued so, and the record and epoch of the claim
\* whose report was accepted last (<<0, 0>>: none).
HistRecord == [base : Nat, requeued : BOOLEAN, from : Nat \X Nat]

NoHist == [base |-> 0, requeued |-> FALSE, from |-> <<0, 0>>]

Created == 1..n
-----------------------------------------------------------------------------
(***************************************************************************)
(* Helpers.                                                                *)
(***************************************************************************)
\* The slice m.tasks[a].
TasksOf(a) == {e \in listed : task[e].agentID = a}

\* Record r with its claim released: ClaimedAt and ClaimedBy reset.
Unclaimed(r) == [r EXCEPT !.claimedBy = NoAgent, !.leaseOld = FALSE]

\* What releaseDeps makes of a waiting task: ready to run, or failed because
\* of an upstream failure.
Released(r) == [Unclaimed(r) EXCEPT !.status = "pending"]
FailedUpstream(r) == [Unclaimed(r) EXCEPT !.status = "failed", !.deadLetter = TRUE]

\* The byID map releaseDeps builds over m.tasks[a]: of two records with one ID
\* the later wins.  `st` gives the status of each record.
LookupIn(a, st) ==
    [id \in TaskIDs |->
        LET same == {e \in TasksOf(a) : task[e].taskID = id}
        IN  IF same = {} THEN Missing
            ELSE st[CHOOSE e \in same : \A f \in same : f <= e]]

\* The pass of releaseDeps over the slice of agent a, with t the records when
\* it starts: `rel` are the blocked tasks it sets to pending and `fld` those it
\* fails.  The pass reads live statuses, so at record e the changes made to
\* earlier records are visible and those to later ones are not.
IsReleasePass(t, a, rel, fld) ==
    \A e \in {f \in TasksOf(a) : t[f].status = "blocked"} :
        LET seen == [f \in Created |->
                        IF f < e /\ f \in rel THEN "pending"
                        ELSE IF f < e /\ f \in fld THEN "failed"
                        ELSE t[f].status]
            byID == LookupIn(a, seen)
            deps == t[e].dependsOn
        IN  /\ (e \in fld) <=> AllDepsTerminal(deps, byID) /\ AnyDepFailed(deps, byID)
            /\ (e \in rel) <=> AllDepsTerminal(deps, byID) /\ ~AnyDepFailed(deps, byID)

\* releaseDeps, the last thing a report or a cancellation does: t are the
\* records and al the alerts the caller has already changed.
releaseDeps(t, al, a) ==
    LET blocked == {e \in TasksOf(a) : t[e].status = "blocked"}
    IN  \E rel \in SUBSET blocked : \E fld \in SUBSET blocked :
            /\ IsReleasePass(t, a, rel, fld)
            /\ task' = [e \in Created |->
                          IF e \in rel THEN Released(t[e])
                          ELSE IF e \in fld THEN FailedUpstream(t[e])
                          ELSE t[e]]
            /\ alerted' = al \cup {t[e].taskID : e \in fld}

\* What SubmitResult makes of a record whose report it accepts.
Reported(r, success) ==
    IF success THEN [r EXCEPT !.status = "done"]
    ELSE IF r.retryCount < r.maxRetries
         THEN [Unclaimed(r) EXCEPT !.retryCount = @ + 1, !.status = "pending"]
         ELSE [r EXCEPT !.status = "failed", !.deadLetter = TRUE]

\* Mutants: the epoch is not compared; the state machine is not asked.
AcceptsAnyEpoch(r, epoch, success) ==
    validTaskTransition(r.status, Reported(r, success).status)
AcceptsAnyStatus(r, epoch, success) == epoch = r.claimEpoch

\* SubmitResult takes a report with this epoch for record r: the state machine
\* allows the change and the epoch is the record's current one.
Accepts(r, epoch, success) ==
    /\ validTaskTransition(r.status, Reported(r, success).status)
    /\ epoch = r.claimEpoch

\* Mutant: a reclaim is not counted as a retry.
ReclaimedUncounted(r) ==
    IF r.retryCount + 1 >= r.maxRetries + 1
    THEN [Unclaimed(r) EXCEPT !.status = "failed", !.deadLetter = TRUE]
    ELSE [Unclaimed(r) EXCEPT !.status = "pending"]

\* What ReclaimStaleTasks makes of a stale record.
Reclaimed(r) ==
    IF r.retryCount + 1 >= r.maxRetries
    THEN [Unclaimed(r) EXCEPT !.retryCount = @ + 1, !.status = "failed",
                              !.deadLetter = TRUE]
    ELSE [Unclaimed(r) EXCEPT !.retryCount = @ + 1, !.status = "pending"]

\* Mutant: the dead-letter mark survives the requeue.
RequeuedStillDead(r) == [Unclaimed(r) EXCEPT !.status = "pending", !.retryCount = 0]

\* What RetryDeadLetterTask makes of a dead letter.
Requeued(r) ==
    [Unclaimed(r) EXCEPT !.deadLetter = FALSE, !.status = "pending", !.retryCount = 0]

\* What ApproveTask makes of a task that waits for approval.
Approved(r) == [r EXCEPT !.status = "pending", !.approved = TRUE]

\* Mutants: the epoch is not advanced; the status is the "claimed" of the
\* transition table, which no other operation knows.
ClaimedSameEpoch(r, a) ==
    [r EXCEPT !.status = "running", !.leaseOld = FALSE, !.claimedBy = a]
ClaimedNotRunning(r, a) ==
    [r EXCEPT !.claimEpoch = @ + 1, !.status = "claimed", !.leaseOld = FALSE,
              !.claimedBy = a]

\* What ClaimTask makes of the task agent a takes.
Claimed(r, a) ==
    [r EXCEPT !.claimEpoch = @ + 1, !.status = "running", !.leaseOld = FALSE,
              !.claimedBy = a]

\* The running records whose claim and whose claimer's heartbeat are both
\* older than the lease.
StaleTasks ==
    {e \in listed : /\ task[e].status = "running"
                    /\ task[e].leaseOld
                    /\ task[e].claimedBy \in silent}
-----------------------------------------------------------------------------
Init ==
    /\ task = [e \in 1..0 |-> <<>>]
    /\ n = 0
    /\ listed = {}
    /\ tasksByID = [id \in TaskIDs |-> 0]
    /\ idempotency = [k \in Keys |-> NoID]
    /\ silent = {}
    /\ alerted = {}
    /\ shown = [id \in TaskIDs |-> "none"]
    /\ hist = [e \in 1..0 |-> <<>>]

\* addTaskLocked: append r to its agent's slice, point the index at it.
addTaskLocked(r) ==
    /\ n < MaxTasks
    /\ n' = n + 1
    /\ task' = [e \in 1..(n + 1) |-> IF e \in Created THEN task[e] ELSE r]
    /\ hist' = [e \in 1..(n + 1) |-> IF e \in Created THEN hist[e] ELSE NoHist]
    /\ listed' = listed \cup {n + 1}
    /\ tasksByID' = [tasksByID EXCEPT ![r.taskID] = n + 1]

\* Mutant: the approval gate is forgotten.
InitialStatusUngated(s) == IF s.dependsOn # {} THEN "blocked" ELSE "pending"

\* The status CreateTask gives a new task.
InitialStatus(s) ==
    IF s.dependsOn # {} THEN "blocked"
    ELSE IF s.approvalRequired THEN "pending_approval"
    ELSE "pending"

NewTask(s) ==
    [taskID |-> s.taskID, agentID |-> s.agentID, dependsOn |-> s.dependsOn,
     approvalRequired |-> s.approvalRequired, maxRetries |-> s.maxRetries,
     priority |-> s.priority, key |-> s.key, status |-> InitialStatus(s),
     claimedBy |-> NoAgent, leaseOld |-> FALSE, claimEpoch |-> 0,
     retryCount |-> 0, deadLetter |-> FALSE, approved |-> FALSE]

\* An unexpired key maps to a task that still exists: CreateTask returns it.
IdempotentHit(s) ==
    /\ s.key # NoKey
    /\ idempotency[s.key] # NoID
    /\ tasksByID[idempotency[s.key]] # 0

\* CreateTask.  An ID the store generates is fresh; a caller's may not be.
CreateTask(s) ==
    /\ s.taskID \in CallerIDs \/ \A e \in Created : task[e].taskID # s.taskID
    /\ \A d \in s.after : \E e \in Created : task[e].taskID = d
    /\ ~IdempotentHit(s)
    /\ addTaskLocked(NewTask(s))
    /\ idempotency' = IF s.key = NoKey THEN idempotency
                      ELSE [idempotency EXCEPT ![s.key] = s.taskID]
    /\ UNCHANGED <<silent, alerted, shown>>

\* The 24 h of an idempotency entry are over; the next cleanup deletes it and
\* no lookup honours it before.
cleanupIdempotency(k) ==
    /\ idempotency[k] # NoID
    /\ idempotency' = [idempotency EXCEPT ![k] = NoID]
    /\ UNCHANGED <<task, n, listed, tasksByID, silent, alerted, hist, shown>>

\* ClaimTask: the pending task of highest priority, the oldest of those.
ClaimTask(a) ==
    LET candidates == {e \in TasksOf(a) : task[e].status = "pending"}
    IN  \E e \in candidates :
            /\ \A f \in candidates :
                  \/ task[e].priority > task[f].priority
                  \/ task[e].priority = task[f].priority /\ e <= f
            /\ task[e].claimEpoch < MaxClaims
            /\ task' = [task EXCEPT ![e] = Claimed(@, a)]
            /\ UNCHANGED <<n, listed, tasksByID, idempotency, silent, alerted, hist, shown>>

\* Time passes: a claim, or the last heartbeat of an agent, gets as old as the
\* lease.  Only ReclaimStaleTasks asks for it, so without a lease it is not kept.
LeaseExpires(e) ==
    /\ Lease > 0
    /\ task[e].status = "running" /\ ~task[e].leaseOld
    /\ task' = [task EXCEPT ![e].leaseOld = TRUE]
    /\ UNCHANGED <<n, listed, tasksByID, idempotency, silent, alerted, hist, shown>>

HeartbeatLapses(a) ==
    /\ Lease > 0
    /\ a \notin silent
    /\ silent' = silent \cup {a}
    /\ UNCHANGED <<task, n, listed, tasksByID, idempotency, alerted, hist, shown>>

\* Heartbeat (and a repeated Register) of a known agent: LastSeen is now.
Heartbeat(a) ==
    /\ a \in silent
    /\ silent' = silent \ {a}
    /\ UNCHANGED <<task, n, listed, tasksByID, idempotency, alerted, hist, shown>>

\* ReclaimStaleTasks: all stale tasks in one go.  Dependants are not looked at.
ReclaimStaleTasks ==
    /\ Lease > 0
    /\ StaleTasks # {}
    /\ task' = [e \in Created |-> IF e \in StaleTasks THEN Reclaimed(task[e])
                                                     ELSE task[e]]
    /\ alerted' = alerted \cup {task[e].taskID : e \in
                      {f \in StaleTasks : Reclaimed(task[f]).deadLetter}}
    /\ UNCHANGED <<n, listed, tasksByID, idempotency, silent, hist, shown>>

\* SubmitResult of the report the holder of claim `epoch` of record c sends,
\* perhaps late, perhaps again.  The report is kept whether or not it is accepted,
\* and TaskResult answers with the first one kept for an ID.  SubmitResult walks
\* the agent's records with that ID in order and returns at the first that does
\* not accept; dependants are released only if it never returned early.
SubmitResult(c, epoch, success) ==
    LET same     == {e \in TasksOf(task[c].agentID) : task[e].taskID = task[c].taskID}
        refusing == {e \in same : ~Accepts(task[e], epoch, success)}
        taken    == {e \in same : \A f \in refusing : e < f}
        t        == [e \in Created |-> IF e \in taken THEN Reported(task[e], success)
                                                      ELSE task[e]]
        al       == alerted \cup {task[e].taskID : e \in {f \in taken : t[f].deadLetter}}
    IN  /\ IF refusing = {} THEN releaseDeps(t, al, task[c].agentID)
                            ELSE task' = t /\ alerted' = al
        /\ shown' = [shown EXCEPT ![task[c].taskID] =
                        IF @ # "none" THEN @ ELSE IF success THEN "ok" ELSE "failed"]
        /\ hist' = [e \in Created |-> IF e \in taken
                                      THEN [hist[e] EXCEPT !.from = <<c, epoch>>]
                                      ELSE hist[e]]
        /\ UNCHANGED <<n, listed, tasksByID, idempotency, silent>>

\* Mutant: dependants are not looked at after a cancellation.
CancelTaskNoRelease(id) ==
    LET e == tasksByID[id]
    IN  /\ e # 0 /\ task[e].status \in {"pending", "running"}
        /\ task' = [task EXCEPT ![e].status = "cancelled"]
        /\ UNCHANGED <<n, listed, tasksByID, idempotency, silent, alerted, hist, shown>>

\* CancelTask of the task the ID refers to.
CancelTask(id) ==
    LET e == tasksByID[id]
    IN  /\ e # 0 /\ task[e].status \in {"pending", "running"}
        /\ releaseDeps([task EXCEPT ![e].status = "cancelled"], alerted, task[e].agentID)
        /\ UNCHANGED <<n, listed, tasksByID, idempotency, silent, hist, shown>>

ApproveTask(id) ==
    LET e == tasksByID[id]
    IN  /\ e # 0 /\ task[e].status = "pending_approval"
        /\ task' = [task EXCEPT ![e] = Approved(@)]
        /\ UNCHANGED <<n, listed, tasksByID, idempotency, silent, alerted, hist, shown>>

RejectTask(id) ==
    LET e == tasksByID[id]
    IN  /\ e # 0 /\ task[e].status = "pending_approval"
        /\ task' = [task EXCEPT ![e].status = "rejected"]
        /\ UNCHANGED <<n, listed, tasksByID, idempotency, silent, alerted, hist, shown>>

\* RetryDeadLetterTask: back to pending with a fresh budget; the dependencies
\* are not looked at again.
RetryDeadLetterTask(id) ==
    LET e == tasksByID[id]
    IN  /\ e # 0 /\ task[e].deadLetter /\ task[e].status = "failed"
        /\ task' = [task EXCEPT ![e] = Requeued(@)]
        /\ hist' = [hist EXCEPT ![e] = [@ EXCEPT !.base = task[e].claimEpoch,
                                                !.requeued = TRUE]]
        /\ UNCHANGED <<n, listed, tasksByID, idempotency, silent, alerted, shown>>

\* DeleteTask: the first record with this ID leaves the slice, the ID leaves
\* the index; the status is not looked at.
DeleteTask(id) ==
    LET same == {f \in TasksOf(task[tasksByID[id]].agentID) : task[f].taskID = id}
    IN  /\ tasksByID[id] # 0
        /\ listed' = listed \ {f \in same : \A g \in same : f <= g}
        /\ tasksByID' = [tasksByID EXCEPT ![id] = 0]
        /\ UNCHANGED <<task, n, idempotency, silent, alerted, hist, shown>>

Next ==
    \/ \E s \in Specs : CreateTask(s)
    \/ \E k \in Keys : cleanupIdempotency(k)
    \/ \E a \in Agents : ClaimTask(a) \/ Heartbeat(a) \/ HeartbeatLapses(a)
    \/ \E e \in listed : LeaseExpires(e)
    \/ ReclaimStaleTasks
    \/ \E c \in Created : \E epoch \in 1..task[c].claimEpoch, success \in BOOLEAN :
          SubmitResult(c, epoch, success)
    \/ \E id \in TaskIDs :
          \/ CancelTask(id) \/ ApproveTask(id) \/ RejectTask(id)
          \/ RetryDeadLetterTask(id) \/ DeleteTask(id)

Spec == Init /\ [][Next]_vars
-----------------------------------------------------------------------------
(***************************************************************************)
(* Properties.                                                             *)
(***************************************************************************)
\* Every variable holds a value of its kind; the index and the slices refer to
\* created records only.
TypeOK ==
    /\ n \in 0..MaxTasks
    /\ task \in [Created -> TaskRecord]
    /\ hist \in [Created -> HistRecord]
    /\ listed \subseteq Created
    /\ tasksByID \in [TaskIDs -> Created \cup {0}]
    /\ idempotency \in [Keys -> TaskIDs \cup {NoID}]
    /\ silent \subseteq Agents
    /\ alerted \subseteq TaskIDs
    /\ shown \in [TaskIDs -> {"none", "ok", "failed"}]

\* A task is started at most MaxRetries + 1 times between two requeues by hand,
\* whichever mix of failed reports, lost agents and late reports ended its
\* runs: the retry budget that SubmitResult and ReclaimStaleTasks both spend
\* cannot be spent twice or escape the count.
RunsBounded ==
    \A e \in Created :
        task[e].claimEpoch - hist[e].base <= task[e].maxRetries + 1

\* A task is done only through the report of its current claim: a report of an
\* earlier claim (before a retry or a reclaim) never completes it, nor does one
\* of another task (SubmitResult's ClaimEpoch check).  Only of two records that
\* a caller gave one ID may one be completed by a report of the other.
DoneByHolder ==
    \A e \in Created : task[e].status = "done" =>
        /\ hist[e].from[2] = task[e].claimEpoch
        /\ \E c \in Created :
              /\ hist[e].from[1] = c
              /\ task[c].taskID = task[e].taskID /\ task[c].agentID = task[e].agentID
              /\ c # e => task[e].taskID \in CallerIDs

\* A failed task is in the dead-letter view and has its critical alert, however
\* it failed (report, reclaim or upstream failure), and nothing else is there.
DeadLetterVisible ==
    \A e \in Created :
        /\ (task[e].status = "failed") <=> task[e].deadLetter
        /\ task[e].deadLetter => task[e].taskID \in alerted

\* A task that needs approval has been approved before any claim of it,
\* whatever was cancelled, retried or reclaimed in between.
ApprovedBeforeRun ==
    \A e \in Created :
        task[e].approvalRequired /\ task[e].claimEpoch > 0 => task[e].approved

\* A task with dependencies that was not requeued by hand has started only if
\* each of its dependencies had completed.
DepsDoneBeforeRun ==
    \A e \in Created :
        task[e].claimEpoch > 0 /\ ~hist[e].requeued =>
            \A d \in task[e].dependsOn :
                \E f \in Created : task[f].taskID = d /\ task[f].status = "done"

\* A done, cancelled or rejected task keeps its status whatever reports arrive
\* late; a failed one leaves only for the queue, out of the dead letters and
\* with a fresh budget (RetryDeadLetterTask).
TerminalStays ==
    [][\A e \in Created :
          /\ task[e].status \in {"done", "cancelled", "rejected"} =>
                task'[e].status = task[e].status
          /\ task[e].status = "failed" =>
                \/ task'[e].status = "failed"
                \/ /\ task'[e].status = "pending"
                   /\ task'[e].retryCount = 0 /\ ~task'[e].deadLetter]_vars

\* The life of one record, as TaskLifecycle sees it.
LifeOf(r, h) ==
    [status |-> r.status, epoch |-> r.claimEpoch, retries |-> r.retryCount,
     budget |-> r.maxRetries, dead |-> r.deadLetter,
     needsApproval |-> r.approvalRequired, approved |-> r.approved, base |-> h.base]

Lifecycle == INSTANCE TaskLifecycle
             WITH count <- n, life <- [e \in Created |-> LifeOf(task[e], hist[e])]

\* The store keeps the promise of TaskLifecycle: whatever operation runs, each
\* record makes one legal move or none.
LifecycleKept == Lifecycle!Spec

\* Record e waits although each of its dependencies has reached its end.
Resolvable(e) ==
    /\ e \in listed /\ task[e].status = "blocked"
    /\ AllDepsTerminal(task[e].dependsOn,
                       LookupIn(task[e].agentID, [f \in Created |-> task[f].status]))

\* The step that ends the last open dependency of a waiting task also decides
\* that task: it is released or failed, through chains of waiting tasks too,
\* never left blocked (the comment of releaseDeps, "而不是永久 blocked").
StepResolves ==
    [][\A e \in Created :
          task[e].status = "blocked" /\ Resolvable(e)' => Resolvable(e)]_vars
=============================================================================
