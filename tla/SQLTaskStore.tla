---------------------------- MODULE SQLTaskStore ----------------------------
(***************************************************************************)
(* The task half of SQLStore (internal/store/sqlstore/sql_tasks.go), the   *)
(* production backend.  Several replicas of the control plane serve        *)
(* requests against one MySQL database.  One SQL statement (or one         *)
(* transaction) is one step; a request is a process of Procs that runs     *)
(* from statement to statement and keeps what it has read in between.      *)
(*                                                                         *)
(* `row` holds the rows of table tasks ever inserted, in the order of      *)
(* created_at; `present` those not deleted.  task_id is the primary key:   *)
(* no two present rows share it.  A request that is cut off (the replica   *)
(* crashes, or the 10 s deadline all its statements share has passed)      *)
(* leaves behind what its statements have done: action Stop.               *)
(*                                                                         *)
(* Left out as in MemoryTaskStore: tenant checks, cron templates, events,  *)
(* the device fields.  The leader fence of ReclaimStaleTasks is in module  *)
(* LeaderLease.                                                            *)
(***************************************************************************)
EXTENDS Integers, Sequences, TaskDag

CONSTANTS
    Agents, TaskIDs, Keys, NoKey,
    Specs,       \* the tasks callers ask CreateTask for
    CallerIDs,   \* the IDs chosen by the caller, which may be used again
    Preloaded,   \* the requests served before the behaviour starts
    Procs,       \* requests in flight at a time
    Lease,       \* TaskLeaseSec: 0 switches ReclaimStaleTasks off
    MayStop,     \* whether a request may be cut off
    Purged,      \* bound: the IDs DeleteTask is asked for
    MaxTasks,    \* bound: rows ever inserted
    MaxClaims    \* bound: claims of one row

Entries == 1..MaxTasks

\* One request for a task.
TaskSpec ==
    [taskID : TaskIDs, agentID : Agents, dependsOn : SUBSET TaskIDs,
     approvalRequired : BOOLEAN, maxRetries : Nat, priority : Nat,
     key : Keys \cup {NoKey}]

ASSUME SpecsAssumption ==
    /\ Specs \subseteq TaskSpec /\ Preloaded \in Seq(TaskSpec)
    /\ \A i, j \in 1..Len(Preloaded) : Preloaded[i].taskID = Preloaded[j].taskID => i = j
\* No caller asks for approval and dependencies at once: handleCreateTask and
\* handleBatchCreateTasks know no dependencies, the workflow engine no approval.
ASSUME ApprovalAssumption ==
    /\ \A s \in Specs : s.approvalRequired => s.dependsOn = {}
    /\ \A i \in 1..Len(Preloaded) :
          Preloaded[i].approvalRequired => Preloaded[i].dependsOn = {}
ASSUME BoundsAssumption ==
    /\ MaxTasks \in Nat /\ MaxClaims \in Nat /\ Lease \in Nat
    /\ Len(Preloaded) <= MaxTasks /\ MayStop \in BOOLEAN
ASSUME KeysAssumption == NoKey \notin Keys

NoAgent == "none"
NoID == "noid"
ASSUME NamesAssumption == NoAgent \notin Agents /\ NoID \notin TaskIDs

VARIABLES
    row,      \* table tasks, every row ever inserted
    n,        \* how many
    present,  \* the rows not deleted
    result,   \* table task_results: what TaskResult answers for an ID
    alerted,  \* table alerts: the IDs with a critical dead-letter alert
    silent,   \* the agents whose last_seen is older than the lease
    proc,     \* the requests in flight
    hist      \* history, read by the properties only

vars == <<row, n, present, result, alerted, silent, proc, hist>>

Created == 1..n

RowRecord ==
    [taskID : TaskIDs, agentID : Agents, dependsOn : SUBSET TaskIDs,
     approvalRequired : BOOLEAN, maxRetries : Nat, priority : Nat,
     key : Keys \cup {NoKey}, status : Statuses,
     claimedBy : Agents \cup {NoAgent}, leaseOld : BOOLEAN, claimEpoch : Nat,
     retryCount : Nat, deadLetter : BOOLEAN, approved : BOOLEAN]

\* A request: the statement it runs next, and its Go variables.  `from` is the
\* report's claim, `verdict` the branch of SubmitResult chosen, `blocked` the
\* waiting IDs releaseDeps has listed, with their dependencies, `rel` and `fld` those it still has to
\* release and to fail, `owed` the ID whose alert comes next, `asked` the task to
\* create.
ProcRecord ==
    [pc : {"idle", "read", "write", "owner", "list", "states", "apply", "insert"},
     id : TaskIDs \cup {NoID}, agent : Agents \cup {NoAgent},
     from : Nat \X Nat, ok : BOOLEAN, verdict : {"none", "done", "retry", "dead"},
     blocked : SUBSET (TaskIDs \X SUBSET TaskIDs), rel : SUBSET TaskIDs, fld : SUBSET TaskIDs,
     owed : SUBSET TaskIDs, asked : SUBSET Specs]

Idle ==
    [pc |-> "idle", id |-> NoID, agent |-> NoAgent, from |-> <<0, 0>>, ok |-> FALSE,
     verdict |-> "none", blocked |-> {}, rel |-> {}, fld |-> {}, owed |-> {},
     asked |-> {}]

\* As in MemoryTaskStore.
HistRecord == [base : Nat, requeued : BOOLEAN, from : Nat \X Nat]
NoHist == [base |-> 0, requeued |-> FALSE, from |-> <<0, 0>>]
-----------------------------------------------------------------------------
(***************************************************************************)
(* What the statements do to one row.                                      *)
(***************************************************************************)
\* The present rows with this task_id: one or none.
WithID(id) == {e \in present : row[e].taskID = id}

Unclaimed(r) == [r EXCEPT !.claimedBy = NoAgent, !.leaseOld = FALSE]

InitialStatus(s) ==
    IF s.dependsOn # {} THEN "blocked"
    ELSE IF s.approvalRequired THEN "pending_approval"
    ELSE "pending"

NewRow(s) ==
    [taskID |-> s.taskID, agentID |-> s.agentID, dependsOn |-> s.dependsOn,
     approvalRequired |-> s.approvalRequired, maxRetries |-> s.maxRetries,
     priority |-> s.priority, key |-> s.key, status |-> InitialStatus(s),
     claimedBy |-> NoAgent, leaseOld |-> FALSE, claimEpoch |-> 0,
     retryCount |-> 0, deadLetter |-> FALSE, approved |-> FALSE]

\* ON DUPLICATE KEY UPDATE: the claim, the retries, the dead-letter mark and
\* the agent of the old row stay.
Upserted(r, s) ==
    [r EXCEPT !.status = InitialStatus(s), !.maxRetries = s.maxRetries,
              !.priority = s.priority, !.key = s.key,
              !.approvalRequired = s.approvalRequired, !.dependsOn = s.dependsOn]

\* Mutants: the claim leaves the epoch alone; the status is the "claimed" of
\* the transition table, which no other statement knows.
ClaimedSameEpoch(r, a) ==
    [r EXCEPT !.status = "running", !.claimedBy = a, !.leaseOld = FALSE]
ClaimedNotRunning(r, a) ==
    [r EXCEPT !.status = "claimed", !.claimedBy = a, !.leaseOld = FALSE,
              !.claimEpoch = @ + 1]

Claimed(r, a) ==
    [r EXCEPT !.status = "running", !.claimedBy = a, !.leaseOld = FALSE,
              !.claimEpoch = @ + 1]

\* The three UPDATEs of SubmitResult.
Reported(r, verdict) ==
    CASE verdict = "done"  -> [r EXCEPT !.status = "done"]
      [] verdict = "retry" -> [Unclaimed(r) EXCEPT !.status = "pending",
                                                   !.retryCount = @ + 1]
      [] verdict = "dead"  -> [r EXCEPT !.status = "failed", !.deadLetter = TRUE]

Released(r) == [Unclaimed(r) EXCEPT !.status = "pending"]
FailedUpstream(r) == [Unclaimed(r) EXCEPT !.status = "failed", !.deadLetter = TRUE]

\* The UPDATE of ReclaimStaleTasks.  MySQL evaluates a SET list from left to
\* right: status still sees the old retry_count, dead_letter the new one.
Reclaimed(r) ==
    LET rc == r.retryCount + 1
    IN  [Unclaimed(r) EXCEPT
            !.status = IF r.retryCount + 1 >= r.maxRetries THEN "failed" ELSE "pending",
            !.retryCount = rc,
            !.deadLetter = rc + 1 >= r.maxRetries \/ @]

Requeued(r) ==
    [Unclaimed(r) EXCEPT !.deadLetter = FALSE, !.status = "pending", !.retryCount = 0]

\* Rows changed by a statement that sets each row of R to Op of it.
Update(R, Op(_)) == row' = [e \in Created |-> IF e \in R THEN Op(row[e]) ELSE row[e]]
-----------------------------------------------------------------------------
Init ==
    /\ n = Len(Preloaded)
    /\ row = [e \in Created |-> NewRow(Preloaded[e])]
    /\ present = Created
    /\ result = [id \in TaskIDs |-> "none"]
    /\ alerted = {}
    /\ silent = {}
    /\ proc = [p \in Procs |-> Idle]
    /\ hist = [e \in Created |-> NoHist]

\* The INSERT ... ON DUPLICATE KEY UPDATE of CreateTask.
InsertTask(s) ==
    /\ IF WithID(s.taskID) # {}
       THEN /\ Update(WithID(s.taskID), LAMBDA r : Upserted(r, s))
            /\ UNCHANGED <<n, present, hist>>
       ELSE /\ n < MaxTasks
            /\ n' = n + 1
            /\ row' = [e \in 1..(n + 1) |-> IF e \in Created THEN row[e] ELSE NewRow(s)]
            /\ hist' = [e \in 1..(n + 1) |-> IF e \in Created THEN hist[e] ELSE NoHist]
            /\ present' = present \cup {n + 1}
    /\ UNCHANGED <<result, alerted, silent>>

\* An ID the store generates is fresh; a caller's may not be.
UsableID(s) ==
    \/ s.taskID \in CallerIDs
    \/ /\ \A e \in Created : row[e].taskID # s.taskID
       /\ \A p \in Procs : \A x \in proc[p].asked : x.taskID # s.taskID

\* CreateTask without an idempotency key.
CreateTask(s) ==
    /\ s.key = NoKey /\ UsableID(s)
    /\ InsertTask(s)
    /\ UNCHANGED proc

\* CreateTaskWithIdempotency: look for a row with the key ...
LookupKey(p, s) ==
    /\ proc[p] = Idle
    /\ s.key # NoKey /\ UsableID(s) /\ n < MaxTasks
    /\ \A e \in present : row[e].key # s.key
    /\ proc' = [proc EXCEPT ![p].pc = "insert", ![p].asked = {s}]
    /\ UNCHANGED <<row, n, present, result, alerted, silent, hist>>

\* ... and insert if there was none.
CreateTaskWithIdempotency(p) ==
    /\ proc[p].pc = "insert"
    /\ \E s \in proc[p].asked : InsertTask(s)
    /\ proc' = [proc EXCEPT ![p] = Idle]

\* ClaimTask, one transaction that locks the row it takes: the pending row of
\* highest priority, the oldest of those.
ClaimTask(a) ==
    LET candidates == {e \in present : row[e].agentID = a /\ row[e].status = "pending"}
    IN  \E e \in candidates :
            /\ \A f \in candidates :
                  \/ row[e].priority > row[f].priority
                  \/ row[e].priority = row[f].priority /\ e <= f
            /\ row[e].claimEpoch < MaxClaims
            /\ Update({e}, LAMBDA r : Claimed(r, a))
            /\ UNCHANGED <<n, present, result, alerted, silent, proc, hist>>

\* Time passes: a claim, or the last heartbeat of an agent, gets as old as the
\* lease, if there is one.
LeaseExpires(e) ==
    /\ Lease > 0
    /\ row[e].status = "running" /\ ~row[e].leaseOld
    /\ Update({e}, LAMBDA r : [r EXCEPT !.leaseOld = TRUE])
    /\ UNCHANGED <<n, present, result, alerted, silent, proc, hist>>

HeartbeatLapses(a) ==
    /\ Lease > 0
    /\ a \notin silent
    /\ silent' = silent \cup {a}
    /\ UNCHANGED <<row, n, present, result, alerted, proc, hist>>

Heartbeat(a) ==
    /\ a \in silent
    /\ silent' = silent \ {a}
    /\ UNCHANGED <<row, n, present, result, alerted, proc, hist>>

\* ReclaimStaleTasks: one UPDATE; no alert is written, no dependant looked at.
ReclaimStaleTasks ==
    LET stale == {e \in present : /\ row[e].status = "running" /\ row[e].leaseOld
                                  /\ row[e].claimedBy \in silent \cup {NoAgent}}
    IN  /\ Lease > 0 /\ stale # {}
        /\ Update(stale, Reclaimed)
        /\ UNCHANGED <<n, present, result, alerted, silent, proc, hist>>
-----------------------------------------------------------------------------
(***************************************************************************)
(* SubmitResult, statement by statement.                                   *)
(***************************************************************************)
\* The report of claim `epoch` of row c arrives, perhaps late, perhaps again.
\* First its result replaces whatever task_results holds for the ID.
SubmitResult(p, c, epoch, ok) ==
    /\ proc[p] = Idle
    /\ result' = [result EXCEPT ![row[c].taskID] = IF ok THEN "ok" ELSE "failed"]
    /\ proc' = [proc EXCEPT ![p] = [Idle EXCEPT !.pc = "read", !.id = row[c].taskID,
                    !.agent = row[c].agentID, !.from = <<c, epoch>>, !.ok = ok]]
    /\ UNCHANGED <<row, n, present, alerted, silent, hist>>

\* SELECT status, retry_count, max_retries: a row that is not running ends the
\* request, a row that does not exist skips the UPDATE.
ReadTask(p) ==
    LET q == proc[p]
    IN  /\ q.pc = "read"
        /\ \/ /\ WithID(q.id) = {}
              /\ proc' = [proc EXCEPT ![p].pc = "list"]
           \/ \E e \in WithID(q.id) :
                 proc' = [proc EXCEPT ![p] =
                    IF row[e].status # "running" THEN Idle
                    ELSE [q EXCEPT !.pc = "write", !.verdict =
                             IF q.ok THEN "done"
                             ELSE IF row[e].retryCount < row[e].maxRetries THEN "retry"
                             ELSE "dead"]]
        /\ UNCHANGED <<row, n, present, result, alerted, silent, hist>>

\* Mutant: no comparison of the epoch.
GuardAnyEpoch(q) == {e \in WithID(q.id) : row[e].status = "running"}

\* The rows the guarded UPDATE of request q matches.
Guard(q) ==
    {e \in WithID(q.id) : row[e].status = "running" /\ row[e].claimEpoch = q.from[2]}

\* Mutant: an accepted report does not look at the dependants.
WriteTaskNoRelease(p) ==
    LET q == proc[p]
    IN  /\ q.pc = "write"
        /\ Update(Guard(q), LAMBDA r : Reported(r, q.verdict))
        /\ hist' = [e \in Created |->
                      IF e \in Guard(q) THEN [hist[e] EXCEPT !.from = q.from] ELSE hist[e]]
        /\ proc' = [proc EXCEPT ![p] = Idle]
        /\ UNCHANGED <<n, present, result, alerted, silent>>

\* UPDATE ... WHERE task_id=? AND status='running' AND claim_epoch=?: no row
\* affected ends the request.  The alert of a dead letter is the next statement.
WriteTask(p) ==
    LET q == proc[p]
    IN  /\ q.pc = "write"
        /\ Update(Guard(q), LAMBDA r : Reported(r, q.verdict))
        /\ hist' = [e \in Created |->
                      IF e \in Guard(q) THEN [hist[e] EXCEPT !.from = q.from] ELSE hist[e]]
        /\ proc' = [proc EXCEPT ![p] =
                      IF Guard(q) = {} THEN Idle
                      ELSE [q EXCEPT !.pc = "list",
                                     !.owed = IF q.verdict = "dead" THEN {q.id} ELSE {}]]
        /\ UNCHANGED <<n, present, result, alerted, silent>>

\* addAlert.
AddAlert(p) ==
    /\ proc[p].owed # {}
    /\ alerted' = alerted \cup proc[p].owed
    /\ proc' = [proc EXCEPT ![p] =
                  IF proc[p].pc = "apply" /\ proc[p].rel \cup proc[p].fld = {}
                  THEN Idle ELSE [@ EXCEPT !.owed = {}]]
    /\ UNCHANGED <<row, n, present, result, silent, hist>>

\* releaseDeps, first SELECT: the waiting tasks of the agent.
ListBlocked(p) ==
    LET q  == proc[p]
        ws == {e \in present : row[e].agentID = q.agent /\ row[e].status = "blocked"}
    IN  /\ q.pc = "list" /\ q.owed = {}
        /\ proc' = [proc EXCEPT ![p] =
                      IF ws = {} THEN Idle
                      ELSE [q EXCEPT !.pc = "states", 
                                     !.blocked = {<<row[e].taskID, row[e].dependsOn>> : e \in ws}]]
        /\ UNCHANGED <<row, n, present, result, alerted, silent, hist>>

\* The byID map over the agent's rows.
LookupOf(a) ==
    [id \in TaskIDs |->
        IF \E e \in WithID(id) : row[e].agentID = a
        THEN row[CHOOSE e \in WithID(id) : TRUE].status ELSE Missing]

\* releaseDeps, second SELECT: the statuses of all the agent's tasks.  What will
\* become of each listed task is decided from this one snapshot.
ReadStates(p) ==
    LET q    == proc[p]
        byID == LookupOf(q.agent)
        over == {b \in q.blocked : AllDepsTerminal(b[2], byID)}
        fld  == {b[1] : b \in {x \in over : AnyDepFailed(x[2], byID)}}
        rel  == {b[1] : b \in over} \ fld
    IN  /\ q.pc = "states"
        /\ proc' = [proc EXCEPT ![p] =
                      IF rel \cup fld = {} THEN Idle
                      ELSE [q EXCEPT !.pc = "apply", !.blocked = {}, !.rel = rel, !.fld = fld]]
        /\ UNCHANGED <<row, n, present, result, alerted, silent, hist>>

\* One UPDATE ... WHERE task_id=? of releaseDeps; the status the row has by now
\* is not asked for.
ApplyRelease(p) ==
    LET q == proc[p]
    IN  /\ q.pc = "apply" /\ q.owed = {}
        /\ \E id \in q.rel \cup q.fld :
              LET left == [q EXCEPT !.rel = @ \ {id}, !.fld = @ \ {id},
                                    !.owed = IF id \in q.fld THEN {id} ELSE {}]
              IN  /\ IF id \in q.fld THEN Update(WithID(id), FailedUpstream)
                                     ELSE Update(WithID(id), Released)
                  /\ proc' = [proc EXCEPT ![p] =
                                IF left.rel \cup left.fld \cup left.owed = {}
                                THEN Idle ELSE left]
        /\ UNCHANGED <<n, present, result, alerted, silent, hist>>
-----------------------------------------------------------------------------
\* CancelTask: the guarded UPDATE; a request that changed a row goes on.
CancelTask(p, id) ==
    LET open == {e \in WithID(id) : row[e].status \in {"pending", "running"}}
    IN  /\ proc[p] = Idle /\ open # {}
        /\ Update(open, LAMBDA r : [r EXCEPT !.status = "cancelled"])
        /\ proc' = [proc EXCEPT ![p] = [Idle EXCEPT !.pc = "owner", !.id = id]]
        /\ UNCHANGED <<n, present, result, alerted, silent, hist>>

\* SELECT agent_id of the cancelled task, for releaseDeps.
ReadOwner(p) ==
    LET q == proc[p]
    IN  /\ q.pc = "owner"
        /\ \/ WithID(q.id) = {} /\ proc' = [proc EXCEPT ![p] = Idle]
           \/ \E e \in WithID(q.id) :
                 proc' = [proc EXCEPT ![p] = [q EXCEPT !.pc = "list",
                                                       !.agent = row[e].agentID]]
        /\ UNCHANGED <<row, n, present, result, alerted, silent, hist>>

\* The one-statement operations.
ApproveTask(id) ==
    \E e \in WithID(id) :
        /\ row[e].status = "pending_approval"
        /\ Update({e}, LAMBDA r : [r EXCEPT !.status = "pending", !.approved = TRUE])
        /\ UNCHANGED <<n, present, result, alerted, silent, proc, hist>>

RejectTask(id) ==
    \E e \in WithID(id) :
        /\ row[e].status = "pending_approval"
        /\ Update({e}, LAMBDA r : [r EXCEPT !.status = "rejected"])
        /\ UNCHANGED <<n, present, result, alerted, silent, proc, hist>>

RetryDeadLetterTask(id) ==
    \E e \in WithID(id) :
        /\ row[e].deadLetter /\ row[e].status = "failed"
        /\ Update({e}, Requeued)
        /\ hist' = [hist EXCEPT ![e] = [@ EXCEPT !.base = row[e].claimEpoch,
                                                !.requeued = TRUE]]
        /\ UNCHANGED <<n, present, result, alerted, silent, proc>>

DeleteTask(id) ==
    /\ WithID(id) # {}
    /\ present' = present \ WithID(id)
    /\ UNCHANGED <<row, n, result, alerted, silent, proc, hist>>

\* A request is cut off between two statements.
Stop(p) ==
    /\ MayStop /\ proc[p] # Idle
    /\ proc' = [proc EXCEPT ![p] = Idle]
    /\ UNCHANGED <<row, n, present, result, alerted, silent, hist>>

\* The next statement of a request.
Step(p) ==
    \/ CreateTaskWithIdempotency(p) \/ ReadTask(p) \/ WriteTask(p) \/ AddAlert(p)
    \/ ListBlocked(p) \/ ReadStates(p) \/ ApplyRelease(p) \/ ReadOwner(p)

Next ==
    \/ \E s \in Specs : CreateTask(s) \/ \E p \in Procs : LookupKey(p, s)
    \/ \E a \in Agents : ClaimTask(a) \/ Heartbeat(a) \/ HeartbeatLapses(a)
    \/ \E e \in present : LeaseExpires(e)
    \/ ReclaimStaleTasks
    \/ \E p \in Procs, c \in Created : \E epoch \in 1..row[c].claimEpoch, ok \in BOOLEAN :
          SubmitResult(p, c, epoch, ok)
    \/ \E p \in Procs : Step(p) \/ Stop(p)
    \/ \E p \in Procs, id \in TaskIDs : CancelTask(p, id)
    \/ \E id \in TaskIDs : ApproveTask(id) \/ RejectTask(id) \/ RetryDeadLetterTask(id)
    \/ \E id \in Purged : DeleteTask(id)

Spec == Init /\ [][Next]_vars

\* A request once begun runs on: its goroutine is not starved.
FairSpec == Spec /\ \A p \in Procs : WF_vars(Step(p))
-----------------------------------------------------------------------------
(***************************************************************************)
(* Properties.                                                             *)
(***************************************************************************)
\* Every variable holds a value of its kind, and task_id is a key of the table.
TypeOK ==
    /\ n \in 0..MaxTasks
    /\ row \in [Created -> RowRecord]
    /\ hist \in [Created -> HistRecord]
    /\ present \subseteq Created
    /\ result \in [TaskIDs -> {"none", "ok", "failed"}]
    /\ alerted \subseteq TaskIDs
    /\ silent \subseteq Agents
    /\ proc \in [Procs -> ProcRecord]
    /\ \A e, f \in present : row[e].taskID = row[f].taskID => e = f

\* A task is done only through the report of its current claim, however the
\* statements of late, repeated and current reports interleave.  Only where a
\* caller uses an ID again may the report be one of the row that had it before.
DoneByHolder ==
    \A e \in Created : row[e].status = "done" =>
        /\ hist[e].from[2] = row[e].claimEpoch
        /\ \E c \in Created :
              /\ hist[e].from[1] = c /\ row[c].taskID = row[e].taskID
              /\ c # e => row[e].taskID \in CallerIDs

\* A done, cancelled or rejected task keeps its status (isTerminalStatus in dag.go,
\* "终态（不再变化）"); a failed one leaves only for the queue, with a fresh budget
\* (RetryDeadLetterTask).
TerminalStays ==
    [][\A e \in Created :
          /\ row[e].status \in {"done", "cancelled", "rejected"} =>
                row'[e].status = row[e].status
          /\ row[e].status = "failed" =>
                \/ row'[e].status = "failed"
                \/ row'[e].status = "pending" /\ row'[e].retryCount = 0]_vars

\* A task with dependencies that was not requeued by hand has started only if
\* each of its dependencies had completed.
DepsDoneBeforeRun ==
    \A e \in Created :
        row[e].claimEpoch > 0 /\ ~hist[e].requeued =>
            \A d \in row[e].dependsOn :
                \E f \in Created : row[f].taskID = d /\ row[f].status = "done"

\* Row e waits although each of its dependencies has reached its end.
Resolvable(e) ==
    /\ e \in present /\ row[e].status = "blocked"
    /\ AllDepsTerminal(row[e].dependsOn, LookupOf(row[e].agentID))

\* When no request is in flight, no task waits for dependencies that have all
\* ended (SubmitResult's comment: the dependant "必须被显式置 failed + 死信，否则
\* 它永远停在 blocked").  Of two reports that end the last two dependencies at
\* the same time, one must see both.
NoneWaitsInVain ==
    (\A p \in Procs : proc[p] = Idle) => \A e \in Created : ~Resolvable(e)

\* A task whose dependencies have all ended is decided.
WaitersDecided ==
    \A e \in Entries : (e \in Created /\ Resolvable(e)) ~> (e \notin Created \/ ~Resolvable(e))

\* The life of one row, as TaskLifecycle sees it.
LifeOf(r, h) ==
    [status |-> r.status, epoch |-> r.claimEpoch, retries |-> r.retryCount,
     budget |-> r.maxRetries, dead |-> r.deadLetter,
     needsApproval |-> r.approvalRequired, approved |-> r.approved, base |-> h.base]

Lifecycle == INSTANCE TaskLifecycle
             WITH count <- n, life <- [e \in Created |-> LifeOf(row[e], hist[e])]

\* The store keeps the promise of TaskLifecycle for tasks without dependencies
\* and with at most one retry: each statement is one legal move of each row or
\* none.  (Overlapping releases break it, see TerminalStays; so does a reclaim
\* of a task with two retries, which marks a waiting task as a dead letter, see
\* Reclaimed.)
LifecycleKept == Lifecycle!Spec
=============================================================================
