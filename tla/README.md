# OpsMesh: TLA+ models of the control plane

OpsMesh is a control plane for machines in one or several network segments. Operators,
workflows and cron templates create tasks; an agent on every machine pulls the tasks meant for
it, runs them and reports the results. The control plane may run as one process with everything
in memory, or as several replicas that share a MySQL database. This directory models the parts
that decide what becomes of a task (the two task stores, the leader lease under which replicas
run the periodic jobs, the way of a task to an agent and back, the agent's circuit breaker) and
two parts on which operators rely for control: the tamper-evident audit log and the approval
engine.

## 1. The system

### Components, state, operations

| Component | State | Operations that change it |
|---|---|---|
| In-memory store, `internal/store/memory/memory.go` | per agent a slice of tasks, the index `tasksByID`, idempotency keys, results, alerts, `LastSeen` of agents; one mutex | `CreateTask`, `ClaimTask`, `SubmitResult` (+ `releaseDeps`), `ReclaimStaleTasks`, `CancelTask`, `ApproveTask`, `RejectTask`, `RetryDeadLetterTask`, `DeleteTask`, `Heartbeat` |
| SQL store, `internal/store/sqlstore/sql_tasks.go` | tables `tasks`, `task_results`, `alerts`, `agents`; no lock across statements | the same operations, each a sequence of statements, most without a transaction; `CreateTaskWithIdempotency` |
| Leader lease, `sqlstore/sql.go`, `controlplane/server_tasks.go` | table `leader_lease`; `isLeader` and `leaseUntil` in each replica | `RenewLeadership`, `IsLeader`, `checkLeaderFence`, `FireDueSchedules`, `ReclaimStaleTasks`, archiving |
| Task DAG, `internal/dag/dag.go` | none | `AllDepsTerminal`, `AnyDepFailed`, `TopoOrder`, `ReadyIDs`, `Validate` |
| Workflow engine, `internal/orchestration/handler.go` | workflow records | `expandNodes` creates one task per node, with the ID `wf-<id>-<node>` |
| Canary auto-advance, `internal/deploy/auto_advance.go` | one monitor loop per deployment | `Monitor`, `Stop`, `checkAndAdvance`, `evaluateGate` |
| Delivery, `internal/agent`, `internal/controlplane/grpc`, `controlplane/server_tasks.go` | the agent's channel `taskCh`, its workers, the handles `running`; calls on their way | `drainTasks` (`PullTasks`), `worker`, `reportResult` (`ReportResult`), `cancelLoop` (`PollCancels`), `monitorTaskTimeouts`, `reclaimLoop`; panics, restarts |
| Circuit breaker, `internal/circuitbreaker` | state, failures in a row, probes given out and succeeded, `openedAt` | `beforeCall`, `afterCall` around every execution, `Reset` |
| Audit chain, `sqlstore/sql_audit_chain.go`, `sql_audits.go` | tables `audit_log`, `audit_log_archive`, `audit_chain_head`, `audit_archive_meta` | `Audit` (`insertChainedAudit` or an unchained row), `ArchiveAuditLog`, `VerifyAuditChain` |
| Approval engine, `internal/approval` | flows, requests with their steps and decisions, histories; one mutex | `CreateFlow`, `UpdateFlow`, `DeleteFlow`, `Submit`, `Approve`, `Reject`, `Cancel`, `CheckTimeout` |
| Others | | `PROJECT.json` lists every part with what is planned for it and why some parts are left out |

Agents call `ClaimTask` (through `PullTasks`), `SubmitResult` and `Heartbeat`; the HTTP handlers
call the operations of users; `reclaimLoop`, `scheduleLoop` and the archive loop of every
replica call the periodic operations, which only the lease holder may run. A worker executes
inside the circuit breaker of its device; when the breaker refuses, a failure is reported
without a run. Every handler writes audit events; the leader archives them and checks the chain.

### What is hard in it

- Two operations end a run badly (a failed report, a reclaim after a lost heartbeat) and both
  spend one retry budget.
- A report may arrive late, twice, or after its task was reclaimed and claimed again. `ClaimEpoch`
  tells the claims apart.
- A task with dependencies is decided by whoever ends its last dependency, by a pass over the
  agent's tasks. The SQL store does that pass in several statements, between which everything
  else may happen, and the request may be cut off.
- Replicas have clocks of their own; a statement of the lease protocol may be delayed for longer
  than the lease lasts.
- The reply of a claim, a result or a cancel signal may be lost while the agent is alive and
  heartbeats; the handle of an execution is found by task ID, not by claim.
- A call of the circuit breaker may begin in one state and end in another.
- The audit log is archived in four statements without a transaction and checked in four reads
  without one, while rows are appended; leadership may change in the middle.
- An approval is decided by several users over several steps while administrators change the
  flow.

`PROJECT.json` lists these and more as hazards, each at its line.

### What makes it correct

*Task stores*: a task runs at most `MaxRetries + 1` times per requeue; only the current holder
completes it; finished tasks stay finished; no run before approval, none before the dependencies
are done; every failed task is visible as a dead letter; no task waits for what has already
happened; the result shown is the result of the run that counted; an idempotency key names one
task. *Leader lease*: never two leaders; no cron minute fired twice. *Delivery*: what an agent
works on is the current claim or one taken away from it; only a run completes a task; a dropped
result belongs to a cancelled task; a cancel signal reaches the worker; a task with a timeout does
not stay running. *Breaker*: no slot of a half-open breaker is lost; it closes once the device is
well. *Audit chain*: no row lost, no fork, no alarm unless somebody tampered, and what was
tampered with found while it is within a check's sight. *Approvals*: approved means agreed to by
everybody the flow asks; one rejection rejects; steps and approvers in order; no request stuck;
closed requests stay closed.

## 2. Modules

| Module | What it is |
|---|---|
| `TaskDag` | statuses and the dependency predicates of `internal/dag` |
| `TaskLifecycle` | abstract: what any store promises about each task: a status machine with epoch, retry budget, approval and dead-letter mark |
| `TaskLifecycleProofs` | its inductive invariant, proved |
| `MemoryTaskStore` | the in-memory store, one action per operation |
| `MemoryTaskStoreProofs` | types; the store implements `TaskLifecycle`, and what follows from it; the holder rule, dead letters, dependencies, the release pass |
| `SQLTaskStore` | the SQL store, one action per statement |
| `SQLTaskStoreProofs` | types, the holder rule, and where the rest of the store's promise holds; no lost wake-up |
| `LeaderLease` | lease, fence and cron schedule, one action per statement or transaction |
| `LeaderLeaseProofs` | uniqueness of the leader and single firing |
| `TaskDelivery` | agent, gRPC handlers and timeout monitor, composed with `MemoryTaskStore` |
| `TaskDeliveryProofs` | what agents hold, run and drop; the store's theorems carried over to the composition |
| `CircuitBreaker` | the breaker under concurrent calls |
| `CircuitBreakerProofs` | its counters and slots, proved |
| `AuditChain` | append, archive and check of the audit log, one action per statement or transaction |
| `AuditChainProofs` | no row lost, one chain, no false alarm, nothing hidden |
| `ApprovalEngine` | flows, requests, decisions and timeouts |
| `ApprovalEngineProofs` | outcomes, order, timeline and progress of requests |
| `MCMemoryTaskStore`, `MCSQLTaskStore`, `MCLeaderLease`, `MCTaskDelivery`, `MCCircuitBreaker`, `MCAuditChain`, `MCApprovalEngine` | instances for TLC |

`MemoryTaskStore` and `SQLTaskStore` both extend `TaskDag` and both instantiate `TaskLifecycle`
with a refinement mapping (`LifeOf`): status, claim epoch, retry count and so on of every record
ever created, in creation order. `TaskDelivery` instantiates `MemoryTaskStore` over its own
variables and conjoins the store's actions with what they mean for the agent: a claim with the
reply that carries it, a report with its delivery.

### How state and actions correspond to the code

*MemoryTaskStore.* `m.mu` is held through every operation, so each is one step. `task` is the
heap of `*proto.Task`, numbered in creation order; `listed` the records in a slice of `m.tasks`;
`tasksByID` the index. Two records may carry one ID: IDs the store generates are fresh, IDs in
`CallerIDs` (the workflow engine's) may be used again. Times are compared with one cutoff only,
so a claim is either older than the lease (`leaseOld`) or not, and an agent's last heartbeat too
(`silent`); `LeaseExpires` and `HeartbeatLapses` are time passing. `SubmitResult(c, epoch, ok)`
is the report of the holder of claim `epoch` of record `c`, at any later time and any number of
times. `releaseDeps` is part of the action that calls it; its pass in slice order, in which later
records see the changes of earlier ones, is stated by `IsReleasePass`. `shown` is what
`TaskResult` answers. `hist` is history for the properties: the epoch at the last requeue by
hand, and the claim whose report was accepted last.

*SQLTaskStore.* A request is a process of `Procs`. `proc[p].pc` is its next statement and the
other fields are its Go variables. `SubmitResult` is `SubmitResult` (write `task_results`),
`ReadTask`, `WriteTask` (the guarded UPDATE), `AddAlert`, then `releaseDeps`: `ListBlocked`,
`ReadStates`, `ApplyRelease` and `AddAlert` per task. `CancelTask` is `CancelTask`, `ReadOwner`
and the same release. `CreateTaskWithIdempotency` is `LookupKey` and
`CreateTaskWithIdempotency`. `ClaimTask` is one transaction. `Stop` is a crash of the replica or
the deadline of 10 s. `Reclaimed` models the left-to-right evaluation of a SET list in MySQL.
`releaseDeps` fails and releases tasks in the order the database lists them; the model allows any
order.

*LeaderLease.* `RenewLeadership` reads the clock; `UpsertLease`, `SelectLease` and `SetLeader`
are its statements, each of which may be delayed at will or fail. `scheduleLoop` reads `IsLeader`,
`checkLeaderFence` asks the database by `NOW()`, `FireDueSchedules` is the transaction that locks
the template. Clocks differ by constant offsets (`Skew`, `DBSkew`). A replica that crashes takes
no more steps.

*TaskDelivery.* A claim `<<e, k>>` is claim `k` of record `e`. `PullTasks` claims and answers, or
the call has failed or timed out and only the store knows, which may happen while the agent has a
later claim in hand. `drainTasks` waits for room in `taskCh` with a claim in hand (`pulled`).
`StartWork` and `EndWork` are the two ends of an execution, with `addRunning` and `delRunning`;
`RefuseWork` is the answer of an open breaker; `WorkerPanics` is what `safeGo` catches; `Restart`
loses everything the agent had in memory. `reports` holds the reports on their way: `ReportResult`
delivers one and may leave a copy (the client tries every address it knows), `LoseReport` drops
one. `cancelLoop` is one step from the poll to the marking of handles: a cancelled task stays
cancelled in between. `overdue` is "older than its Timeout"; `ScanTimeouts` takes the snapshot of
`AllTasks` and `CancelOverdue` cancels its tasks one by one. `history` is for the properties: the
claims reclaimed, run well, and dropped as cancelled.

*CircuitBreaker.* `beforeCall` and `afterCall` are the two critical sections of `Execute`; between
them the call is in `inCall`. `cooled` says that `RecoveryTimeout` has passed since `openedAt`.
`probes` and `leaked` are for the properties: the running calls admitted in this half-open
phase, and those of them lost to a panic (`Panic`: `Execute` has no deferred `afterCall`).
`healthy` is the environment: once set, tasks succeed.

*AuditChain.* A hash is the sequence of the contents it covers, so two hashes are equal exactly if
they cover the same rows. An append is one transaction under the lock of the head row.
`auditArchiveBatch`, `InsertArchive`, `DeleteOnline`, `AdvanceMeta` and `RollBackHead` are the
statements of one archive round; `Interrupt` ends it anywhere; any number of replicas may be in
it. `AdvanceMeta` takes the reading of the old boundary, which happens only for a batch without a
chained row, together with the UPDATE; if that read fails the code goes on with an empty boundary.
`ReadHead`, `ReadRows`, `ReadPredecessor` and `ReadArchived` are the reads of a check, whose
verdict is `verifier.ok`. `Tamper` alters or deletes an online row by hand, between checks. `Skew`
lets `created_at` lie behind the append. `overlapped` remembers that two archives ran at once,
`verifier.calm` that no row was appended between the reads of head and rows: the properties name
these where the code needs them.

*ApprovalEngine.* Every public operation is one critical section. `Approve` and `Reject` are
`applyDecision`. Step IDs are positions, orders are kept as given, so a flow may have gaps.
`expired` and `overdue` are the two comparisons with the clock; `applyDecision` and `CheckTimeout`
read it before they take the lock, so a decision begun in time may be carried out after
`ExpireAt`. `steady` remembers the requests whose flow was left alone since `Submit`: the code
looks at the flow as it is now. A timeline is a set, since it is sorted by times taken before the
lock.

*Left out*: tenants of tasks (a check that never changes a task), signatures of agents,
notifications, published events, the device fields `TaskState` and `LastResult` (written, never read by a task operation), listing and pagination,
the cap of 1000 alerts, DATETIME rounding, transient SQL errors other than a request that ends
early and the read of the archive's boundary.

## 3. Runs

| Run | Instance | Shows |
|---|---|---|
| `memory_plain` | two tasks under one key, one with approval and higher priority, one retry each, up to 3 claims, reclaims on | every order of claims, late and repeated reports, reclaims, cancellations, requeues and purges keeps `TaskLifecycle`, the run bound, the holder rule, the approval gate, dead letters with alerts, and finished tasks |
| `memory_chain` | a workflow of three nodes in dependency order; the first may be created again; reclaims off | no node starts early, and the step that ends the last dependency decides the waiting node, through chains too |
| `sql_reports` | one task (with retry, key and approval, or without), two requests at a time, each may be cut off between statements, reclaims on | the guard of `SubmitResult` keeps late reports out although the verdict comes from a row read earlier; `TaskLifecycle` is kept by each statement, and with it (`LifecycleSafe`) the run bound, the approval gate and the end of finished tasks |
| `sql_fan_in` | two tasks and one that waits for both, two requests | no lost wake-up when both dependencies end at once, no early start |
| `sql_decided` | a task and one that waits for it, two requests, fair | a task whose dependencies have ended is eventually decided |
| `leader_same` | two replicas, clocks agree, term 1, time to 4, delays and failures | never two leaders |
| `leader_skewed` | clocks a minute apart, two ticks per minute, time to 3 | both replicas may take themselves for the leader, and no minute is fired twice |
| `task_delivery` | one agent, two workers, a channel of one, one task with a timeout that may be reclaimed and retried, three claims | under lost, late and repeated messages, panics and restarts: no claim is worked on beside another that is current, only a run completes a task, no result is dropped unless the task is cancelled, cancel signals reach the worker, no timed task runs for ever (with the in-memory store only: section 5) |
| `circuit_breaker` | four workers, two failures open, two probes | slots are accounted for, the breaker never refuses with nobody to wait for, and it closes for good when the device is well |
| `audit_chain` | two replicas, two tenants, three rows, batches and windows of two, one act of tampering | nothing is lost, one chain, no false alarm; altered rows of the window are found, and removed ones that a row of it follows or, while it is not empty, that the head names (an empty window: section 5) |
| `approval_engine` | one request, three users, six flow definitions (all modes, gap, repeated approver, unsorted, disabled) | outcomes follow the decisions; nothing gets stuck; the timeline is complete |
| `sql_release_race` | a task that waits for two, two requests | a violation: a cancelled task becomes failed, section 5 |

*Bounds.* `MaxTasks` and `MaxClaims` bound what is created and claimed. A task with one retry may
run twice, so three claims cover a spent budget, a requeue by hand and a claim after it, with
late reports of two earlier claims on the way. Two requests are enough for
the races between statements because each race is between one request's read and another's
write. `MaxTime` lets the lease pass from one replica to the other and back. `Purged` bounds the
IDs that are deleted. In `sql_fan_in` and `sql_decided` one claim per row keeps the instance
small: they ask about the release, not about retries. In `task_delivery` a budget of two retries
lets one reclaim put the task back while its first execution still goes on, so that two workers
hold two claims of one task; a channel of one fills up while a third claim is in hand. Four
workers let two calls from before the breaker opened end among two probes. Three audit rows with
batches of two make an archive of two rounds and leave a row to append or to check during it; the
run was also done with `Skew = 1` and one tenant (same results). One request is enough for
approvals, which never read another request; six definitions make every branch of `Validate`
and `evaluateStep` happen, changes of flow in the middle of a request included.

*Symmetry.* The requests of `Procs`, and the replicas and tenants of `AuditChain`, are
interchangeable; symmetry is used for safety only.

*Deadlock.* Checked where an operation is always possible. Where it is off, the instance runs out
of tasks to claim or of time, which is the bound and not the system.

*Fairness.* `sql_decided`: `WF_vars(Step(p))`, a request once begun executes its next statement. A
Go handler runs on unless its process dies or its deadline passes, which `MayStop = FALSE`
excludes in that run. `task_delivery`: time passes and the monitor of the leader runs on (a ticker
loop that ends only with the process); nothing is assumed of agents, network or callers. `circuit_breaker`: time passes, an execution ends (each has a
timeout), and there is a next task for a worker to try. No fairness is assumed of users.

## 4. Proofs

All proofs are checked by TLAPS for every value of the constants.

- `TaskLifecycleProofs!LifecycleSafe`: `AllOK` is an invariant of the abstract lifecycle. The
  run bound is not inductive by itself. `Accounted` adds how the starts since the last requeue
  relate to the retries spent, per status: equal while the task waits, one more while it runs or
  is done. `Gated` adds that an unapproved task is at the gate or rejected and has not run.
  `FreshOK` and `MoveOK` are the base and the step, per task.
- `MemoryTaskStoreProofs!TypeCorrect`: type correctness. `RecordOps` says what each operation
  returns for one record, `ReleaseShape` what `releaseDeps` does to the table.
- `MemoryTaskStoreProofs!Refinement`: the store implements `TaskLifecycle`. The invariant
  `MInv` (types, and `LifeOK` of every record) is needed because a reclaim with a retry left is a
  legal `Retry` only if the retries so far are within the budget. `OpMoves` shows each record
  operation to be a move, `NextMoves` each action to change every record by a move or not at all,
  records with the same ID included.
- `BoundedRuns`, `ApprovalFirst`, `FinishedStays`: `RunsBounded`, `ApprovedBeforeRun` and
  `TerminalStays` of the in-memory store, from the same invariant and the refinement.
- `HolderFinishes`, `FailuresVisible`, `DependenciesFirst` of the same module: `DoneByHolder`,
  `DeadLetterVisible` and `DepsDoneBeforeRun`. `HInv` adds to `MInv` that records share an ID only
  if a caller chose it, and `DepsInOrder`: whatever has left `blocked`, other than by an upstream
  failure or a requeue, has done dependencies. That is needed because a task is claimed long after
  the pass that released it. A done record stays done (`StepKeeps`), so what the pass saw is still
  so. The theorems hold for any graph, cyclic ones included, and for IDs that are used again.
- `MemoryTaskStoreProofs!NoneLeftBehind`: `StepResolves`, for chains of any length and any number of
  agents. Its hypotheses are the ways in which the code does leave a task behind (section 5):
  `Lease = 0`, since a reclaim gives a task up without a pass; `Outright`, no dependency needs an
  approval, since `RejectTask` makes no pass; `InOrder`, tasks are created after their dependencies;
  `WaitersOnce`, a task that waits is not created again under its ID. `memory_chain` is an instance
  of them, in which a task that others wait for is created again. `PassDecides` is the argument
  about the pass: if a record it left blocked could be decided when it was over, then some
  dependency of it ended in the pass and after the pass had come by, so it is a younger waiting
  record under the ID of a dependency. `NoLaterWaiter` excludes that: the dependencies of a record
  are older than the record (`DepsBefore`, part of the inductive invariant `WInv`), so a younger
  record under such an ID is a second one. The other operations end no dependency (`NewestWas`).
- `SQLTaskStoreProofs!TypeCorrect`, `HolderFinishes`: for any number of requests, each cut off
  anywhere, with no further hypothesis. A request judges a report by a row it read one statement
  earlier. `HolderInv` says what survives in between: a report in progress names a claim the row
  has had, so its epoch is at most the row's (`ClaimsHeld`); if the guarded UPDATE matches, the
  epochs are equal. `IDsOK` (an ID belongs to one row, or to the one request about to insert it)
  keeps two rows from sharing a claim.
- `SQLTaskStoreProofs!FinishedStays`, `DependenciesFirst`, `Refinement`: these have hypotheses,
  since without them the code breaks the property (section 5). `GeneratedIDs`: a task created again
  under a caller's ID takes over the row. `OneAtATime \/ Independent`: of two overlapping releases
  the second undoes the first (`sql_release_race`). `DependenciesFirst` needs only `Flat`, tasks
  that others wait for do not wait themselves, which covers any number of requests over fans like
  that of `sql_fan_in`: a release can then send back only tasks nobody depends on. `ReclaimSafe`:
  the reclaim of a task with two or more retries marks it as a dead letter too early
  (`sql_tasks.go:808`). The refinement also starts from an empty table, as the abstract lifecycle
  does. `ReleaseInv` describes a release under way: the tasks it has listed are waiting tasks (still
  blocked, if nobody else is at work), with the dependencies it has read; `Ready` and
  `StartedReady` are the counterpart of `DepsInOrder`; `RetryJudged` says that a retry chosen from an
  earlier read is in budget if the UPDATE matches. `sql_reports` and `sql_fan_in` are instances of
  these hypotheses.
- `SQLTaskStoreProofs!NoneForgotten`: `NoneWaitsInVain`, for any number of overlapping requests. The
  property speaks of states with no request in flight, so it is not inductive; `InHand` is: every
  row that waits for dependencies that have all ended is in the hands of some request, which is
  about to find its agent, to list the agent's waiting rows or to read the statuses, with the row
  on its list, or has the row among those it is about to write (`HandledBy`). Of the requests that
  end the last dependencies of a row, the one that reads last sees them all; the others may decide
  nothing. The hypotheses are again ways in which the code fails: `Flat` (the end of a chain of three
  is not looked at), `RunsOn` (a request cut off, or a reclaim, ends a task without a release),
  `WaitersFirst` (nothing releases a task created after its dependencies have ended), `Outright` and
  `GeneratedIDs`. `sql_fan_in` is an instance of them.
- `TaskDeliveryProofs`: `TypeCorrect`, `NoDoubleRun`, `DoneMeansRun`, `DropsOnlyCancelled`,
  `CancelArrives`, for any number of agents, workers and tasks and any loss, repetition, panic or
  restart. `DInv` relates the agents' memory, the messages and the store. `HeldIsCurrent` is not
  inductive: a claim of a cancelled task must still be the last one, or a later report of it could
  be taken (`Current`), and it is in one place at its agent and in no report before it has left it
  (`Apart`), so that the end of one execution cannot end another. `ClaimsKnown` says that nobody
  holds or reports what the store did not give out, `SentRan` that a good report on its way is that
  of a good run, and `Marked` that a handle is marked only for a task cancelled at the control
  plane. The four properties are about IDs the store generates: of two records to which a caller
  gave one ID, the report of one may end the other (section 5).
- `TaskDeliveryProofs!StoreKept`, `StorePromises`: with agents and network in the picture, the store
  takes steps of `MemoryTaskStore` only (`SP!Spec`): an agent reports nothing it did not claim. So
  what is proved of the store holds of the composition; `StorePromises` says it of `RunsBounded`,
  `DoneByHolder` and `DeadLetterVisible`.
- `LeaderLeaseProofs!LeaderUnique`: never two leaders, with any number of replicas, any term and
  any delays, if their clocks agree. `LInv` says of each replica that what it believes, has read
  or is about to write is covered by the row: if its remembered term is still open by the clock,
  the row is its own and lasts at least as long. A delayed upsert carries an old time, and can
  take only a lease that had run out by that old time.
- `LeaderLeaseProofs!SingleFiring`: no minute is fired twice, for any clock offsets, provided the
  UPDATE of `last_fired_at` does not fail by itself. `FInv`: each fired minute begins no later
  than `last_fired_at`, so a firing, which needs `last_fired_at` before the start of its minute,
  is for a minute not yet fired.
- `LeaderLeaseProofs!TypeCorrect`.
- `CircuitBreakerProofs!Accounted`, `TypeCorrect`, `NotStuck`: for any finite set of workers, any
  threshold and any number of probes. The inductive invariant is `BInv`, types and
  `SlotsAccounted` together: the books balance only because the counters stay within their
  limits, and `NeverStuck` follows from them by counting: with all slots given out, fewer
  successes than slots and no panic, at least one probe is still running.
- `AuditChainProofs!TypeCorrect`, `NoRowLost`: for any number of replicas, any batch size, retention
  and skew, and an interruption anywhere. `LogInv` adds to `NothingLost` the shape of the tables and
  `Copied`: whatever a replica is about to delete is in the archive already or was removed by hand.
  It needs no lock and no leader, which is why overlapping archives lose nothing.
- `AuditChainProofs!NoFork`: `OneChain`, also after tampering. It is far from inductive, because
  `RollBackHead` moves the head to what an archiver noted when it selected its batch. `InChain` says
  that the rows online are an end of the log (`Suffix`), that a batch has every earlier row that is
  online and its archiver knows the hash of its last chained row (`Batches`), and that a head that
  names no chained row of the log is out of every archiver's reach, with no chained row online
  (`HeadAt`). It follows that, in a log stamped in order, the branch of `RollBackHead` that looks
  for the last row online finds none, and that the boundary of `audit_archive_meta` never reaches
  the head.
- `AuditChainProofs!NoFalseAlarm`, `NothingHidden`: `AlarmMeansTampering` and `TamperingFound`.
  The second says of a removed row that the head names only what the code does: it is found while
  some chained row is left online. An empty window is answered with OK (section 5).
  `CheckInv` carries through the four reads of a check what each of them saw: the head read is still
  at the end of the chain if nothing was appended (`HeadReadAt`), the window ends there and has no
  gaps (`WindowRead`), and once the predecessor was not found online it can only be archived or
  removed (`Window`). An archive may move rows between any two reads.
- `ApprovalEngineProofs`: `Agreement`, `RejectionFinal`, `Sequence`, `TimelineComplete`,
  `SomebodyCanDecide`, `TransitionsKept`, `TypeCorrect`, for any users, any flows that `Validate`
  accepts and any number of requests. `AInv` relates a request to its flow (`StepOK`): steps before
  the current one are agreed to by all they ask, later ones untouched, and the current one has fewer
  decisions than approvers while the request is pending. Together with "nobody decides twice"
  (`Sound`) and no repeated approver this leaves somebody to decide, by counting. `Counted` holds for
  requests whose flow was changed too; it needs `Sound`, since an entry of the timeline is new only
  if the decision is.

Facts that need induction over the naturals (the last chained row of a set of rows, orders that
increase along a flow) are proved from the least element of a set of naturals, which the library
states without an operator as parameter.

Assumptions on constants: bounds and times are natural numbers, the term and the minute are
positive, the names for "nobody" are not names of agents or replicas, and no request asks for
approval and dependencies at once. Preloaded rows have distinct IDs (`task_id` is the primary key),
`TaskDelivery` asks of its constants what the store does (`StoreAssumption`) and that the capacity
of a channel is a natural number and no worker has the name of none (`AgentAssumption`), and the
definitions of flows are any values the Go types can hold, valid or not. The assumption on
approvals is a fact about the callers: `handleCreateTask` and `handleBatchCreateTasks` take no
dependencies, the workflow engine sets no approval. With both, `releaseDeps` would put the task in
the queue without approval.

Only model-checked: liveness (`WaitersDecided`, `RunEnds`, `Recovers`), which is out of the prover's
reach. Every invariant and action property of a passing run is also a theorem, some under
hypotheses named above that the instance of the run satisfies.

## 5. Disagreements between code and comments

Shown by a run (a finding in `PROJECT.json`):

- `sql_release_race`: `releaseDeps` decides from rows it has read and writes by `task_id` alone,
  without asking for `status='blocked'` again. TLC's trace: t3 waits for t1 and t2, which two
  requests cancel; both list t3 as blocked and decide to fail it. The first does so; t3 is requeued
  by hand (`RetryDeadLetterTask`) and then cancelled (`CancelTask`); the second request's UPDATE
  (`sql_tasks.go:439`) turns the cancelled task into a failed one, against "终态（不再变化）",
  terminal and no longer changing (`internal/dag/dag.go:44`). The UPDATE that releases to `pending`
  (`sql_tasks.go:458`) has the same gap; the violations through it take more steps.

### Known disagreements without a run

The models reproduce these too (change the named constant of an instance and state the property):

- Reclaiming, in either store, gives a task up without `releaseDeps`: its dependants stay blocked
  (`StepResolves` in `memory_chain` with `Lease = 1`). The SQL store writes no alert for it.
- The in-memory release pass goes through tasks in creation order: if dependants were created
  first, the end of a failed chain of three stays blocked. The same happens if the middle one was
  created again while it waited (`memory_chain` with every ID in `CallerIDs` and `MaxTasks = 4`).
- `RejectTask` makes no pass either, in either store: what waits for a rejected task stays blocked.
- A node created after its dependency has ended is blocked and stays so, in either store.
- `ReclaimStaleTasks` gives up after `MaxRetries` runs, `SubmitResult` after `MaxRetries + 1`; the
  comment says the rules agree (`memory.go:767`).
- A workflow that is run again: the report of the new record is refused at the finished record
  with the same ID (`memory.go:1042`); in the SQL store the new run takes over the old row with
  its spent retries (`sql_tasks.go:696`). If the old record was purged, a late report of it can
  complete the new one.
- `TaskResult` of the in-memory store answers with the first report kept, so a task that failed
  once and then succeeded shows a failure.
- `DeleteTask` deletes a task in any status, though the handler is named for dead letters.
- A request cut off between the UPDATE that ends a task and the release leaves the dependants
  blocked (`sql_fan_in` with `MayStop = TRUE`); between the UPDATE and the alert, it loses the
  alert.
- If the UPDATE of `last_fired_at` fails by itself, the derived task is committed and derived
  again (`leader_skewed` with `UpdateMayFail = TRUE`).
- The fence is a statement of its own: a replica may lose the lease between the fence and the
  write. `FiredOnce` shows that the schedule does not suffer from it.
- In a chain of three the failure of the first fails the second and leaves the third blocked,
  because the SQL `releaseDeps` decides from one snapshot (`sql_tasks.go:405`; the comment at 371
  says "而不是永久 blocked"). `NoneWaitsInVain` with a chain of three preloaded shows it.
- MySQL evaluates a SET list from left to right, so a reclaim computes `dead_letter` from the
  `retry_count` it has just incremented (`sql_tasks.go:808`): with two retries the first reclaim
  puts the task back marked as a dead letter. See `Reclaimed`.
- A refused late report replaces the stored result of a task that is done: the report is written
  before the guard is asked (`sql_tasks.go:263`). See `SubmitResult` and `ReadTask`.
- Two overlapping requests with one idempotency key create two tasks (`sql_tasks.go:185`). See
  `LookupKey` and `CreateTaskWithIdempotency`.
- Delivery. `reclaimLoop` says that a task not reported within the lease goes back to the queue
  (`server_tasks.go:428`), but it does so only if the agent is silent as well: with a lost reply
  or a lost result and a living agent, a task without a `Timeout` stays running for ever (`RunEnds`
  with `Timed = {}` and every record meant).
- With the SQL store no task is ever found overdue: `AllTasks` does not read the column `timeout`
  (`sql_tasks.go:596`), and `monitorTaskTimeouts` skips tasks without one. `RunEnds` is about the
  in-memory store, with which `TaskDelivery` composes the agent; this one is read from the code.
- `monitorTaskTimeouts` cancels by a snapshot: a task that was retried in the meantime is
  cancelled for the age of its earlier run.
- After a reclaim two executions of one task share one entry of `running`. The end of the older one
  deletes the handle of the newer one, which a cancel signal then does not find; if the signal
  came before, the older one takes the mark with it and the newer one reports (`CancelReaches`
  without its condition).
- A cancelled task is named by `PollCancels` as long as its record exists, so a workflow that is
  run again under the same task IDs is killed by the cancellation of the run before.
- Breaker. A call from before the breaker opened counts as a probe that succeeded when it ends
  half-open, so the breaker may close before its probes have ("全部探测成功",
  `circuitbreaker.go:180`), and a failure of such a call opens it again. A panic inside `fn` loses
  a slot; with all slots lost the breaker refuses until `Reset`. `afterCall` in the open state is
  said not to happen (`circuitbreaker.go:195`) and does.
- Audit chain. An append between a check's reading of the head and of the rows makes the check
  report that the tail was deleted. Two replicas that archive at once over rows without a hash may
  set the head to a stale boundary, after which the chain forks ("虽安全但无意义",
  `sql_audit_chain.go:468`): `OneChain` without `overlapped`. `created_at` is taken before the
  lock, so a row may be archived from the middle of the chain; a later check then raises a false
  alarm (`Skew = 1`, without `InOrder`). The platform's check is said to fail whenever the head is
  not the last chained row online ("链头必须等于在线最新链式行", `docs/security-mechanism.md:900`); with
  no chained row online it returns OK before it looks at the head (`sql_audit_chain.go:340`), so the
  deletion of all of them is not found until the next append (`TamperingFound` without
  `verifier.ids # {}` in its last disjunct).
- Approvals. `UpdateFlow` and `DeleteFlow` say that a request holds a snapshot of its flow
  (`engine.go:112`, `engine.go:133`); decisions are judged by the flow as it is now. A step
  changed to `anyof` after a first agreement passes at the next decision, even if that is a
  rejection; a request whose flow was deleted can only be cancelled or expire. `Validate` says
  orders are consecutive (`flow.go:75`) and accepts gaps, and accepts an approver named twice;
  either leaves a request that nobody can decide (`NeverWedged` without `WellFormed`). One enabled
  flow per tenant and trigger (`flow.go:51`) is not enforced. Nothing calls `CheckTimeout`.

## 6. Plan

In this order; each step brings a module, its instance, its properties and what can be proved.

1. `DeployRollout` with `CanaryAutoAdvance`: `Promote`, `Rollback` and `Reconcile` of one record that
   is read and written back whole; `Monitor`, `Stop` and the monitor loop, whose exit deletes the
   entry of a new loop; the gate over results that may still change.
2. `WorkflowRun`: `expandNodes`, conditions and sub-workflows over the store.
3. `TopoOrder`, `ReadyIDs` and `Validate` of `internal/dag` against reference definitions.
4. Kafka write-ahead log (replay after a crash, order), refresh tokens (rotation and reuse), login
   guard and rate limits (counters at their limit), authentication cutover (migration and
   rollback), the breakers of the gateways.

## Not modelled

`PROJECT.json`, `components`, gives the reason for every part. In short: generated protocol code,
presets and the web console hold no behaviour of their own; the request handlers of CMDB, cost,
compliance, network and platform keep records without a protocol; Helm, Kubernetes, AI, search,
backup and plugins wrap external programs; the extracted services repeat the control plane's code.
The parts listed in the plan are left for later and not excluded.
