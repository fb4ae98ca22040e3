---------------------------- MODULE TaskDelivery ----------------------------
(***************************************************************************)
(* The way of a task from the control plane to an agent and of its result  *)
(* back: the agent's loops (internal/agent/agent.go), the gRPC handlers    *)
(* between them (internal/controlplane/grpc/grpc.go) and the timeout       *)
(* monitor (internal/controlplane/server_tasks.go), composed with the      *)
(* in-memory store, which is instantiated and not restated.                *)
(*                                                                         *)
(* A claim is <<e, k>>: claim number k of record e.  It travels in the     *)
(* reply of PullTasks, waits in the channel taskCh, is executed by a       *)
(* worker and comes back as a report.  Replies and reports may be lost, a  *)
(* report may arrive late or more than once (the client tries every        *)
(* address it knows), heartbeats may fail, a worker may panic and the      *)
(* agent process may die and start again with nothing in memory.           *)
(*                                                                         *)
(* Left out: signatures and tenants (calls that are refused change         *)
(* nothing), metrics, logs and server-sent events, and the operations of   *)
(* the store that no agent takes part in (approval, keys, purge).          *)
(***************************************************************************)
EXTENDS Integers, Sequences

CONSTANTS
    Agents, TaskIDs, Keys, NoKey, Specs, CallerIDs, Lease, MaxTasks, MaxClaims,
    Workers,    \* the workers of one agent (WorkerConcurrency)
    QueueCap,   \* capacity of taskCh
    Timed       \* the IDs of the tasks that have a Timeout of their own

VARIABLES
    task, n, listed, tasksByID, idempotency, silent, alerted, shown, hist,
    overdue,    \* the records whose current claim is older than their Timeout
    sweep,      \* the overdue tasks monitorTaskTimeouts has still to cancel
    pulled,     \* per agent: the claim its dispatch loop has in hand, if any
    taskCh,     \* per agent: the claims waiting for a worker
    worker,     \* per agent and worker: the claim it executes, if any
    running,    \* per agent and task ID: the control handle a.running[id]
    reports,    \* reports on their way to the control plane
    history     \* for the properties: claims reclaimed, run well, discarded

storeVars == <<task, n, listed, tasksByID, idempotency, silent, alerted, shown, hist>>
monitorVars == <<overdue, sweep>>
agentVars == <<pulled, taskCh, worker, running>>
vars == <<storeVars, monitorVars, agentVars, reports, history>>

Store == INSTANCE MemoryTaskStore

\* Nothing in hand; no handle registered.
NoClaim == <<0, 0>>
NoHandle == [worker |-> "none", cancelled |-> FALSE]

\* What MemoryTaskStore asks of its constants; a channel has a capacity, and
\* no worker has the name of none.
ASSUME StoreAssumption ==
    /\ Specs \subseteq Store!TaskSpec
    /\ \A s \in Specs : s.approvalRequired => s.dependsOn = {}
    /\ MaxTasks \in Nat /\ MaxClaims \in Nat /\ Lease \in Nat
    /\ NoKey \notin Keys /\ Store!NoAgent \notin Agents /\ Store!NoID \notin TaskIDs
ASSUME AgentAssumption == QueueCap \in Nat /\ NoHandle.worker \notin Workers

Claims == (1..MaxTasks) \X (1..MaxClaims)
IDOf(c) == task[c[1]].taskID

\* The claims agent a has in hand, in its queue or under execution.
Held(a) == ({pulled[a]} \cup {taskCh[a][i] : i \in DOMAIN taskCh[a]}
              \cup {worker[a][w] : w \in Workers}) \ {NoClaim}

\* The claim by which a record is running now.
CurrentClaim(e) == <<e, task[e].claimEpoch>>
-----------------------------------------------------------------------------
Init ==
    /\ Store!Init
    /\ overdue = {} /\ sweep = {}
    /\ pulled = [a \in Agents |-> NoClaim]
    /\ taskCh = [a \in Agents |-> <<>>]
    /\ worker = [a \in Agents |-> [w \in Workers |-> NoClaim]]
    /\ running = [a \in Agents |-> [id \in TaskIDs |-> NoHandle]]
    /\ reports = {}
    /\ history = [reclaimed |-> {}, ran |-> {}, discarded |-> {}]

\* PullTasks: the store claims a task for the agent.  The reply arrives, or the
\* call fails or times out: drainTasks gives up this round, and the handler may
\* make the claim all the same, also when the agent has a later one in hand.
\* Nothing at the agent knows of such a claim.
PullTasks(a) ==
    /\ Store!ClaimTask(a)
    /\ \E e \in listed :
          /\ task'[e] # task[e]
          /\ overdue' = overdue \ {e}
          /\ \/ UNCHANGED pulled
             \/ /\ pulled[a] = NoClaim
                /\ pulled' = [pulled EXCEPT ![a] = <<e, task'[e].claimEpoch>>]
    /\ UNCHANGED <<sweep, taskCh, worker, running, reports, history>>

\* Mutant: the channel has no capacity to wait for.
drainTasksUnbounded(a) ==
    /\ pulled[a] # NoClaim
    /\ taskCh' = [taskCh EXCEPT ![a] = Append(@, pulled[a])]
    /\ pulled' = [pulled EXCEPT ![a] = NoClaim]
    /\ UNCHANGED <<storeVars, monitorVars, worker, running, reports, history>>

\* drainTasks: the claim goes into the channel; with the channel full the loop
\* waits and pulls no more.
drainTasks(a) ==
    /\ pulled[a] # NoClaim
    /\ Len(taskCh[a]) < QueueCap
    /\ taskCh' = [taskCh EXCEPT ![a] = Append(@, pulled[a])]
    /\ pulled' = [pulled EXCEPT ![a] = NoClaim]
    /\ UNCHANGED <<storeVars, monitorVars, worker, running, reports, history>>

\* Mutant: the handle is not registered.
StartWorkUnregistered(a, w) ==
    /\ worker[a][w] = NoClaim /\ taskCh[a] # <<>>
    /\ worker' = [worker EXCEPT ![a][w] = Head(taskCh[a])]
    /\ taskCh' = [taskCh EXCEPT ![a] = Tail(@)]
    /\ UNCHANGED <<storeVars, monitorVars, pulled, running, reports, history>>

\* A worker takes the next claim and registers its handle (addRunning), which
\* replaces the handle of an earlier claim of the same task.
StartWork(a, w) ==
    /\ worker[a][w] = NoClaim /\ taskCh[a] # <<>>
    /\ LET c == Head(taskCh[a])
       IN  /\ worker' = [worker EXCEPT ![a][w] = c]
           /\ running' = [running EXCEPT ![a][IDOf(c)] =
                            [worker |-> w, cancelled |-> FALSE]]
    /\ taskCh' = [taskCh EXCEPT ![a] = Tail(@)]
    /\ UNCHANGED <<storeVars, monitorVars, pulled, reports, history>>

\* Mutant: a refused task is reported as if it had run.
RefuseWorkAsDone(a) ==
    /\ taskCh[a] # <<>>
    /\ reports' = reports \cup {[claim |-> Head(taskCh[a]), success |-> TRUE]}
    /\ taskCh' = [taskCh EXCEPT ![a] = Tail(@)]
    /\ UNCHANGED <<storeVars, monitorVars, pulled, worker, running, history>>

\* The circuit breaker refuses: the worker reports a failure without running
\* the task.  When it does so is the business of module CircuitBreaker.
RefuseWork(a) ==
    /\ taskCh[a] # <<>>
    /\ reports' = reports \cup {[claim |-> Head(taskCh[a]), success |-> FALSE]}
    /\ taskCh' = [taskCh EXCEPT ![a] = Tail(@)]
    /\ UNCHANGED <<storeVars, monitorVars, pulled, worker, running, history>>

\* The execution ends.  delRunning removes the handle of the task and says
\* whether it was cancelled: then the result is dropped, otherwise it is sent.
\* The call may time out while the report is still on its way.
EndWork(a, w, success) ==
    LET c == worker[a][w]
        cancelled == running[a][IDOf(c)].cancelled
    IN  /\ c # NoClaim
        /\ worker' = [worker EXCEPT ![a][w] = NoClaim]
        /\ running' = [running EXCEPT ![a][IDOf(c)] = NoHandle]
        /\ reports' = IF cancelled THEN reports
                      ELSE reports \cup {[claim |-> c, success |-> success]}
        /\ history' = [history EXCEPT
                         !.ran = IF success THEN @ \cup {c} ELSE @,
                         !.discarded = IF cancelled THEN @ \cup {c} ELSE @]
        /\ UNCHANGED <<storeVars, monitorVars, pulled, taskCh>>

\* The executor panics; safeGo starts the worker again, without a report and
\* with the handle left in a.running.
WorkerPanics(a, w) ==
    /\ worker[a][w] # NoClaim
    /\ worker' = [worker EXCEPT ![a][w] = NoClaim]
    /\ UNCHANGED <<storeVars, monitorVars, pulled, taskCh, running, reports, history>>

\* Mutant: every task that is no longer running counts as cancelled.
EndedTaskIDs(a) ==
    {task[e].taskID : e \in {f \in Store!TasksOf(a) : task[f].status # "running"}}

\* What PollCancels answers.
CancelledTaskIDs(a) ==
    {task[e].taskID : e \in {f \in Store!TasksOf(a) : task[f].status = "cancelled"}}

\* cancelLoop: the cancelled tasks of the agent that have a handle are marked and
\* their execution is killed, which EndWork then sees.
cancelLoop(a) ==
    LET hit == {id \in CancelledTaskIDs(a) :
                  running[a][id] # NoHandle /\ ~running[a][id].cancelled}
    IN  /\ hit # {}
        /\ running' = [running EXCEPT ![a] =
                         [id \in TaskIDs |-> IF id \in hit
                                             THEN [@[id] EXCEPT !.cancelled = TRUE]
                                             ELSE @[id]]]
        /\ UNCHANGED <<storeVars, monitorVars, pulled, taskCh, worker, reports, history>>

\* The agent process ends and starts again under the same identity.
Restart(a) ==
    /\ Held(a) # {} \/ \E id \in TaskIDs : running[a][id] # NoHandle
    /\ pulled' = [pulled EXCEPT ![a] = NoClaim]
    /\ taskCh' = [taskCh EXCEPT ![a] = <<>>]
    /\ worker' = [worker EXCEPT ![a] = [w \in Workers |-> NoClaim]]
    /\ running' = [running EXCEPT ![a] = [id \in TaskIDs |-> NoHandle]]
    /\ UNCHANGED <<storeVars, monitorVars, reports, history>>

\* ReportResult: a report reaches the store; a copy of it may still come.
ReportResult(m) ==
    /\ Store!SubmitResult(m.claim[1], m.claim[2], m.success)
    /\ reports' \in {reports, reports \ {m}}
    /\ UNCHANGED <<monitorVars, agentVars, history>>

LoseReport(m) ==
    /\ reports' = reports \ {m}
    /\ UNCHANGED <<storeVars, monitorVars, agentVars, history>>

\* Time passes: a claim gets older than the Timeout of its task.
TimeoutPasses(e) ==
    /\ task[e].status = "running" /\ task[e].taskID \in Timed /\ e \notin overdue
    /\ overdue' = overdue \cup {e}
    /\ UNCHANGED <<storeVars, sweep, agentVars, reports, history>>

\* Mutant: an agent that heartbeats is taken to be working.
OverdueAndSilent ==
    {task[e].taskID : e \in {f \in listed \cap overdue :
                                task[f].status = "running" /\ task[f].claimedBy \in silent}}

\* The tasks a round of monitorTaskTimeouts finds to cancel.
OverdueIDs == {task[e].taskID : e \in {f \in listed \cap overdue : task[f].status = "running"}}

\* monitorTaskTimeouts: AllTasks copies the tasks; one CancelTask per overdue
\* task follows, each under the lock anew, with whatever has happened since.
ScanTimeouts ==
    /\ sweep = {} /\ OverdueIDs # {}
    /\ sweep' = OverdueIDs
    /\ UNCHANGED <<storeVars, overdue, agentVars, reports, history>>

CancelOverdue(id) ==
    /\ id \in sweep
    /\ sweep' = sweep \ {id}
    /\ \/ Store!CancelTask(id)
       \/ ~(tasksByID[id] # 0 /\ task[tasksByID[id]].status \in {"pending", "running"})
          /\ UNCHANGED storeVars
    /\ UNCHANGED <<overdue, agentVars, reports, history>>

\* ReclaimStaleTasks of the store; the claims it takes away are remembered.
Reclaim ==
    /\ Store!ReclaimStaleTasks
    /\ history' = [history EXCEPT !.reclaimed =
                     @ \cup {CurrentClaim(e) : e \in Store!StaleTasks}]
    /\ UNCHANGED <<monitorVars, agentVars, reports>>

\* Steps of the store alone: a caller's, a heartbeat's, time passing.
StoreAlone ==
    /\ \/ \E s \in Specs : Store!CreateTask(s)
       \/ \E a \in Agents : Store!Heartbeat(a) \/ Store!HeartbeatLapses(a)
       \/ \E e \in listed : Store!LeaseExpires(e)
       \/ \E id \in TaskIDs : Store!CancelTask(id) \/ Store!RetryDeadLetterTask(id)
    /\ UNCHANGED <<monitorVars, agentVars, reports, history>>

Next ==
    \/ \E a \in Agents :
          \/ PullTasks(a) \/ drainTasks(a) \/ RefuseWork(a) \/ cancelLoop(a) \/ Restart(a)
          \/ \E w \in Workers :
                \/ StartWork(a, w) \/ WorkerPanics(a, w)
                \/ \E success \in BOOLEAN : EndWork(a, w, success)
    \/ \E m \in reports : ReportResult(m) \/ LoseReport(m)
    \/ \E e \in listed : TimeoutPasses(e)
    \/ ScanTimeouts \/ \E id \in sweep : CancelOverdue(id)
    \/ Reclaim \/ StoreAlone

Spec == Init /\ [][Next]_vars

\* The monitor of the leader runs on and time passes; nothing is assumed of the
\* agents, the network or the callers.
FairSpec ==
    /\ Spec
    /\ \A e \in 1..MaxTasks : WF_vars(e \in listed /\ TimeoutPasses(e))
    /\ WF_vars(ScanTimeouts) /\ \A id \in TaskIDs : WF_vars(CancelOverdue(id))
-----------------------------------------------------------------------------
(***************************************************************************)
(* Properties.                                                             *)
(***************************************************************************)
Handle == [worker : Workers \cup {"none"}, cancelled : BOOLEAN]

\* Every variable of the delivery holds a value of its kind.
TypeOK ==
    /\ overdue \subseteq 1..n /\ sweep \subseteq TaskIDs
    /\ pulled \in [Agents -> Claims \cup {NoClaim}]
    /\ taskCh \in [Agents -> Seq(Claims)] /\ \A a \in Agents : Len(taskCh[a]) <= QueueCap
    /\ worker \in [Agents -> [Workers -> Claims \cup {NoClaim}]]
    /\ running \in [Agents -> [TaskIDs -> Handle]]
    /\ reports \subseteq [claim : Claims, success : BOOLEAN]
    /\ history \in [reclaimed : SUBSET Claims, ran : SUBSET Claims,
                    discarded : SUBSET Claims]

\* Of two records that a caller gave one ID a report of the one may end the
\* other, so four of the properties speak of the IDs the store generates.

\* No task is worked on twice at a time: what an agent holds is the claim by
\* which its task is running now, unless that claim was reclaimed or the task
\* cancelled (the purpose of ClaimEpoch, "防双跑"); and each claim is in one place.
HeldIsCurrent ==
    \A a \in Agents :
        /\ \A c \in Held(a) :
              \/ IDOf(c) \in CallerIDs
              \/ c = CurrentClaim(c[1]) /\ task[c[1]].status = "running"
              \/ c \in history.reclaimed
              \/ task[c[1]].status = "cancelled"
        /\ \A v, w \in Workers : worker[a][v] = worker[a][w] => v = w \/ worker[a][v] = NoClaim

\* A task is done only if a worker executed its current claim to a good end:
\* no report that was lost, repeated, late, refused by the breaker or sent for
\* an earlier claim completes it.
DoneWasRun ==
    \A e \in 1..n : task[e].status = "done" =>
        CurrentClaim(e) \in history.ran \/ task[e].taskID \in CallerIDs

\* A result is dropped by the agent only if its task is cancelled at the
\* control plane, so that no task waits for a report that was thrown away.
DroppedWasCancelled ==
    \A c \in history.discarded :
        task[c[1]].status = "cancelled" \/ IDOf(c) \in CallerIDs

\* A cancel signal reaches the worker that executes the task: its handle is
\* registered as long as no claim of the task was reclaimed.
CancelReaches ==
    \A a \in Agents, w \in Workers :
        LET c == worker[a][w]
        IN  c # NoClaim /\ (\A d \in history.reclaimed : d[1] # c[1]) =>
                running[a][IDOf(c)].worker = w \/ IDOf(c) \in CallerIDs

TimedRun(e) == e <= n /\ task[e].status = "running" /\ task[e].taskID \in Timed

\* A task with a timeout does not stay running for ever, whatever is lost on
\* the way: reply, result, heartbeat or the agent (monitorTaskTimeouts).
RunEnds == \A e \in 1..MaxTasks : TimedRun(e) ~> ~TimedRun(e)
=============================================================================
