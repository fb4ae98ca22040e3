----------------------- MODULE MemoryTaskStoreProofs -----------------------
(***************************************************************************)
(* Theorems about MemoryTaskStore, for any set of agents, tasks and        *)
(* requests and any bounds.                                                *)
(***************************************************************************)
EXTENDS MemoryTaskStore, WellFoundedInduction, TLAPS

\* A set of natural numbers has a least element: the provers' induction.
LEMMA LeastNat ==
    ASSUME NEW T, T \subseteq Nat, T # {}
    PROVE  \E x \in T : \A y \in T : x <= y
<1>1. IsWellFoundedOn(OpToRel(<, Nat), Nat)
  BY NatLessThanWellFounded, Zenon
<1>2. OpToRel(<, Nat) = {ss \in Nat \X Nat : ss[1] < ss[2]}
  BY DEF OpToRel
<1>3. PICK R : IsWellFoundedOn(R, Nat) /\ R = {ss \in Nat \X Nat : ss[1] < ss[2]}
  BY <1>1, <1>2, Zenon
<1>4. PICK x \in T : \A y \in T : <<y, x>> \notin R
  BY <1>3, WFMin
<1>5. \A y \in T : ~(y < x)
  BY <1>3, <1>4
<1> QED BY <1>5

\* A bounded one has a greatest: the record the byID map keeps for an ID.
LEMMA GreatestUpTo ==
    ASSUME NEW m \in Nat, NEW S, S \subseteq 1..m, S # {}
    PROVE  \E x \in S : \A y \in S : y <= x
<1> DEFINE T == {k \in Nat : \E x \in S : k = m - x}
<1>1. T \subseteq Nat /\ T # {}
  <2>1. PICK x \in S : TRUE
    OBVIOUS
  <2>2. m - x \in T
    OBVIOUS
  <2> QED BY <2>2
<1> HIDE DEF T
<1>2. PICK k \in T : \A j \in T : k <= j
  BY <1>1, LeastNat
<1>3. PICK x \in S : k = m - x
  BY DEF T
<1>4. \A y \in S : m - y \in T
  BY DEF T
<1> QED BY <1>2, <1>3, <1>4

\* Every result of a record operation is a record again.
LEMMA RecordOps ==
    ASSUME NEW r \in TaskRecord
    PROVE  /\ Unclaimed(r) \in TaskRecord
           /\ Released(r) \in TaskRecord
           /\ FailedUpstream(r) \in TaskRecord
           /\ Reclaimed(r) \in TaskRecord
           /\ Requeued(r) \in TaskRecord
           /\ Approved(r) \in TaskRecord
           /\ \A a \in Agents : Claimed(r, a) \in TaskRecord
           /\ \A success \in BOOLEAN : Reported(r, success) \in TaskRecord
           /\ \A st \in Statuses : [r EXCEPT !.status = st] \in TaskRecord
<1>1. Unclaimed(r) \in TaskRecord
  BY DEF Unclaimed, TaskRecord
<1>2. Released(r) \in TaskRecord /\ FailedUpstream(r) \in TaskRecord
  BY <1>1 DEF Released, FailedUpstream, TaskRecord, Statuses
<1>a. Unclaimed(r).retryCount + 1 \in Nat
  BY <1>1 DEF TaskRecord
<1>3. Reclaimed(r) \in TaskRecord
  <2>1. [Unclaimed(r) EXCEPT !.retryCount = @ + 1, !.status = "failed",
                             !.deadLetter = TRUE] \in TaskRecord
    BY <1>1, <1>a DEF TaskRecord, Statuses
  <2>2. [Unclaimed(r) EXCEPT !.retryCount = @ + 1, !.status = "pending"] \in TaskRecord
    BY <1>1, <1>a DEF TaskRecord, Statuses
  <2> QED BY <2>1, <2>2 DEF Reclaimed
<1>4. Requeued(r) \in TaskRecord /\ Approved(r) \in TaskRecord
  BY <1>1 DEF Requeued, Approved, TaskRecord, Statuses
<1>b. r.claimEpoch + 1 \in Nat
  BY DEF TaskRecord
<1>5. \A a \in Agents : Claimed(r, a) \in TaskRecord
  BY <1>b DEF Claimed, TaskRecord, Statuses
<1>6. \A success \in BOOLEAN : Reported(r, success) \in TaskRecord
  <2>1. [r EXCEPT !.status = "done"] \in TaskRecord
    BY DEF TaskRecord, Statuses
  <2>2. [Unclaimed(r) EXCEPT !.retryCount = @ + 1, !.status = "pending"] \in TaskRecord
    BY <1>1, <1>a DEF TaskRecord, Statuses
  <2>3. [r EXCEPT !.status = "failed", !.deadLetter = TRUE] \in TaskRecord
    BY DEF TaskRecord, Statuses
  <2> QED BY <2>1, <2>2, <2>3 DEF Reported
<1>7. \A st \in Statuses : [r EXCEPT !.status = st] \in TaskRecord
  BY DEF TaskRecord
<1> QED BY <1>1, <1>2, <1>3, <1>4, <1>5, <1>6, <1>7

\* A requeue keeps the history record in its type.
LEMMA HistOps ==
    ASSUME NEW h \in HistRecord, NEW b \in Nat
    PROVE  [h EXCEPT !.base = b, !.requeued = TRUE] \in HistRecord
BY DEF HistRecord

\* releaseDeps leaves every record as it was, releases it or fails it, and it
\* touches waiting records only.
LEMMA ReleaseShape ==
    ASSUME TypeOK, NEW t \in [Created -> TaskRecord], NEW al \in SUBSET TaskIDs,
           NEW a \in Agents, releaseDeps(t, al, a)
    PROVE  /\ task' \in [Created -> TaskRecord]
           /\ alerted' \in SUBSET TaskIDs
           /\ al \subseteq alerted'
           /\ \A e \in Created :
                 \/ task'[e] = t[e]
                 \/ t[e].status = "blocked" /\ task'[e] = Released(t[e])
                 \/ /\ t[e].status = "blocked" /\ task'[e] = FailedUpstream(t[e])
                    /\ t[e].taskID \in alerted'
<1> DEFINE blocked == {e \in TasksOf(a) : t[e].status = "blocked"}
<1>1. PICK rel \in SUBSET blocked, fld \in SUBSET blocked :
        /\ task' = [e \in Created |-> IF e \in rel THEN Released(t[e])
                                      ELSE IF e \in fld THEN FailedUpstream(t[e])
                                      ELSE t[e]]
        /\ alerted' = al \cup {t[e].taskID : e \in fld}
  BY DEF releaseDeps
<1>2. blocked \subseteq Created
  BY DEF TasksOf, TypeOK
<1>3. \A e \in Created : /\ t[e] \in TaskRecord
                         /\ Released(t[e]) \in TaskRecord
                         /\ FailedUpstream(t[e]) \in TaskRecord
                         /\ t[e].taskID \in TaskIDs
  BY RecordOps DEF TaskRecord
<1>4. task' \in [Created -> TaskRecord]
  BY <1>1, <1>3
<1>5. alerted' \in SUBSET TaskIDs /\ al \subseteq alerted'
  BY <1>1, <1>2, <1>3
<1>6. ASSUME NEW e \in Created
      PROVE  \/ task'[e] = t[e]
             \/ t[e].status = "blocked" /\ task'[e] = Released(t[e])
             \/ /\ t[e].status = "blocked" /\ task'[e] = FailedUpstream(t[e])
                /\ t[e].taskID \in alerted'
  BY <1>1
<1> QED BY <1>4, <1>5, <1>6

\* A record that releaseDeps releases has dependencies that are all done.
LEMMA ReleasedDeps ==
    ASSUME TypeOK, NEW t \in [Created -> TaskRecord], NEW al \in SUBSET TaskIDs,
           NEW a \in Agents, releaseDeps(t, al, a),
           \A f \in Created : t[f].taskID = task[f].taskID,
           NEW e \in Created, t[e].status = "blocked", task'[e] = Released(t[e])
    PROVE  \A d \in t[e].dependsOn :
              \E f \in Created : task'[f].taskID = d /\ task'[f].status = "done"
<1> DEFINE blocked == {f \in TasksOf(a) : t[f].status = "blocked"}
<1>1. PICK rel \in SUBSET blocked, fld \in SUBSET blocked :
        /\ IsReleasePass(t, a, rel, fld)
        /\ task' = [f \in Created |-> IF f \in rel THEN Released(t[f])
                                      ELSE IF f \in fld THEN FailedUpstream(t[f])
                                      ELSE t[f]]
  BY DEF releaseDeps
<1> DEFINE seen == [f \in Created |-> IF f < e /\ f \in rel THEN "pending"
                                      ELSE IF f < e /\ f \in fld THEN "failed"
                                      ELSE t[f].status]
           byID == LookupIn(a, seen)
<1>2. e \in rel
  <2>1. Released(t[e]).status = "pending" /\ FailedUpstream(t[e]).status = "failed"
    BY DEF Released, FailedUpstream, Unclaimed, TaskRecord
  <2> QED BY <1>1, <2>1
<1>3. AllDepsTerminal(t[e].dependsOn, byID) /\ ~AnyDepFailed(t[e].dependsOn, byID)
  BY <1>1, <1>2 DEF IsReleasePass
<1> SUFFICES ASSUME NEW d \in t[e].dependsOn
             PROVE  \E f \in Created : task'[f].taskID = d /\ task'[f].status = "done"
  OBVIOUS
<1> DEFINE same == {f \in TasksOf(a) : task[f].taskID = d}
<1>4. d \in TaskIDs
  BY DEF TaskRecord
<1>5. byID[d] = "done"
  BY <1>3 DEF AllDepsTerminal, AnyDepFailed
<1>6. byID[d] = IF same = {} THEN Missing
                ELSE seen[CHOOSE f \in same : \A g \in same : g <= f]
  BY <1>4 DEF LookupIn
<1> HIDE DEF byID, seen
<1>7. same # {} /\ seen[CHOOSE f \in same : \A g \in same : g <= f] = "done"
  BY <1>5, <1>6 DEF Missing
<1>8. same \subseteq 1..n /\ n \in Nat
  <2>1. same \subseteq listed
    BY DEF TasksOf
  <2>2. listed \subseteq 1..n
    BY DEF TypeOK, Created
  <2>3. n \in Nat
    BY BoundsAssumption DEF TypeOK
  <2> QED BY <2>1, <2>2, <2>3
<1> DEFINE f == CHOOSE x \in same : \A g \in same : g <= x
<1>9. f \in same
  <2> HIDE DEF same
  <2>1. \E x \in same : \A g \in same : g <= x
    BY <1>7, <1>8, GreatestUpTo
  <2> QED BY <2>1
<1>10. f \in Created /\ t[f].taskID = d /\ seen[f] = "done"
  BY <1>7, <1>8, <1>9 DEF Created
<1> HIDE DEF f
<1>11. t[f].status = "done" /\ f \notin rel /\ f \notin fld
  <2>1. \A g \in rel \cup fld : t[g].status = "blocked"
    OBVIOUS
  <2>2. t[f].status = "done"
    BY <1>10 DEF seen
  <2> QED BY <2>1, <2>2
<1>12. task'[f] = t[f]
  BY <1>1, <1>10, <1>11
<1> QED BY <1>10, <1>11, <1>12

LEMMA InitType == Init => TypeOK
BY BoundsAssumption DEF Init, TypeOK, Created

\* Every operation keeps the variables in their types.
LEMMA NextType == TypeOK /\ [Next]_vars => TypeOK'
<1> SUFFICES ASSUME TypeOK, [Next]_vars PROVE TypeOK'
  OBVIOUS
<1>0. \A e \in Created : task[e] \in TaskRecord /\ task[e].agentID \in Agents
                         /\ task[e].taskID \in TaskIDs
  BY DEF TypeOK, TaskRecord
<1>1. ASSUME NEW s \in Specs, CreateTask(s) PROVE TypeOK'
  <2>1. NewTask(s) \in TaskRecord /\ NewTask(s).taskID \in TaskIDs
    BY SpecsAssumption DEF NewTask, InitialStatus, TaskRecord, TaskSpec, Statuses
  <2>2. NoHist \in HistRecord
    BY DEF NoHist, HistRecord
  <2>3. n' \in 0..MaxTasks /\ n' = n + 1
    BY <1>1, BoundsAssumption DEF CreateTask, addTaskLocked, TypeOK
  <2>4. task' \in [1..(n + 1) -> TaskRecord] /\ hist' \in [1..(n + 1) -> HistRecord]
    BY <1>1, <2>1, <2>2 DEF CreateTask, addTaskLocked, TypeOK, Created
  <2>5. listed' \subseteq 1..(n + 1)
    BY <1>1 DEF CreateTask, addTaskLocked, TypeOK, Created
  <2>6. tasksByID' \in [TaskIDs -> 1..(n + 1) \cup {0}]
    BY <1>1, <2>1 DEF CreateTask, addTaskLocked, TypeOK, Created
  <2>7. idempotency' \in [Keys -> TaskIDs \cup {NoID}]
    BY <1>1, SpecsAssumption DEF CreateTask, TypeOK, TaskSpec
  <2> QED BY <1>1, <2>3, <2>4, <2>5, <2>6, <2>7 DEF CreateTask, TypeOK, Created
<1>2. ASSUME NEW k \in Keys, cleanupIdempotency(k) PROVE TypeOK'
  BY <1>2 DEF cleanupIdempotency, TypeOK, Created
<1>3. ASSUME NEW a \in Agents, ClaimTask(a) PROVE TypeOK'
  <2>1. PICK e \in TasksOf(a) : task' = [task EXCEPT ![e] = Claimed(@, a)]
    BY <1>3 DEF ClaimTask
  <2>2. task' \in [Created -> TaskRecord]
    BY <2>1, <1>0, RecordOps DEF TypeOK, TasksOf
  <2> QED BY <1>3, <2>2 DEF ClaimTask, TypeOK, Created
<1>4. ASSUME NEW a \in Agents, Heartbeat(a) PROVE TypeOK'
  BY <1>4 DEF Heartbeat, TypeOK, Created
<1>5. ASSUME NEW a \in Agents, HeartbeatLapses(a) PROVE TypeOK'
  BY <1>5 DEF HeartbeatLapses, TypeOK, Created
<1>6. ASSUME NEW e \in listed, LeaseExpires(e) PROVE TypeOK'
  <2>1. [task[e] EXCEPT !.leaseOld = TRUE] \in TaskRecord
    BY <1>0 DEF TypeOK, TaskRecord
  <2>2. task' \in [Created -> TaskRecord]
    BY <1>6, <2>1 DEF LeaseExpires, TypeOK
  <2> QED BY <1>6, <2>2 DEF LeaseExpires, TypeOK, Created
<1>7. ASSUME ReclaimStaleTasks PROVE TypeOK'
  <2>1. task' \in [Created -> TaskRecord]
    BY <1>7, <1>0, RecordOps DEF ReclaimStaleTasks, TypeOK
  <2>2. alerted' \subseteq TaskIDs
    BY <1>7, <1>0 DEF ReclaimStaleTasks, StaleTasks, TypeOK
  <2> QED BY <1>7, <2>1, <2>2 DEF ReclaimStaleTasks, TypeOK, Created
<1>8. ASSUME NEW c \in Created, NEW epoch \in 1..task[c].claimEpoch,
             NEW success \in BOOLEAN, SubmitResult(c, epoch, success)
      PROVE  TypeOK'
  <2> DEFINE same == {e \in TasksOf(task[c].agentID) : task[e].taskID = task[c].taskID}
             refusing == {e \in same : ~Accepts(task[e], epoch, success)}
             taken == {e \in same : \A f \in refusing : e < f}
             t == [e \in Created |-> IF e \in taken THEN Reported(task[e], success)
                                                    ELSE task[e]]
             al == alerted \cup {task[e].taskID : e \in {f \in taken : t[f].deadLetter}}
  <2>1. t \in [Created -> TaskRecord]
    BY <1>0, RecordOps
  <2>2. al \in SUBSET TaskIDs
    BY <1>0 DEF TypeOK, TasksOf
  <2>3. \/ releaseDeps(t, al, task[c].agentID)
        \/ task' = t /\ alerted' = al
    BY <1>8 DEF SubmitResult
  <2>4. task' \in [Created -> TaskRecord] /\ alerted' \subseteq TaskIDs
    BY <2>1, <2>2, <2>3, <1>0, ReleaseShape
  <2>5. epoch \in Nat /\ c \in Nat
    BY <1>0 DEF TaskRecord, Created
  <2>6. \A e \in Created : [hist[e] EXCEPT !.from = <<c, epoch>>] \in HistRecord
    BY <2>5 DEF TypeOK, HistRecord
  <2>7. hist' \in [Created -> HistRecord]
    BY <1>8, <2>6 DEF SubmitResult, TypeOK
  <2> QED BY <1>8, <2>4, <2>7 DEF SubmitResult, TypeOK, Created
<1>9. ASSUME NEW id \in TaskIDs, CancelTask(id) PROVE TypeOK'
  <2> DEFINE e == tasksByID[id]
             t == [task EXCEPT ![e].status = "cancelled"]
  <2>1. e \in Created
    BY <1>9 DEF CancelTask, TypeOK
  <2>2. t \in [Created -> TaskRecord]
    BY <1>0, <2>1 DEF TypeOK, TaskRecord, Statuses
  <2>3. releaseDeps(t, alerted, task[e].agentID)
    BY <1>9 DEF CancelTask
  <2>4. task' \in [Created -> TaskRecord] /\ alerted' \subseteq TaskIDs
    BY <2>1, <2>2, <2>3, <1>0, ReleaseShape DEF TypeOK
  <2> QED BY <1>9, <2>4 DEF CancelTask, TypeOK, Created
<1>10. ASSUME NEW id \in TaskIDs, ApproveTask(id) PROVE TypeOK'
  <2>1. tasksByID[id] \in Created
    BY <1>10 DEF ApproveTask, TypeOK
  <2>2. Approved(task[tasksByID[id]]) \in TaskRecord
    BY <1>0, <2>1, RecordOps
  <2>3. task' \in [Created -> TaskRecord]
    BY <1>10, <2>1, <2>2 DEF ApproveTask, TypeOK
  <2> QED BY <1>10, <2>3 DEF ApproveTask, TypeOK, Created
<1>11. ASSUME NEW id \in TaskIDs, RejectTask(id) PROVE TypeOK'
  <2>1. tasksByID[id] \in Created
    BY <1>11 DEF RejectTask, TypeOK
  <2>2. [task[tasksByID[id]] EXCEPT !.status = "rejected"] \in TaskRecord
    BY <1>0, <2>1, RecordOps DEF Statuses
  <2>3. task' \in [Created -> TaskRecord]
    BY <1>11, <2>1, <2>2 DEF RejectTask, TypeOK
  <2> QED BY <1>11, <2>3 DEF RejectTask, TypeOK, Created
<1>12. ASSUME NEW id \in TaskIDs, RetryDeadLetterTask(id) PROVE TypeOK'
  <2>1. tasksByID[id] \in Created
    BY <1>12 DEF RetryDeadLetterTask, TypeOK
  <2>2. task' \in [Created -> TaskRecord]
    BY <1>12, <1>0, <2>1, RecordOps DEF RetryDeadLetterTask, TypeOK
  <2>a. task[tasksByID[id]].claimEpoch \in Nat
    BY <1>0, <2>1 DEF TaskRecord
  <2>b. [hist[tasksByID[id]] EXCEPT !.base = task[tasksByID[id]].claimEpoch,
                                    !.requeued = TRUE] \in HistRecord
    BY <2>1, <2>a, HistOps DEF TypeOK
  <2>3. hist' \in [Created -> HistRecord]
    BY <1>12, <2>1, <2>b DEF RetryDeadLetterTask, TypeOK
  <2> QED BY <1>12, <2>2, <2>3 DEF RetryDeadLetterTask, TypeOK, Created
<1>13. ASSUME NEW id \in TaskIDs, DeleteTask(id) PROVE TypeOK'
  BY <1>13 DEF DeleteTask, TypeOK, Created
<1>14. CASE UNCHANGED vars
  BY <1>14 DEF vars, TypeOK, Created
<1> QED
  BY <1>1, <1>2, <1>3, <1>4, <1>5, <1>6, <1>7, <1>8, <1>9, <1>10, <1>11, <1>12,
     <1>13, <1>14 DEF Next

\* The variables always hold values of their kind: no operation of MemoryStore
\* corrupts the records, the slices or the index.
THEOREM TypeCorrect == Spec => []TypeOK
BY InitType, NextType, PTL DEF Spec
-----------------------------------------------------------------------------
(***************************************************************************)
(* MemoryTaskStore implements TaskLifecycle, and what follows from it.     *)
(***************************************************************************)
LP == INSTANCE TaskLifecycleProofs
      WITH count <- n, life <- [e \in Created |-> LifeOf(task[e], hist[e])]

\* The inductive invariant: the types, and every record's life in order.
LivesOK == \A e \in Created : Lifecycle!LifeOK(LifeOf(task[e], hist[e]))
MInv == TypeOK /\ LivesOK

\* A record and its history have a life.
LEMMA LifeType ==
    ASSUME NEW r \in TaskRecord, NEW h \in HistRecord
    PROVE  LifeOf(r, h) \in Lifecycle!Life
BY DEF LifeOf, Lifecycle!Life, TaskRecord, HistRecord, Statuses, Lifecycle!Statuses

\* Every move keeps a life in order (TaskLifecycleProofs, for this instance).
LEMMA LifeKept ==
    ASSUME NEW x \in Lifecycle!Life, NEW y \in Lifecycle!Life,
           Lifecycle!LifeOK(x), Lifecycle!Move(x, y)
    PROVE  Lifecycle!LifeOK(y)
<1>1. Lifecycle!Life = LP!Life
  BY DEF Lifecycle!Life, LP!Life, Lifecycle!Statuses, LP!Statuses
<1>2. ASSUME NEW z PROVE Lifecycle!LifeOK(z) <=> LP!LifeOK(z)
  BY <1>1 DEF Lifecycle!LifeOK, LP!LifeOK, Lifecycle!Accounted, LP!Accounted,
     Lifecycle!Gated, LP!Gated
<1>3. LP!Move(x, y)
  BY Zenon DEF Lifecycle!Move, LP!Move, Lifecycle!Start, LP!Start, Lifecycle!Finish,
     LP!Finish, Lifecycle!Retry, LP!Retry, Lifecycle!GiveUp, LP!GiveUp,
     Lifecycle!Cancel, LP!Cancel, Lifecycle!Approve, LP!Approve, Lifecycle!Reject,
     LP!Reject, Lifecycle!Release, LP!Release, Lifecycle!FailUpstream,
     LP!FailUpstream, Lifecycle!Requeue, LP!Requeue, Lifecycle!SameTerms, LP!SameTerms,
     Lifecycle!SameGate, LP!SameGate, Lifecycle!SameRuns, LP!SameRuns,
     Lifecycle!SameDead, LP!SameDead
<1> QED BY <1>1, <1>2, <1>3, LP!MoveOK

\* A fresh life is in order (TaskLifecycleProofs, for this instance).
LEMMA FreshLife ==
    ASSUME NEW x \in Lifecycle!Life, Lifecycle!Fresh(x)
    PROVE  Lifecycle!LifeOK(x)
BY DEF Lifecycle!Life, Lifecycle!Fresh, Lifecycle!LifeOK, Lifecycle!Accounted,
   Lifecycle!Gated, Lifecycle!Statuses

\* Each record operation is a move of the record's life.
LEMMA OpMoves ==
    ASSUME NEW r \in TaskRecord, NEW h \in HistRecord
    PROVE  /\ r.status = "pending" =>
                \A a \in Agents : Lifecycle!Move(LifeOf(r, h), LifeOf(Claimed(r, a), h))
           /\ r.status = "running" => Lifecycle!Move(LifeOf(r, h), LifeOf(Reclaimed(r), h))
           /\ r.status = "running" => \A success \in BOOLEAN :
                Lifecycle!Move(LifeOf(r, h), LifeOf(Reported(r, success), h))
           /\ r.status = "blocked" =>
                /\ Lifecycle!Move(LifeOf(r, h), LifeOf(Released(r), h))
                /\ Lifecycle!Move(LifeOf(r, h), LifeOf(FailedUpstream(r), h))
           /\ r.status = "pending_approval" =>
                /\ Lifecycle!Move(LifeOf(r, h), LifeOf(Approved(r), h))
                /\ Lifecycle!Move(LifeOf(r, h), LifeOf([r EXCEPT !.status = "rejected"], h))
           /\ r.status \in {"pending", "running"} =>
                Lifecycle!Move(LifeOf(r, h), LifeOf([r EXCEPT !.status = "cancelled"], h))
           /\ r.status = "failed" /\ r.deadLetter =>
                \A g \in HistRecord : g.base = r.claimEpoch =>
                    Lifecycle!Move(LifeOf(r, h), LifeOf(Requeued(r), g))
<1> USE DEF LifeOf, TaskRecord, Lifecycle!Move, Lifecycle!SameTerms, Lifecycle!SameGate, Lifecycle!SameRuns,
            Lifecycle!SameDead
<1> DEFINE x == LifeOf(r, h)
<1>1. ASSUME r.status = "pending", NEW a \in Agents
      PROVE  Lifecycle!Move(x, LifeOf(Claimed(r, a), h))
  BY <1>1 DEF Lifecycle!Start, Claimed
<1>2. ASSUME r.status = "running"
      PROVE  Lifecycle!Move(x, LifeOf(Reclaimed(r), h))
  BY <1>2 DEF Lifecycle!Retry, Lifecycle!GiveUp, Reclaimed, Unclaimed
<1>3. ASSUME r.status = "running", NEW success \in BOOLEAN
      PROVE  Lifecycle!Move(x, LifeOf(Reported(r, success), h))
  BY <1>3 DEF Lifecycle!Finish, Lifecycle!Retry, Lifecycle!GiveUp, Reported, Unclaimed
<1>4. ASSUME r.status = "blocked"
      PROVE  /\ Lifecycle!Move(x, LifeOf(Released(r), h))
             /\ Lifecycle!Move(x, LifeOf(FailedUpstream(r), h))
  BY <1>4 DEF Lifecycle!Release, Released, Unclaimed, Lifecycle!FailUpstream, FailedUpstream
<1>5. ASSUME r.status = "pending_approval"
      PROVE  /\ Lifecycle!Move(x, LifeOf(Approved(r), h))
             /\ Lifecycle!Move(x, LifeOf([r EXCEPT !.status = "rejected"], h))
  BY <1>5 DEF Lifecycle!Approve, Approved, Lifecycle!Reject
<1>6. ASSUME r.status \in {"pending", "running"}
      PROVE  Lifecycle!Move(x, LifeOf([r EXCEPT !.status = "cancelled"], h))
  BY <1>6 DEF Lifecycle!Cancel
<1>7. ASSUME r.status = "failed", r.deadLetter, NEW g \in HistRecord,
             g.base = r.claimEpoch
      PROVE  Lifecycle!Move(x, LifeOf(Requeued(r), g))
  BY <1>7 DEF Lifecycle!Requeue, Requeued, Unclaimed
<1> QED BY <1>1, <1>2, <1>3, <1>4, <1>5, <1>6, <1>7

\* A record SubmitResult accepts a report for is running: a waiting record has
\* never been claimed, so no report carries its epoch.
LEMMA AcceptsRunning ==
    ASSUME NEW r \in TaskRecord, NEW h \in HistRecord, NEW epoch \in Nat, epoch > 0,
           NEW success \in BOOLEAN, Lifecycle!LifeOK(LifeOf(r, h)),
           Accepts(r, epoch, success)
    PROVE  r.status = "running"
<1>1. Reported(r, success).status \in {"done", "pending", "failed"}
  BY DEF Reported, Unclaimed, TaskRecord
<1>2. r.status \in {"blocked", "pending_approval"} => r.claimEpoch = 0
  BY DEF Lifecycle!LifeOK, Lifecycle!Gated, LifeOf
<1>3. r.status \notin {"blocked", "pending_approval"}
  BY <1>2 DEF Accepts
<1>4. r.status # "claimed"
  BY DEF TaskRecord, Statuses
<1> QED BY <1>1, <1>3, <1>4 DEF Accepts, validTaskTransition

\* Every dependency of record e has a record that is done.
DepsDone(e) ==
    \A d \in task[e].dependsOn :
        \E f \in Created : task[f].taskID = d /\ task[f].status = "done"

\* The report of claim <<c, task[e].claimEpoch>> is taken for record e.
ReportedBy(e, c, success) ==
    /\ task[e].status = "running"
    /\ task'[e] = Reported(task[e], success)
    /\ hist'[e] = [hist[e] EXCEPT !.from = <<c, task[e].claimEpoch>>]
    /\ task[c].taskID = task[e].taskID /\ task[c].agentID = task[e].agentID
    /\ task'[e].deadLetter => task[e].taskID \in alerted'

\* Record e is sent back to the queue by hand.
RequeuedByHand(e) ==
    /\ task[e].status = "failed" /\ task[e].deadLetter
    /\ task'[e] = Requeued(task[e])
    /\ hist'[e] = [hist[e] EXCEPT !.base = task[e].claimEpoch, !.requeued = TRUE]

\* Record e changes, its history does not.
Changed(e) ==
    \/ task[e].status = "pending" /\ \E a \in Agents : task'[e] = Claimed(task[e], a)
    \/ task'[e] = [task[e] EXCEPT !.leaseOld = TRUE]
    \/ /\ task[e].status = "running" /\ task'[e] = Reclaimed(task[e])
       /\ task'[e].deadLetter => task[e].taskID \in alerted'
    \/ /\ task[e].status = "blocked" /\ task'[e] = Released(task[e])
       /\ DepsDone(e)'
    \/ /\ task[e].status = "blocked" /\ task'[e] = FailedUpstream(task[e])
       /\ task[e].taskID \in alerted'
    \/ /\ task[e].status = "pending_approval"
       /\ task'[e] \in {Approved(task[e]), [task[e] EXCEPT !.status = "rejected"]}
    \/ /\ task[e].status \in {"pending", "running"}
       /\ task'[e] = [task[e] EXCEPT !.status = "cancelled"]

\* What one operation may do to record e.
RecordStep(e) ==
    \/ hist'[e] = hist[e] /\ (task'[e] = task[e] \/ Changed(e))
    \/ \E c \in Created, success \in BOOLEAN : ReportedBy(e, c, success)
    \/ RequeuedByHand(e)

StoreStep == alerted \subseteq alerted' /\ \A e \in Created : RecordStep(e)

\* An operation that creates no record does to each record one of these things.
LEMMA StepShape ==
    ASSUME MInv, Next, n' = n
    PROVE  StoreStep
<1>0. \A e \in Created : /\ task[e] \in TaskRecord /\ hist[e] \in HistRecord
                         /\ task[e].agentID \in Agents
                         /\ task[e].taskID \in TaskIDs
                         /\ Lifecycle!LifeOK(LifeOf(task[e], hist[e]))
  BY DEF MInv, LivesOK, TypeOK, TaskRecord
<1>1. ASSUME NEW s \in Specs, CreateTask(s) PROVE StoreStep
  BY <1>1 DEF CreateTask, addTaskLocked, MInv, TypeOK
<1>2. ASSUME task' = task, hist' = hist, alerted' = alerted PROVE StoreStep
  BY <1>2 DEF StoreStep, RecordStep
<1>3. ASSUME NEW a \in Agents, ClaimTask(a) PROVE StoreStep
  <2>1. PICK e \in {f \in TasksOf(a) : task[f].status = "pending"} :
           task' = [task EXCEPT ![e] = Claimed(@, a)]
    BY <1>3 DEF ClaimTask
  <2>2. hist' = hist /\ alerted' = alerted
    BY <1>3 DEF ClaimTask
  <2>3. e \in Created
    BY DEF MInv, TypeOK, TasksOf
  <2>4. ASSUME NEW f \in Created
        PROVE  \/ task'[f] = task[f]
               \/ f = e /\ task'[f] = Claimed(task[e], a)
    BY <2>1, <2>3 DEF MInv, TypeOK
  <2> QED BY <2>1, <2>2, <2>4 DEF StoreStep, RecordStep, Changed
<1>4. ASSUME NEW e \in listed, LeaseExpires(e) PROVE StoreStep
  <2>1. e \in Created /\ hist' = hist /\ alerted' = alerted
    BY <1>4 DEF LeaseExpires, MInv, TypeOK
  <2>2. ASSUME NEW f \in Created
        PROVE  \/ task'[f] = task[f]
               \/ f = e /\ task'[f] = [task[e] EXCEPT !.leaseOld = TRUE]
    BY <1>4, <2>1 DEF LeaseExpires, MInv, TypeOK
  <2> QED BY <2>1, <2>2 DEF StoreStep, RecordStep, Changed
<1>5. ASSUME ReclaimStaleTasks PROVE StoreStep
  <2>1. hist' = hist /\ alerted \subseteq alerted'
    BY <1>5 DEF ReclaimStaleTasks
  <2>2. ASSUME NEW e \in Created
        PROVE  \/ task'[e] = task[e]
               \/ /\ task[e].status = "running" /\ task'[e] = Reclaimed(task[e])
                  /\ task'[e].deadLetter => task[e].taskID \in alerted'
    BY <1>5 DEF ReclaimStaleTasks, StaleTasks
  <2> QED BY <2>1, <2>2 DEF StoreStep, RecordStep, Changed
<1>6. ASSUME NEW c \in Created, NEW epoch \in 1..task[c].claimEpoch,
             NEW success \in BOOLEAN, SubmitResult(c, epoch, success)
      PROVE  StoreStep
  <2> DEFINE same == {e \in TasksOf(task[c].agentID) : task[e].taskID = task[c].taskID}
             refusing == {e \in same : ~Accepts(task[e], epoch, success)}
             taken == {e \in same : \A f \in refusing : e < f}
             t == [e \in Created |-> IF e \in taken THEN Reported(task[e], success)
                                                    ELSE task[e]]
             al == alerted \cup {task[e].taskID : e \in {f \in taken : t[f].deadLetter}}
  <2>1. t \in [Created -> TaskRecord] /\ al \in SUBSET TaskIDs
    BY <1>0, RecordOps DEF TasksOf, MInv, TypeOK
  <2>2. \/ releaseDeps(t, al, task[c].agentID)
        \/ task' = t /\ alerted' = al
    BY <1>6 DEF SubmitResult
  <2>3. epoch \in Nat /\ epoch > 0
    BY <1>0 DEF TaskRecord
  <2>4. ASSUME NEW e \in Created
        PROVE  hist'[e] = IF e \in taken THEN [hist[e] EXCEPT !.from = <<c, epoch>>]
                                         ELSE hist[e]
    BY <1>6 DEF SubmitResult
  <2>5. ASSUME NEW e \in Created, e \in taken
        PROVE  /\ task[e].status = "running" /\ t[e] = Reported(task[e], success)
               /\ epoch = task[e].claimEpoch
               /\ task[e].taskID = task[c].taskID /\ task[e].agentID = task[c].agentID
               /\ t[e].deadLetter => task[e].taskID \in al
    <3>1. e \notin refusing
      BY <2>5 DEF Created
    <3>2. Accepts(task[e], epoch, success)
      BY <2>5, <3>1
    <3>3. task[e].status = "running" /\ epoch = task[e].claimEpoch
      BY <1>0, <2>3, <3>2, AcceptsRunning DEF Accepts
    <3>4. task[e].taskID = task[c].taskID /\ task[e].agentID = task[c].agentID
      BY <2>5 DEF TasksOf
    <3> QED BY <2>5, <3>3, <3>4
  <2>6. \A e \in Created : e \notin taken => t[e] = task[e]
    OBVIOUS
  <2>7. \A e \in Created : Reported(task[e], success).status # "blocked"
    BY <1>0 DEF Reported, Unclaimed, TaskRecord
  <2>8. \A e \in Created : t[e].taskID = task[e].taskID /\ t[e].dependsOn = task[e].dependsOn
    BY <1>0 DEF Reported, Unclaimed, TaskRecord
  <2>9. alerted \subseteq al
    OBVIOUS
  <2> HIDE DEF t, al, taken
  <2>10. /\ al \subseteq alerted'
         /\ \A e \in Created :
               \/ task'[e] = t[e]
               \/ t[e].status = "blocked" /\ task'[e] = Released(t[e])
               \/ /\ t[e].status = "blocked" /\ task'[e] = FailedUpstream(t[e])
                  /\ t[e].taskID \in alerted'
    BY <1>0, <2>1, <2>2, ReleaseShape DEF MInv
  <2>11. ASSUME NEW e \in Created
         PROVE  RecordStep(e)
    <3>1. CASE e \in taken
      <4>1. task'[e] = Reported(task[e], success)
        BY <2>5, <2>7, <2>10, <3>1
      <4>2. ReportedBy(e, c, success)
        BY <2>4, <2>5, <2>10, <3>1, <4>1 DEF ReportedBy
      <4> QED BY <4>2 DEF RecordStep
    <3>2. CASE e \notin taken
      <4>1. hist'[e] = hist[e] /\ t[e] = task[e]
        BY <2>4, <2>6, <3>2
      <4>2. CASE t[e].status = "blocked" /\ task'[e] = Released(t[e])
        <5>1. releaseDeps(t, al, task[c].agentID)
          <6>1. task'[e] # t[e]
            BY <1>0, <4>1, <4>2 DEF Released, Unclaimed, TaskRecord
          <6> QED BY <2>2, <6>1
        <5>2. \A d \in t[e].dependsOn :
                 \E f \in Created : task'[f].taskID = d /\ task'[f].status = "done"
          BY <1>0, <2>1, <2>8, <4>2, <5>1, ReleasedDeps DEF MInv
        <5>3. task'[e].dependsOn = t[e].dependsOn
          BY <1>0, <4>1, <4>2 DEF Released, Unclaimed, TaskRecord
        <5>4. DepsDone(e)'
          BY <5>2, <5>3 DEF DepsDone, Created
        <5> QED BY <4>1, <4>2, <5>4 DEF RecordStep, Changed
      <4> QED BY <2>10, <4>1, <4>2 DEF RecordStep, Changed
    <3> QED BY <3>1, <3>2
  <2> QED BY <2>9, <2>10, <2>11 DEF StoreStep
<1>7. ASSUME NEW id \in TaskIDs, CancelTask(id) PROVE StoreStep
  <2> DEFINE e == tasksByID[id]
             t == [task EXCEPT ![e].status = "cancelled"]
  <2>1. e \in Created /\ hist' = hist /\ task[e].status \in {"pending", "running"}
    BY <1>7 DEF CancelTask, MInv, TypeOK
  <2>2. t \in [Created -> TaskRecord]
    BY <1>0, <2>1 DEF MInv, TypeOK, TaskRecord, Statuses
  <2>3. releaseDeps(t, alerted, task[e].agentID)
    BY <1>7 DEF CancelTask
  <2>4. /\ t[e] = [task[e] EXCEPT !.status = "cancelled"]
        /\ \A f \in Created : f # e => t[f] = task[f]
    BY <2>1 DEF MInv, TypeOK
  <2>5. t[e].status = "cancelled" /\ t[e].taskID = task[e].taskID
    BY <2>4, <2>1, <1>0 DEF TaskRecord
  <2>6. alerted \in SUBSET TaskIDs /\ task[e].agentID \in Agents /\ TypeOK
    BY <1>0, <2>1 DEF MInv, TypeOK
  <2> HIDE DEF t, e
  <2>7. /\ alerted \subseteq alerted'
        /\ \A f \in Created :
              \/ task'[f] = t[f]
              \/ t[f].status = "blocked" /\ task'[f] = Released(t[f])
              \/ /\ t[f].status = "blocked" /\ task'[f] = FailedUpstream(t[f])
                 /\ t[f].taskID \in alerted'
    BY <2>2, <2>3, <2>6, ReleaseShape
  <2>8. \A f \in Created : t[f].taskID = task[f].taskID
    BY <2>4, <2>5
  <2>9. ASSUME NEW f \in Created
        PROVE  RecordStep(f)
    <3>1. CASE f = e
      <4>1. task'[e] = [task[e] EXCEPT !.status = "cancelled"]
        BY <2>1, <2>4, <2>5, <2>7
      <4> QED BY <2>1, <3>1, <4>1 DEF RecordStep, Changed
    <3>2. CASE f # e
      <4>1. hist'[f] = hist[f] /\ t[f] = task[f]
        BY <2>1, <2>4, <3>2
      <4>2. CASE t[f].status = "blocked" /\ task'[f] = Released(t[f])
        <5>1. \A d \in t[f].dependsOn :
                 \E g \in Created : task'[g].taskID = d /\ task'[g].status = "done"
          BY <2>2, <2>3, <2>6, <2>8, <4>2, ReleasedDeps
        <5>2. task'[f].dependsOn = t[f].dependsOn
          BY <1>0, <4>1, <4>2 DEF Released, Unclaimed, TaskRecord
        <5>3. DepsDone(f)'
          BY <5>1, <5>2 DEF DepsDone, Created
        <5> QED BY <4>1, <4>2, <5>3 DEF RecordStep, Changed
      <4> QED BY <2>7, <4>1, <4>2 DEF RecordStep, Changed
    <3> QED BY <3>1, <3>2
  <2> QED BY <2>7, <2>9 DEF StoreStep
<1>8. ASSUME NEW id \in TaskIDs, ApproveTask(id) \/ RejectTask(id) PROVE StoreStep
  <2> DEFINE e == tasksByID[id]
  <2>1. /\ e \in Created /\ hist' = hist /\ alerted' = alerted
        /\ task[e].status = "pending_approval"
    BY <1>8 DEF ApproveTask, RejectTask, MInv, TypeOK
  <2>2. ASSUME NEW f \in Created
        PROVE  \/ task'[f] = task[f]
               \/ f = e /\ task'[f] = Approved(task[e])
               \/ f = e /\ task'[f] = [task[e] EXCEPT !.status = "rejected"]
    BY <1>8, <2>1 DEF ApproveTask, RejectTask, MInv, TypeOK
  <2> QED BY <2>1, <2>2 DEF StoreStep, RecordStep, Changed
<1>9. ASSUME NEW id \in TaskIDs, RetryDeadLetterTask(id) PROVE StoreStep
  <2> DEFINE e == tasksByID[id]
             g == [hist[e] EXCEPT !.base = task[e].claimEpoch, !.requeued = TRUE]
  <2>1. /\ e \in Created /\ task[e].status = "failed" /\ task[e].deadLetter
        /\ alerted' = alerted
    BY <1>9 DEF RetryDeadLetterTask, MInv, TypeOK
  <2>2. ASSUME NEW f \in Created
        PROVE  \/ task'[f] = task[f] /\ hist'[f] = hist[f]
               \/ f = e /\ task'[f] = Requeued(task[e]) /\ hist'[f] = g
    BY <1>9, <2>1 DEF RetryDeadLetterTask, MInv, TypeOK
  <2> QED BY <2>1, <2>2 DEF StoreStep, RecordStep, RequeuedByHand
<1> QED
  BY <1>1, <1>2, <1>3, <1>4, <1>5, <1>6, <1>7, <1>8, <1>9
  DEF Next, cleanupIdempotency, Heartbeat, HeartbeatLapses, DeleteTask

\* The life of every record stays or makes one move.
LivesStep ==
    \A e \in Created :
        \/ LifeOf(task'[e], hist'[e]) = LifeOf(task[e], hist[e])
        \/ Lifecycle!Move(LifeOf(task[e], hist[e]), LifeOf(task'[e], hist'[e]))

\* Operations that create no record move every life at most once.
LEMMA NextMoves ==
    ASSUME MInv, Next, n' = n
    PROVE  LivesStep
<1> SUFFICES ASSUME NEW e \in Created
             PROVE  \/ LifeOf(task'[e], hist'[e]) = LifeOf(task[e], hist[e])
                    \/ Lifecycle!Move(LifeOf(task[e], hist[e]), LifeOf(task'[e], hist'[e]))
  BY DEF LivesStep
<1>1. RecordStep(e)
  BY StepShape DEF StoreStep
<1>2. task[e] \in TaskRecord /\ hist[e] \in HistRecord
  BY DEF MInv, TypeOK
<1>3. CASE hist'[e] = hist[e] /\ task'[e] = [task[e] EXCEPT !.leaseOld = TRUE]
  BY <1>2, <1>3 DEF LifeOf, TaskRecord
<1>4. CASE hist'[e] = hist[e] /\ Changed(e)
  BY <1>2, <1>3, <1>4, OpMoves DEF Changed
<1>5. ASSUME NEW c \in Created, NEW success \in BOOLEAN, ReportedBy(e, c, success)
      PROVE  Lifecycle!Move(LifeOf(task[e], hist[e]), LifeOf(task'[e], hist'[e]))
  <2>1. hist'[e].base = hist[e].base
    BY <1>2, <1>5 DEF ReportedBy, HistRecord
  <2>2. LifeOf(task'[e], hist'[e]) = LifeOf(task'[e], hist[e])
    BY <2>1 DEF LifeOf
  <2>3. task[e].status = "running" /\ task'[e] = Reported(task[e], success)
    BY <1>5 DEF ReportedBy
  <2>4. Lifecycle!Move(LifeOf(task[e], hist[e]), LifeOf(Reported(task[e], success), hist[e]))
    BY <1>2, <2>3, OpMoves
  <2> QED BY <2>2, <2>3, <2>4
<1>6. CASE RequeuedByHand(e)
  <2> DEFINE g == [hist[e] EXCEPT !.base = task[e].claimEpoch, !.requeued = TRUE]
  <2>1. task[e].claimEpoch \in Nat
    BY <1>2 DEF TaskRecord
  <2>2. g \in HistRecord /\ g.base = task[e].claimEpoch
    BY <1>2, <2>1, HistOps DEF HistRecord
  <2>3. hist'[e] = g
    BY <1>6 DEF RequeuedByHand
  <2> HIDE DEF g
  <2> QED BY <1>2, <1>6, <2>2, <2>3, OpMoves DEF RequeuedByHand
<1> QED BY <1>1, <1>4, <1>5, <1>6 DEF RecordStep

\* Only CreateTask makes records.
LEMMA CreatesOrKeeps == Next => n' = n \/ \E s \in Specs : CreateTask(s)
BY DEF Next, cleanupIdempotency, ClaimTask, Heartbeat, HeartbeatLapses, LeaseExpires,
   ReclaimStaleTasks, SubmitResult, CancelTask, ApproveTask, RejectTask,
   RetryDeadLetterTask, DeleteTask

\* A record CreateTask makes has a fresh life.
LEMMA NewIsFresh ==
    ASSUME NEW s \in Specs
    PROVE  Lifecycle!Fresh(LifeOf(NewTask(s), NoHist))
BY SpecsAssumption, ApprovalAssumption
DEF Lifecycle!Fresh, LifeOf, NewTask, NoHist, InitialStatus, TaskSpec

\* Every step of the store is a step of TaskLifecycle, or none.
LEMMA StepSimulation ==
    ASSUME MInv, [Next]_vars, TypeOK'
    PROVE  [Lifecycle!Next]_<<n, [e \in Created |-> LifeOf(task[e], hist[e])]>>
<1> DEFINE life == [e \in Created |-> LifeOf(task[e], hist[e])]
<1>1. life' \in [1..n' -> Lifecycle!Life]
  BY LifeType DEF TypeOK, Created
<1>2. CASE UNCHANGED vars
  BY <1>2 DEF vars, Created
<1>3. CASE Next /\ n' = n
  <2>1. LivesStep
    BY <1>3, NextMoves
  <2>2. Lifecycle!Change
    BY <1>1, <1>3, <2>1 DEF Lifecycle!Change, LivesStep, Created
  <2> QED BY <2>2 DEF Lifecycle!Next
<1>4. ASSUME NEW s \in Specs, CreateTask(s)
      PROVE  Lifecycle!Create
  <2>1. n' = n + 1 /\ n \in Nat
    BY <1>4 DEF CreateTask, addTaskLocked, MInv, TypeOK
  <2>2. /\ \A e \in Created : task'[e] = task[e] /\ hist'[e] = hist[e]
        /\ task'[n + 1] = NewTask(s) /\ hist'[n + 1] = NoHist
    BY <1>4, <2>1 DEF CreateTask, addTaskLocked, Created
  <2>3. \A i \in 1..n : life'[i] = life[i]
    BY <2>1, <2>2 DEF Created
  <2>4. life'[n + 1] = LifeOf(NewTask(s), NoHist)
    BY <2>1, <2>2 DEF Created
  <2>5. Lifecycle!Fresh(life'[n + 1])
    BY <2>4, NewIsFresh
  <2> HIDE DEF life
  <2>6. life' \in [1..(n + 1) -> Lifecycle!Life]
    BY <1>1, <2>1
  <2> QED BY <2>1, <2>3, <2>5, <2>6 DEF Lifecycle!Create, life
<1> QED BY <1>2, <1>3, <1>4, CreatesOrKeeps DEF Lifecycle!Next

\* The invariant is inductive.
LEMMA MInvStep == MInv /\ [Next]_vars => MInv'
<1> SUFFICES ASSUME MInv, [Next]_vars PROVE MInv'
  OBVIOUS
<1> DEFINE life == [e \in Created |-> LifeOf(task[e], hist[e])]
<1>1. TypeOK'
  BY NextType DEF MInv
<1>2. life \in [1..n -> Lifecycle!Life] /\ life' \in [1..n' -> Lifecycle!Life]
  BY <1>1, LifeType DEF MInv, TypeOK, Created
<1>3. [Lifecycle!Next]_<<n, life>>
  BY <1>1, StepSimulation
<1>4. n \in Nat /\ \A i \in 1..n : Lifecycle!LifeOK(life[i])
  BY DEF MInv, LivesOK, Created, TypeOK
<1> HIDE DEF life
<1>5. ASSUME NEW i \in 1..n' PROVE Lifecycle!LifeOK(life'[i])
  <2>1. CASE UNCHANGED <<n, life>>
    BY <1>4, <2>1
  <2>2. CASE Lifecycle!Change
    <3>1. i \in 1..n /\ (life'[i] = life[i] \/ Lifecycle!Move(life[i], life'[i]))
      BY <2>2 DEF Lifecycle!Change, life
    <3> QED BY <1>2, <1>4, <3>1, LifeKept
  <2>3. CASE Lifecycle!Create
    <3>1. n' = n + 1 /\ Lifecycle!Fresh(life'[n + 1]) /\ \A k \in 1..n : life'[k] = life[k]
      BY <2>3 DEF Lifecycle!Create, life
    <3>2. Lifecycle!LifeOK(life'[n + 1])
      BY <1>2, <1>4, <3>1, FreshLife
    <3> QED BY <1>4, <3>1, <3>2
  <2> QED BY <1>3, <2>1, <2>2, <2>3 DEF Lifecycle!Next
<1> QED BY <1>1, <1>5 DEF MInv, LivesOK, life, Created

\* MemoryStore keeps MInv.
LEMMA MInvAlways == Spec => []MInv
<1>1. Init => MInv
  BY BoundsAssumption DEF Init, MInv, LivesOK, TypeOK, Created
<1> QED BY <1>1, MInvStep, PTL DEF Spec

\* MemoryStore implements TaskLifecycle: whatever operations run, in whatever
\* order, each task record makes one legal move at a time.
THEOREM Refinement == Spec => LifecycleKept
<1>1. Init => Lifecycle!Init
  BY DEF Init, Lifecycle!Init, Created
<1>2. MInv /\ [Next]_vars /\ TypeOK' =>
        [Lifecycle!Next]_<<n, [e \in Created |-> LifeOf(task[e], hist[e])]>>
  BY StepSimulation
<1> QED BY <1>1, <1>2, MInvAlways, TypeCorrect, PTL
        DEF Spec, LifecycleKept, Lifecycle!Spec

\* Between two requeues by hand a task starts at most MaxRetries + 1 times, for
\* any mix of failed reports, lost agents, late reports and cancellations.
THEOREM BoundedRuns == Spec => []RunsBounded
<1>1. MInv => RunsBounded
  <2> SUFFICES ASSUME MInv, NEW e \in Created
               PROVE  task[e].claimEpoch - hist[e].base <= task[e].maxRetries + 1
    BY DEF RunsBounded
  <2>1. task[e] \in TaskRecord /\ hist[e] \in HistRecord
    BY DEF MInv, TypeOK
  <2>2. Lifecycle!Accounted(LifeOf(task[e], hist[e]))
    BY DEF MInv, LivesOK, Lifecycle!LifeOK
  <2> QED BY <2>1, <2>2 DEF Lifecycle!Accounted, LifeOf, TaskRecord, HistRecord, Statuses
<1> QED BY <1>1, MInvAlways, PTL

\* No task that needs approval is ever claimed before ApproveTask.
THEOREM ApprovalFirst == Spec => []ApprovedBeforeRun
<1>1. MInv => ApprovedBeforeRun
  <2> SUFFICES ASSUME MInv, NEW e \in Created,
                      task[e].approvalRequired, task[e].claimEpoch > 0
               PROVE  task[e].approved
    BY DEF ApprovedBeforeRun
  <2>1. Lifecycle!Gated(LifeOf(task[e], hist[e]))
    BY DEF MInv, LivesOK, Lifecycle!LifeOK
  <2> QED BY <2>1 DEF Lifecycle!Gated, LifeOf
<1> QED BY <1>1, MInvAlways, PTL

\* No operation takes a finished task back, and a failed one only leaves for the
\* queue with a fresh budget.
THEOREM FinishedStays == Spec => TerminalStays
<1> DEFINE Stays == \A e \in Created :
              /\ task[e].status \in {"done", "cancelled", "rejected"} =>
                    task'[e].status = task[e].status
              /\ task[e].status = "failed" =>
                    \/ task'[e].status = "failed"
                    \/ /\ task'[e].status = "pending"
                       /\ task'[e].retryCount = 0 /\ ~task'[e].deadLetter
<1>1. MInv /\ [Next]_vars => [Stays]_vars
  <2> SUFFICES ASSUME MInv, Next PROVE Stays
    OBVIOUS
  <2>1. ASSUME NEW s \in Specs, CreateTask(s) PROVE Stays
    BY <2>1 DEF CreateTask, addTaskLocked, MInv, TypeOK, Created
  <2>2. CASE n' = n
    <3>1. LivesStep
      BY <2>2, NextMoves
    <3> SUFFICES ASSUME NEW e \in Created
                 PROVE  /\ task[e].status \in {"done", "cancelled", "rejected"} =>
                              task'[e].status = task[e].status
                        /\ task[e].status = "failed" =>
                              \/ task'[e].status = "failed"
                              \/ /\ task'[e].status = "pending"
                                 /\ task'[e].retryCount = 0 /\ ~task'[e].deadLetter
      OBVIOUS
    <3> DEFINE x == LifeOf(task[e], hist[e])
               y == LifeOf(task'[e], hist'[e])
    <3>2. /\ x.status = task[e].status /\ y.status = task'[e].status
          /\ y.retries = task'[e].retryCount /\ y.dead = task'[e].deadLetter
      BY DEF LifeOf
    <3>3. y = x \/ Lifecycle!Move(x, y)
      BY <3>1 DEF LivesStep
    <3> HIDE DEF x, y
    <3> QED BY <3>2, <3>3 DEF Lifecycle!Move, Lifecycle!Start, Lifecycle!Finish,
           Lifecycle!Retry, Lifecycle!GiveUp, Lifecycle!Cancel, Lifecycle!Approve,
           Lifecycle!Reject, Lifecycle!Release, Lifecycle!FailUpstream,
           Lifecycle!Requeue
  <2> QED BY <2>1, <2>2, CreatesOrKeeps
<1> QED BY <1>1, MInvAlways, PTL DEF Spec, TerminalStays
-----------------------------------------------------------------------------
(***************************************************************************)
(* Where reports come from, what is alerted, and what ran before.          *)
(***************************************************************************)
\* Two records share an ID only if a caller chose it.
UniqueIDs ==
    \A e, f \in Created : task[e].taskID = task[f].taskID /\ e # f =>
        task[e].taskID \in CallerIDs

\* A record that is past its dependencies, by itself and not by hand, has
\* dependencies that are done: only a record that waits, or was failed while it
\* waited, may have others.
DepsInOrder ==
    \A e \in Created :
        \/ hist[e].requeued
        \/ task[e].status = "blocked"
        \/ task[e].status = "failed" /\ task[e].claimEpoch = 0
        \/ DepsDone(e)

HInv == MInv /\ UniqueIDs /\ DoneByHolder /\ DeadLetterVisible /\ DepsInOrder

\* What no operation changes of a record, and of a record that is done.
LEMMA StepKeeps ==
    ASSUME TypeOK, NEW e \in Created, RecordStep(e)
    PROVE  /\ task'[e].taskID = task[e].taskID /\ task'[e].agentID = task[e].agentID
           /\ task'[e].dependsOn = task[e].dependsOn
           /\ hist[e].requeued => hist'[e].requeued
           /\ task[e].status = "done" =>
                 /\ task'[e].status = "done" /\ hist'[e] = hist[e]
                 /\ task'[e].claimEpoch = task[e].claimEpoch
<1>1. task[e] \in TaskRecord /\ hist[e] \in HistRecord
  BY DEF TypeOK
<1>2. CASE hist'[e] = hist[e] /\ task'[e] = task[e]
  BY <1>2
<1>3. CASE hist'[e] = hist[e] /\ Changed(e)
  BY <1>1, <1>3 DEF Changed, TaskRecord, Claimed, Reclaimed, Released, FailedUpstream,
     Approved, Unclaimed
<1>4. ASSUME NEW c \in Created, NEW success \in BOOLEAN, ReportedBy(e, c, success)
      PROVE  /\ task'[e].taskID = task[e].taskID /\ task'[e].agentID = task[e].agentID
             /\ task'[e].dependsOn = task[e].dependsOn
             /\ hist'[e].requeued = hist[e].requeued
             /\ task[e].status # "done"
  BY <1>1, <1>4 DEF ReportedBy, TaskRecord, HistRecord, Reported, Unclaimed
<1>5. CASE RequeuedByHand(e)
  BY <1>1, <1>5 DEF RequeuedByHand, TaskRecord, HistRecord, Requeued, Unclaimed
<1> QED BY <1>2, <1>3, <1>4, <1>5 DEF RecordStep

\* A record becomes done through a report only.
LEMMA BecomesDone ==
    ASSUME TypeOK, NEW e \in Created, RecordStep(e),
           task[e].status # "done", task'[e].status = "done"
    PROVE  \E c \in Created :
              /\ hist'[e].from = <<c, task[e].claimEpoch>>
              /\ task'[e].claimEpoch = task[e].claimEpoch
              /\ task[c].taskID = task[e].taskID /\ task[c].agentID = task[e].agentID
<1>1. task[e] \in TaskRecord /\ hist[e] \in HistRecord
  BY DEF TypeOK
<1>2. ~Changed(e)
  BY <1>1 DEF Changed, TaskRecord, Claimed, Reclaimed, Released, FailedUpstream, Approved,
     Unclaimed
<1>3. ~RequeuedByHand(e)
  BY <1>1 DEF RequeuedByHand, TaskRecord, Requeued, Unclaimed
<1>4. PICK c \in Created, success \in BOOLEAN : ReportedBy(e, c, success)
  BY <1>2, <1>3 DEF RecordStep
<1>5. task'[e].claimEpoch = task[e].claimEpoch
  BY <1>1, <1>4 DEF ReportedBy, TaskRecord, Reported, Unclaimed
<1>6. hist'[e].from = <<c, task[e].claimEpoch>>
  BY <1>1, <1>4 DEF ReportedBy, HistRecord
<1> QED BY <1>4, <1>5, <1>6 DEF ReportedBy

\* Whatever puts a record among the dead letters also raises the alert.
LEMMA BecomesDead ==
    ASSUME TypeOK, NEW e \in Created, RecordStep(e),
           ~task[e].deadLetter, task'[e].deadLetter
    PROVE  task[e].taskID \in alerted'
<1>1. task[e] \in TaskRecord
  BY DEF TypeOK
<1>2. CASE Changed(e)
  BY <1>1, <1>2 DEF Changed, TaskRecord, Claimed, Released, Approved, Unclaimed
<1>3. CASE \E c \in Created, success \in BOOLEAN : ReportedBy(e, c, success)
  BY <1>3 DEF ReportedBy
<1>4. ~RequeuedByHand(e)
  BY DEF RequeuedByHand
<1> QED BY <1>2, <1>3, <1>4 DEF RecordStep

\* A record leaves the blocked state released, with its dependencies done, or
\* failed without a run; and it is failed without a run only from there.
LEMMA DepsStep ==
    ASSUME TypeOK, NEW e \in Created, RecordStep(e),
           Lifecycle!LifeOK(LifeOf(task[e], hist[e]))
    PROVE  \/ hist'[e].requeued
           \/ DepsDone(e)'
           \/ task[e].status = "blocked" /\ task'[e].status = "blocked"
           \/ task'[e].status = "failed" /\ task'[e].claimEpoch = 0
           \/ task[e].status \notin {"blocked", "failed"}
           \/ task[e].status = "failed" /\ task[e].claimEpoch > 0
<1>1. task[e] \in TaskRecord /\ hist[e] \in HistRecord
  BY DEF TypeOK
<1>2. task[e].status = "blocked" => task[e].claimEpoch = 0
  BY DEF Lifecycle!LifeOK, Lifecycle!Gated, LifeOf
<1>3. CASE task[e].status = "blocked"
  <2>1. ASSUME Changed(e) PROVE \/ DepsDone(e)'
                                \/ task'[e].status = "blocked"
                                \/ task'[e].status = "failed" /\ task'[e].claimEpoch = 0
    BY <1>1, <1>2, <1>3, <2>1 DEF Changed, TaskRecord, FailedUpstream, Unclaimed
  <2> QED BY <1>3, <2>1 DEF RecordStep, ReportedBy, RequeuedByHand
<1>4. CASE task[e].status = "failed" /\ task[e].claimEpoch = 0
  <2>1. ASSUME Changed(e) PROVE task'[e].status = "failed" /\ task'[e].claimEpoch = 0
    BY <1>1, <1>4, <2>1 DEF Changed, TaskRecord
  <2>2. ASSUME RequeuedByHand(e) PROVE hist'[e].requeued
    BY <1>1, <2>2 DEF RequeuedByHand, HistRecord
  <2> QED BY <1>4, <2>1, <2>2 DEF RecordStep, ReportedBy
<1> QED BY <1>1, <1>3, <1>4 DEF TaskRecord

\* An operation that creates no record keeps the invariant.
LEMMA HInvChange ==
    ASSUME HInv, MInv', Next, n' = n
    PROVE  HInv'
<1>0. MInv /\ TypeOK /\ Created' = Created
  BY DEF HInv, MInv, Created
<1>1. StoreStep
  BY <1>0, StepShape
<1>2. \A e \in Created : RecordStep(e)
  BY <1>1 DEF StoreStep
<1>3. ASSUME NEW e \in Created
      PROVE  /\ task'[e].taskID = task[e].taskID /\ task'[e].agentID = task[e].agentID
             /\ task'[e].dependsOn = task[e].dependsOn
             /\ hist[e].requeued => hist'[e].requeued
             /\ task[e].status = "done" =>
                   /\ task'[e].status = "done" /\ hist'[e] = hist[e]
                   /\ task'[e].claimEpoch = task[e].claimEpoch
  BY <1>0, <1>2, StepKeeps
<1>4. UniqueIDs'
  BY <1>0, <1>3 DEF HInv, UniqueIDs
<1>5. DoneByHolder'
  <2> SUFFICES ASSUME NEW e \in Created, task'[e].status = "done"
               PROVE  /\ hist'[e].from[2] = task'[e].claimEpoch
                      /\ \E c \in Created :
                            /\ hist'[e].from[1] = c
                            /\ task'[c].taskID = task'[e].taskID
                            /\ task'[c].agentID = task'[e].agentID
                            /\ c # e => task'[e].taskID \in CallerIDs
    BY <1>0 DEF DoneByHolder
  <2>1. CASE task[e].status = "done"
    <3>1. PICK c \in Created : /\ hist[e].from[1] = c
                               /\ task[c].taskID = task[e].taskID
                               /\ task[c].agentID = task[e].agentID
                               /\ c # e => task[e].taskID \in CallerIDs
      BY <2>1 DEF HInv, DoneByHolder
    <3>2. hist[e].from[2] = task[e].claimEpoch
      BY <2>1 DEF HInv, DoneByHolder
    <3>3. hist'[e] = hist[e] /\ task'[e].claimEpoch = task[e].claimEpoch
      BY <1>3, <2>1
    <3> QED BY <1>3, <3>1, <3>2, <3>3
  <2>2. CASE task[e].status # "done"
    <3>1. PICK c \in Created :
              /\ hist'[e].from = <<c, task[e].claimEpoch>>
              /\ task'[e].claimEpoch = task[e].claimEpoch
              /\ task[c].taskID = task[e].taskID /\ task[c].agentID = task[e].agentID
      BY <1>0, <1>2, <2>2, BecomesDone
    <3>2. c # e => task[e].taskID \in CallerIDs
      BY <3>1 DEF HInv, UniqueIDs
    <3> QED BY <1>3, <3>1, <3>2
  <2> QED BY <2>1, <2>2
<1>6. DeadLetterVisible'
  <2>1. ASSUME NEW e \in Created
        PROVE  /\ (task'[e].status = "failed") <=> task'[e].deadLetter
               /\ task'[e].deadLetter => task'[e].taskID \in alerted'
    <3>1. (task'[e].status = "failed") <=> task'[e].deadLetter
      BY <1>0 DEF MInv, LivesOK, Lifecycle!LifeOK, LifeOf
    <3>2. CASE task[e].deadLetter
      BY <1>1, <1>3, <3>1, <3>2 DEF HInv, DeadLetterVisible, StoreStep
    <3>3. CASE ~task[e].deadLetter
      BY <1>0, <1>2, <1>3, <3>1, <3>3, BecomesDead
    <3> QED BY <3>2, <3>3
  <2> QED BY <1>0, <2>1 DEF DeadLetterVisible
<1>7. DepsInOrder'
  <2>1. ASSUME NEW e \in Created, DepsDone(e) PROVE DepsDone(e)'
    BY <1>0, <1>3, <2>1 DEF DepsDone
  <2> SUFFICES ASSUME NEW e \in Created
               PROVE  \/ hist'[e].requeued
                      \/ task'[e].status = "blocked"
                      \/ task'[e].status = "failed" /\ task'[e].claimEpoch = 0
                      \/ DepsDone(e)'
    BY <1>0 DEF DepsInOrder
  <2>2. Lifecycle!LifeOK(LifeOf(task[e], hist[e]))
    BY <1>0 DEF MInv, LivesOK
  <2>3. task[e].claimEpoch \in Nat
    BY <1>0 DEF TypeOK, TaskRecord
  <2> QED BY <1>0, <1>2, <1>3, <2>1, <2>2, <2>3, DepsStep DEF HInv, DepsInOrder
<1> QED BY <1>4, <1>5, <1>6, <1>7 DEF HInv

\* So does CreateTask: the ID is fresh or the caller's, and a task that has
\* dependencies waits for them.
LEMMA HInvCreate ==
    ASSUME HInv, MInv', NEW s \in Specs, CreateTask(s)
    PROVE  HInv'
<1>0. TypeOK /\ n \in Nat
  BY BoundsAssumption DEF HInv, MInv, TypeOK
<1>1. /\ n' = n + 1 /\ alerted' = alerted
      /\ task' = [e \in 1..(n + 1) |-> IF e \in Created THEN task[e] ELSE NewTask(s)]
      /\ hist' = [e \in 1..(n + 1) |-> IF e \in Created THEN hist[e] ELSE NoHist]
  BY DEF CreateTask, addTaskLocked
<1>2. /\ Created' = Created \cup {n + 1} /\ n + 1 \notin Created
      /\ \A e \in Created : task'[e] = task[e] /\ hist'[e] = hist[e]
      /\ task'[n + 1] = NewTask(s) /\ hist'[n + 1] = NoHist
  BY <1>0, <1>1 DEF Created
<1>3. /\ NewTask(s).taskID = s.taskID /\ NewTask(s).status = InitialStatus(s)
      /\ NewTask(s).deadLetter = FALSE /\ NewTask(s).dependsOn = s.dependsOn
  BY DEF NewTask
<1>4. /\ InitialStatus(s) \in {"blocked", "pending", "pending_approval"}
      /\ InitialStatus(s) = "blocked" \/ s.dependsOn = {}
  BY DEF InitialStatus
<1>5. UniqueIDs'
  <2>1. s.taskID \in CallerIDs \/ \A e \in Created : task[e].taskID # s.taskID
    BY DEF CreateTask
  <2> QED BY <1>2, <1>3, <2>1 DEF HInv, UniqueIDs
<1>6. DoneByHolder'
  BY <1>2, <1>3, <1>4 DEF HInv, DoneByHolder
<1>7. DeadLetterVisible'
  BY <1>1, <1>2, <1>3, <1>4 DEF HInv, DeadLetterVisible
<1>8. DepsInOrder'
  <2>1. ASSUME NEW e \in Created, DepsDone(e) PROVE DepsDone(e)'
    BY <1>2, <2>1 DEF DepsDone
  <2>2. PICK k : k = n + 1
    OBVIOUS
  <2>3. task'[k].status = "blocked" \/ DepsDone(k)'
    BY <1>2, <1>3, <1>4, <2>2 DEF DepsDone
  <2>4. Created' = Created \cup {k}
    BY <1>2, <2>2
  <2> QED BY <1>2, <2>1, <2>3, <2>4 DEF HInv, DepsInOrder
<1> QED BY <1>5, <1>6, <1>7, <1>8 DEF HInv

\* MemoryStore keeps HInv.
LEMMA HInvAlways == Spec => []HInv
<1>1. Init => HInv
  BY BoundsAssumption DEF Init, HInv, MInv, LivesOK, TypeOK, UniqueIDs, DoneByHolder,
     DeadLetterVisible, DepsInOrder, Created
<1>2. HInv /\ [Next]_vars => HInv'
  <2> SUFFICES ASSUME HInv, [Next]_vars PROVE HInv'
    OBVIOUS
  <2>1. MInv'
    BY MInvStep DEF HInv
  <2>2. CASE UNCHANGED vars
    BY <2>1, <2>2 DEF vars, HInv, UniqueIDs, DoneByHolder, DeadLetterVisible, DepsInOrder,
       DepsDone, Created
  <2>3. CASE Next
    BY <2>1, <2>3, CreatesOrKeeps, HInvChange, HInvCreate
  <2> QED BY <2>2, <2>3
<1> QED BY <1>1, <1>2, PTL DEF Spec

\* A task is done only through the report of its current claim; a report of an
\* earlier claim, late or repeated, or of another task never completes it.
THEOREM HolderFinishes == Spec => []DoneByHolder
<1>1. HInv => DoneByHolder
  BY DEF HInv
<1> QED BY <1>1, HInvAlways, PTL

\* Every failed task is among the dead letters, with its alert, and no other is.
THEOREM FailuresVisible == Spec => []DeadLetterVisible
<1>1. HInv => DeadLetterVisible
  BY DEF HInv
<1> QED BY <1>1, HInvAlways, PTL

\* No task starts before its dependencies are done, unless it was requeued by
\* hand: for workflows of any shape, and IDs that are used again.
THEOREM DependenciesFirst == Spec => []DepsDoneBeforeRun
<1>1. HInv => DepsDoneBeforeRun
  <2> SUFFICES ASSUME HInv, NEW e \in Created, task[e].claimEpoch > 0, ~hist[e].requeued
               PROVE  DepsDone(e)
    BY DEF DepsDoneBeforeRun, DepsDone
  <2>1. Lifecycle!Gated(LifeOf(task[e], hist[e]))
    BY DEF HInv, MInv, LivesOK, Lifecycle!LifeOK
  <2>2. task[e].status # "blocked"
    BY <2>1 DEF Lifecycle!Gated, LifeOf
  <2> QED BY <2>2 DEF HInv, DepsInOrder
<1> QED BY <1>1, HInvAlways, PTL
-----------------------------------------------------------------------------
(***************************************************************************)
(* No waiting task is left behind by the step that ends its dependencies.  *)
(***************************************************************************)
\* A task is created after the tasks it waits for: nothing releases a task
\* created after they have ended, and the pass of releaseDeps goes by age.
InOrder == \A s \in Specs : s.dependsOn \subseteq s.after
\* A task that waits is not created again under its ID.
WaitersOnce == \A s \in Specs : s.taskID \in CallerIDs => s.dependsOn = {}
\* No task that others wait for needs an approval: RejectTask releases nothing.
Outright == \A s, t \in Specs : s.taskID \in t.dependsOn => ~s.approvalRequired

\* A record has the terms of a request, and waits only where they say so.
AsAsked ==
    \A e \in Created :
        /\ \E s \in Specs :
              /\ task[e].taskID = s.taskID /\ task[e].dependsOn = s.dependsOn
              /\ task[e].approvalRequired = s.approvalRequired
        /\ task[e].status = "blocked" => task[e].dependsOn # {}
        /\ task[e].status = "pending_approval" => task[e].approvalRequired

\* The dependencies of a record are older than the record.
DepsBefore ==
    \A e \in Created : \A d \in task[e].dependsOn :
        \E g \in Created : g < e /\ task[g].taskID = d

WInv == HInv /\ AsAsked /\ DepsBefore

\* Of the records t in the slices S, f is the one the byID map of agent a keeps
\* for this ID; it has ended.
Newest(S, t, a, id, f) ==
    /\ f \in S /\ t[f].agentID = a /\ t[f].taskID = id
    /\ \A g \in S : t[g].agentID = a /\ t[g].taskID = id => g <= f
EndedIn(S, t, st, a, id) == \E f \in S : Newest(S, t, a, id, f) /\ isTerminalStatus(st[f])

\* A lookup of the greatest record of an ID finds an end iff the newest has ended.
LEMMA LookupTop ==
    ASSUME NEW S, S \subseteq Nat, NEW t, NEW st, NEW a, NEW id, NEW same, NEW c, NEW v,
           \A e : e \in same <=> e \in S /\ t[e].agentID = a /\ t[e].taskID = id,
           same = {} => v = Missing,
           same # {} => v = st[c] /\ c \in same /\ \A f \in same : f <= c
    PROVE  isTerminalStatus(v) <=> EndedIn(S, t, st, a, id)
<1>1. \A f : Newest(S, t, a, id, f) <=> f \in same /\ \A g \in same : g <= f
  BY DEF Newest
<1>2. CASE same = {}
  BY <1>1, <1>2 DEF EndedIn, isTerminalStatus, Missing
<1>3. CASE same # {}
  <2>0. c \in same /\ same \subseteq Nat /\ \A f \in same : f <= c
    BY <1>3
  <2>1. ASSUME NEW f \in same, \A g \in same : g <= f PROVE f = c
    <3>1. f <= c /\ c <= f /\ f \in Nat /\ c \in Nat
      BY <2>0, <2>1
    <3> QED BY <3>1
  <2>2. \A f : Newest(S, t, a, id, f) <=> f = c
    BY <1>1, <2>0, <2>1
  <2>3. c \in S /\ v = st[c]
    BY <1>3
  <2> QED BY <2>2, <2>3, Zenon DEF EndedIn
<1> QED BY <1>2, <1>3

\* The record chosen for an ID.
LEMMA GreatestChosen ==
    ASSUME NEW m \in Nat, NEW S, S \subseteq 1..m, S # {},
           NEW c, c = CHOOSE e \in S : \A f \in S : f <= e
    PROVE  c \in S /\ \A f \in S : f <= c
<1>1. \E x \in S : \A y \in S : y <= x
  BY GreatestUpTo
<1> QED BY <1>1

\* LookupIn as a function of the slices and the records it reads.
Lookup(S, t, a, st) ==
    [id \in TaskIDs |->
        LET same == {e \in {f \in S : t[f].agentID = a} : t[e].taskID = id}
        IN  IF same = {} THEN Missing ELSE st[CHOOSE e \in same : \A f \in same : f <= e]]

\* So does the byID map.
LEMMA LookupEnds ==
    ASSUME NEW m \in Nat, NEW S, S \subseteq 1..m, NEW t, NEW st, NEW a, NEW id \in TaskIDs
    PROVE  isTerminalStatus(Lookup(S, t, a, st)[id]) <=> EndedIn(S, t, st, a, id)
<1>1. PICK same : same = {e \in {f \in S : t[f].agentID = a} : t[e].taskID = id}
  OBVIOUS
<1>2. PICK c : c = CHOOSE e \in same : \A f \in same : f <= e
  OBVIOUS
<1>3. Lookup(S, t, a, st)[id] = IF same = {} THEN Missing ELSE st[c]
  BY <1>1, <1>2 DEF Lookup
<1>4. same \subseteq S
  BY <1>1
<1>5. S \subseteq Nat /\ same \subseteq 1..m
  BY <1>4
<1>6. same # {} => c \in same /\ \A f \in same : f <= c
  BY <1>2, <1>5, GreatestChosen, Zenon
<1>7. \A e : e \in same <=> e \in S /\ t[e].agentID = a /\ t[e].taskID = id
  BY <1>1
<1>8. PICK v : v = Lookup(S, t, a, st)[id]
  OBVIOUS
<1>9. /\ same = {} => v = Missing
      /\ same # {} => v = st[c] /\ c \in same /\ \A f \in same : f <= c
  BY <1>3, <1>6, <1>8
<1>10. isTerminalStatus(v) <=> EndedIn(S, t, st, a, id)
  BY <1>5, <1>7, <1>9, LookupTop, Zenon
<1> QED BY <1>8, <1>10

\* What Resolvable says, before a step and after it.
LEMMA ResolvableNow ==
    ASSUME TypeOK, NEW e \in Created, NEW a, a = task[e].agentID,
           NEW st, st = [f \in Created |-> task[f].status]
    PROVE  Resolvable(e) <=> /\ e \in listed /\ task[e].status = "blocked"
                             /\ \A d \in task[e].dependsOn : EndedIn(listed, task, st, a, d)
<1>1. task[e].dependsOn \subseteq TaskIDs
  BY DEF TypeOK, TaskRecord
<1>2. n \in Nat /\ listed \subseteq 1..n
  BY BoundsAssumption DEF TypeOK, Created
<1>3. LookupIn(a, st) = Lookup(listed, task, a, st)
  BY DEF LookupIn, TasksOf, Lookup
<1>4. \A d \in task[e].dependsOn :
        isTerminalStatus(Lookup(listed, task, a, st)[d]) <=> EndedIn(listed, task, st, a, d)
  BY <1>1, <1>2, LookupEnds
<1> QED BY <1>3, <1>4 DEF Resolvable, AllDepsTerminal

\* The same after a step.
LEMMA ResolvableNext ==
    ASSUME TypeOK', NEW e \in Created', NEW a, a = task'[e].agentID,
           NEW st, st = [f \in Created' |-> task'[f].status], Resolvable(e)'
    PROVE  /\ e \in listed' /\ task'[e].status = "blocked"
           /\ \A d \in task'[e].dependsOn : EndedIn(listed', task', st, a, d)
<1>1. task'[e].dependsOn \subseteq TaskIDs
  BY DEF TypeOK, TaskRecord
<1>2. n' \in Nat /\ listed' \subseteq 1..n'
  BY BoundsAssumption DEF TypeOK, Created
<1>3. /\ e \in listed' /\ task'[e].status = "blocked"
      /\ AllDepsTerminal(task'[e].dependsOn, Lookup(listed', task', a, st))
  BY DEF Resolvable, LookupIn, TasksOf, Lookup
<1>4. \A d \in task'[e].dependsOn :
        isTerminalStatus(Lookup(listed', task', a, st)[d]) <=> EndedIn(listed', task', st, a, d)
  BY <1>1, <1>2, LookupEnds
<1> QED BY <1>3, <1>4 DEF AllDepsTerminal

\* No younger record under the ID of a dependency waits.
LEMMA NoLaterWaiter ==
    ASSUME WaitersOnce, WInv, NEW e \in Created, NEW f \in Created, e < f,
           task[f].taskID \in task[e].dependsOn
    PROVE  task[f].status # "blocked"
<1>1. PICK g \in Created : g < e /\ task[g].taskID = task[f].taskID
  BY DEF WInv, DepsBefore
<1>2. n \in Nat /\ g # f
  BY <1>1 DEF Created, WInv, HInv, MInv, TypeOK
<1>3. task[f].taskID \in CallerIDs
  BY <1>1, <1>2 DEF WInv, HInv, UniqueIDs
<1>4. task[f].dependsOn = {}
  BY <1>3 DEF WInv, AsAsked, WaitersOnce
<1> QED BY <1>4 DEF WInv, AsAsked

\* A pass over the slice of an agent decides every waiting record of that agent
\* whose dependencies have ended once the pass is over: those older than the
\* record are settled when the pass reaches it.
LEMMA PassDecides ==
    ASSUME TypeOK, TypeOK', n' = n, listed' = listed, NEW a,
           NEW t \in [Created -> TaskRecord], NEW al, releaseDeps(t, al, a),
           \A f \in Created : t[f].taskID = task[f].taskID /\ t[f].agentID = task[f].agentID,
           NEW e \in Created, task[e].agentID = a, Resolvable(e)',
           \A f \in Created : e < f /\ task[f].taskID \in t[e].dependsOn => t[f].status # "blocked"
    PROVE  FALSE
<1> DEFINE blocked == {f \in TasksOf(a) : t[f].status = "blocked"}
<1>1. PICK rel \in SUBSET blocked, fld \in SUBSET blocked :
        /\ IsReleasePass(t, a, rel, fld)
        /\ task' = [f \in Created |-> IF f \in rel THEN Released(t[f])
                                      ELSE IF f \in fld THEN FailedUpstream(t[f])
                                      ELSE t[f]]
  BY DEF releaseDeps
<1>2. ASSUME NEW f \in Created
      PROVE  /\ task'[f].taskID = task[f].taskID /\ task'[f].agentID = task[f].agentID
             /\ task'[f].dependsOn = t[f].dependsOn
             /\ f \in rel => task'[f].status = "pending"
             /\ f \notin rel /\ f \in fld => task'[f].status = "failed"
             /\ f \notin rel /\ f \notin fld => task'[f].status = t[f].status
  <2>1. t[f] \in TaskRecord
    OBVIOUS
  <2> QED BY <1>1, <2>1 DEF Released, FailedUpstream, Unclaimed, TaskRecord
<1>3. Created' = Created /\ n \in Nat /\ listed \subseteq Created /\ Created \subseteq Nat
  BY DEF Created, TypeOK
<1>4. PICK st : st = [f \in Created |-> task'[f].status]
  OBVIOUS
<1>5. /\ e \in listed /\ task'[e].status = "blocked"
      /\ \A d \in task'[e].dependsOn : EndedIn(listed, task', st, a, d)
  BY <1>2, <1>3, <1>4, ResolvableNext
<1>6. e \notin rel /\ e \notin fld /\ t[e].status = "blocked" /\ e \in blocked
  BY <1>2, <1>5 DEF TasksOf
<1>7. PICK seen : seen = [f \in Created |-> IF f < e /\ f \in rel THEN "pending"
                                            ELSE IF f < e /\ f \in fld THEN "failed"
                                            ELSE t[f].status]
  OBVIOUS
<1>8. ~AllDepsTerminal(t[e].dependsOn, LookupIn(a, seen))
  BY <1>1, <1>6, <1>7 DEF IsReleasePass
<1>9. LookupIn(a, seen) = Lookup(listed, task, a, seen)
  BY DEF LookupIn, TasksOf, Lookup
<1>10. PICK d \in t[e].dependsOn : ~isTerminalStatus(Lookup(listed, task, a, seen)[d])
  BY <1>8, <1>9 DEF AllDepsTerminal
<1>11. d \in TaskIDs
  BY DEF TaskRecord
<1>12. ~EndedIn(listed, task, seen, a, d)
  BY <1>3, <1>10, <1>11, LookupEnds DEF Created
<1>13. EndedIn(listed, task', st, a, d)
  BY <1>2, <1>5
<1>14. PICK f \in listed : Newest(listed, task', a, d, f) /\ isTerminalStatus(st[f])
  BY <1>13 DEF EndedIn
<1>15. f \in Created /\ Newest(listed, task, a, d, f) /\ task[f].taskID = d
  BY <1>2, <1>3, <1>14 DEF Newest
<1>16. ~isTerminalStatus(seen[f])
  BY <1>12, <1>14, <1>15 DEF EndedIn
<1>17. isTerminalStatus(task'[f].status)
  BY <1>4, <1>14, <1>15
<1>18. f \notin rel
  BY <1>2, <1>15, <1>17 DEF isTerminalStatus
<1>19. f \in fld /\ ~(f < e)
  <2>1. seen[f] = IF f < e /\ f \in fld THEN "failed" ELSE t[f].status
    BY <1>7, <1>15, <1>18
  <2>2. isTerminalStatus("failed")
    BY DEF isTerminalStatus
  <2> QED BY <1>2, <1>15, <1>16, <1>17, <1>18, <2>1, <2>2
<1>20. e < f
  BY <1>3, <1>6, <1>15, <1>19
<1>21. t[f].status = "blocked"
  BY <1>1, <1>19
<1> QED BY <1>15, <1>20, <1>21

\* Where the newest records end no dependency in this step, a waiting record
\* whose dependencies have ended was one before.
LEMMA SameNewest ==
    ASSUME TypeOK, TypeOK', n' = n, listed' = listed, NEW e \in Created, Resolvable(e)',
           task[e].status = "blocked",
           \A f \in Created : /\ task'[f].taskID = task[f].taskID
                              /\ task'[f].agentID = task[f].agentID
                              /\ task'[f].dependsOn = task[f].dependsOn,
           NEW a, a = task[e].agentID,
           \A d \in task[e].dependsOn, f \in Created :
              Newest(listed, task, a, d, f) /\ isTerminalStatus(task'[f].status) =>
                 isTerminalStatus(task[f].status)
    PROVE  Resolvable(e)
<1>1. Created' = Created /\ listed \subseteq Created
  BY DEF Created, TypeOK
<1>2. PICK st : st = [f \in Created |-> task[f].status]
  OBVIOUS
<1>3. PICK x : x = [f \in Created |-> task'[f].status]
  OBVIOUS
<1>4. /\ e \in listed
      /\ \A d \in task[e].dependsOn : EndedIn(listed, task', x, a, d)
  BY <1>1, <1>3, ResolvableNext
<1>5. ASSUME NEW d \in task[e].dependsOn PROVE EndedIn(listed, task, st, a, d)
  <2>1. PICK f \in listed : Newest(listed, task', a, d, f) /\ isTerminalStatus(x[f])
    BY <1>4 DEF EndedIn
  <2>2. Newest(listed, task, a, d, f) /\ f \in Created
    BY <1>1, <2>1 DEF Newest
  <2>3. isTerminalStatus(task[f].status)
    BY <1>3, <2>1, <2>2
  <2>4. isTerminalStatus(st[f])
    BY <1>2, <2>2, <2>3
  <2> QED BY <2>2, <2>4 DEF EndedIn
<1> QED BY <1>2, <1>4, <1>5, ResolvableNow

\* No operation makes a record wait, for a dependency or for an approval.
LEMMA NeverWaitsAgain ==
    ASSUME TypeOK, NEW e \in Created, RecordStep(e)
    PROVE  /\ task'[e].approvalRequired = task[e].approvalRequired
           /\ task'[e].status = "blocked" => task[e].status = "blocked"
           /\ task'[e].status = "pending_approval" => task[e].status = "pending_approval"
<1>1. task[e] \in TaskRecord
  BY DEF TypeOK
<1>2. CASE task'[e] = task[e]
  BY <1>2
<1>3. CASE Changed(e)
  BY <1>1, <1>3 DEF Changed, TaskRecord, Claimed, Reclaimed, Released, FailedUpstream,
     Approved, Unclaimed
<1>4. ASSUME NEW c \in Created, NEW success \in BOOLEAN, ReportedBy(e, c, success)
      PROVE  /\ task'[e].approvalRequired = task[e].approvalRequired
             /\ task'[e].status \notin {"blocked", "pending_approval"}
  BY <1>1, <1>4 DEF ReportedBy, TaskRecord, Reported, Unclaimed
<1>5. CASE RequeuedByHand(e)
  BY <1>1, <1>5 DEF RequeuedByHand, TaskRecord, Requeued, Unclaimed
<1> QED BY <1>2, <1>3, <1>4, <1>5 DEF RecordStep

\* An operation that creates no record keeps WInv.
LEMMA WInvChange ==
    ASSUME WInv, MInv', Next, n' = n
    PROVE  WInv'
<1>0. MInv /\ TypeOK /\ HInv /\ Created' = Created
  BY DEF WInv, HInv, MInv, Created
<1>1. \A e \in Created : RecordStep(e)
  BY <1>0, StepShape DEF StoreStep
<1>2. ASSUME NEW e \in Created
      PROVE  /\ task'[e].taskID = task[e].taskID /\ task'[e].dependsOn = task[e].dependsOn
             /\ task'[e].approvalRequired = task[e].approvalRequired
             /\ task'[e].status = "blocked" => task[e].status = "blocked"
             /\ task'[e].status = "pending_approval" => task[e].status = "pending_approval"
  BY <1>0, <1>1, StepKeeps, NeverWaitsAgain
<1>3. HInv'
  BY <1>0, HInvChange
<1>4. AsAsked'
  BY <1>0, <1>2 DEF WInv, AsAsked
<1>5. DepsBefore'
  BY <1>0, <1>2 DEF WInv, DepsBefore
<1> QED BY <1>3, <1>4, <1>5 DEF WInv

\* What CreateTask adds.
LEMMA CreateAdds ==
    ASSUME TypeOK, NEW s \in Specs, CreateTask(s), NEW k, k = n + 1
    PROVE  /\ n \in Nat /\ Created' = Created \cup {k} /\ k \notin Created
           /\ Created \subseteq Nat /\ \A e \in Created : e < k
           /\ \A e \in Created : task'[e] = task[e]
           /\ listed' = listed \cup {k}
           /\ task'[k].taskID = s.taskID /\ task'[k].dependsOn = s.dependsOn
           /\ task'[k].approvalRequired = s.approvalRequired
           /\ task'[k].status = InitialStatus(s)
<1>0. n \in Nat
  BY BoundsAssumption DEF TypeOK
<1>1. /\ n' = n + 1 /\ listed' = listed \cup {n + 1}
      /\ task' = [e \in 1..(n + 1) |-> IF e \in Created THEN task[e] ELSE NewTask(s)]
  BY DEF CreateTask, addTaskLocked
<1>2. /\ Created' = Created \cup {k} /\ k \notin Created
      /\ Created \subseteq Nat /\ \A e \in Created : e < k
      /\ \A e \in Created : task'[e] = task[e]
      /\ task'[k] = NewTask(s)
  BY <1>0, <1>1 DEF Created
<1>3. /\ NewTask(s).taskID = s.taskID /\ NewTask(s).status = InitialStatus(s)
      /\ NewTask(s).approvalRequired = s.approvalRequired
      /\ NewTask(s).dependsOn = s.dependsOn
  BY DEF NewTask
<1> QED BY <1>0, <1>1, <1>2, <1>3

\* So does CreateTask, where tasks are created after their dependencies.
LEMMA WInvCreate ==
    ASSUME InOrder, WInv, MInv', NEW s \in Specs, CreateTask(s)
    PROVE  WInv'
<1>0. MInv /\ TypeOK /\ HInv
  BY DEF WInv, HInv, MInv
<1>1. PICK k : k = n + 1
  OBVIOUS
<1>2. /\ Created' = Created \cup {k} /\ k \notin Created
      /\ \A e \in Created : e < k
      /\ \A e \in Created : task'[e] = task[e]
      /\ task'[k].taskID = s.taskID /\ task'[k].dependsOn = s.dependsOn
      /\ task'[k].approvalRequired = s.approvalRequired
      /\ task'[k].status = InitialStatus(s)
  BY <1>0, <1>1, CreateAdds
<1>3. HInv'
  BY <1>0, HInvCreate
<1>4. /\ InitialStatus(s) = "blocked" => s.dependsOn # {}
      /\ InitialStatus(s) = "pending_approval" => s.approvalRequired
  BY DEF InitialStatus
<1>5. AsAsked'
  BY <1>2, <1>4 DEF WInv, AsAsked
<1>6. \A d \in s.dependsOn : \E g \in Created : task[g].taskID = d
  BY DEF InOrder, CreateTask
<1>7. DepsBefore'
  BY <1>2, <1>6 DEF WInv, DepsBefore
<1> QED BY <1>3, <1>5, <1>7 DEF WInv

\* MemoryStore keeps WInv.
LEMMA WInvAlways ==
    ASSUME InOrder
    PROVE  Spec => []WInv
<1>1. Init => WInv
  BY BoundsAssumption DEF Init, WInv, AsAsked, DepsBefore, HInv, MInv, LivesOK, TypeOK, UniqueIDs,
     DoneByHolder, DeadLetterVisible, DepsInOrder, Created
<1>2. WInv /\ [Next]_vars => WInv'
  <2> SUFFICES ASSUME WInv, [Next]_vars PROVE WInv'
    OBVIOUS
  <2>1. MInv' /\ HInv /\ MInv
    BY MInvStep DEF WInv, HInv
  <2>2. CASE UNCHANGED vars
    BY <2>1, <2>2 DEF vars, WInv, AsAsked, DepsBefore, HInv, UniqueIDs, DoneByHolder,
       DeadLetterVisible, DepsInOrder, DepsDone, Created
  <2>3. CASE Next
    BY <2>1, <2>3, CreatesOrKeeps, WInvChange, WInvCreate
  <2> QED BY <2>2, <2>3
<1> QED BY <1>1, <1>2, PTL DEF Spec

\* Where every dependency that has ended after a step had ended before it, and
\* by the same record, the waiting record could be decided before too.
LEMMA NewestWas ==
    ASSUME TypeOK, TypeOK', NEW e \in Created, e \in Created', Resolvable(e)',
           e \in listed, task[e].status = "blocked",
           task'[e].agentID = task[e].agentID, task'[e].dependsOn = task[e].dependsOn,
           NEW a, a = task[e].agentID,
           \A d \in task[e].dependsOn, f \in Created' :
              Newest(listed', task', a, d, f) /\ isTerminalStatus(task'[f].status) =>
                 /\ f \in Created /\ Newest(listed, task, a, d, f)
                 /\ isTerminalStatus(task[f].status)
    PROVE  Resolvable(e)
<1>1. listed' \subseteq Created'
  BY DEF TypeOK
<1>2. PICK st : st = [f \in Created |-> task[f].status]
  OBVIOUS
<1>3. PICK x : x = [f \in Created' |-> task'[f].status]
  OBVIOUS
<1>4. \A d \in task[e].dependsOn : EndedIn(listed', task', x, a, d)
  BY <1>3, ResolvableNext
<1>5. ASSUME NEW d \in task[e].dependsOn PROVE EndedIn(listed, task, st, a, d)
  <2>1. PICK f \in listed' : Newest(listed', task', a, d, f) /\ isTerminalStatus(x[f])
    BY <1>4 DEF EndedIn
  <2>2. /\ f \in Created /\ Newest(listed, task, a, d, f)
        /\ isTerminalStatus(task[f].status)
    BY <1>1, <1>3, <2>1
  <2>3. isTerminalStatus(st[f]) /\ f \in listed
    BY <1>2, <2>2 DEF Newest
  <2> QED BY <2>2, <2>3 DEF EndedIn
<1> QED BY <1>2, <1>5, ResolvableNow

\* CreateTask ends no dependency: a record it adds has not ended.
LEMMA CreateResolves ==
    ASSUME TypeOK, TypeOK', NEW s \in Specs, CreateTask(s),
           NEW e \in Created, task[e].status = "blocked", Resolvable(e)'
    PROVE  Resolvable(e)
<1>1. PICK k : k = n + 1
  OBVIOUS
<1>2. /\ Created' = Created \cup {k} /\ k \notin Created
      /\ \A f \in Created : task'[f] = task[f]
      /\ listed' = listed \cup {k}
      /\ task'[k].status = InitialStatus(s)
  BY <1>1, CreateAdds
<1>3. e \in listed
  BY <1>2 DEF Resolvable
<1>4. ~isTerminalStatus(InitialStatus(s))
  BY DEF InitialStatus, isTerminalStatus
<1>5. listed \subseteq Created
  BY DEF TypeOK
<1>6. PICK a : a = task[e].agentID
  OBVIOUS
<1>7. ASSUME NEW d, NEW f \in Created', Newest(listed', task', a, d, f),
             isTerminalStatus(task'[f].status)
      PROVE  /\ f \in Created /\ Newest(listed, task, a, d, f)
             /\ isTerminalStatus(task[f].status)
  BY <1>2, <1>4, <1>5, <1>7 DEF Newest
<1> QED BY <1>2, <1>3, <1>6, <1>7, NewestWas

\* DeleteTask ends no dependency: it takes away the oldest record of an ID, and
\* an ID without a record has not ended.
LEMMA DeleteResolves ==
    ASSUME TypeOK, TypeOK', NEW id \in TaskIDs, DeleteTask(id),
           NEW e \in Created, task[e].status = "blocked", Resolvable(e)'
    PROVE  Resolvable(e)
<1>1. PICK b : b = task[tasksByID[id]].agentID
  OBVIOUS
<1>2. PICK same : same = {f \in TasksOf(b) : task[f].taskID = id}
  OBVIOUS
<1>3. /\ listed' = listed \ {f \in same : \A g \in same : f <= g}
      /\ task' = task /\ n' = n
  BY <1>1, <1>2 DEF DeleteTask
<1>4. \A f : f \in same <=> f \in listed /\ task[f].agentID = b /\ task[f].taskID = id
  BY <1>2 DEF TasksOf
<1>5. Created' = Created /\ listed \subseteq Created /\ Created \subseteq Nat /\ e \in listed
  BY <1>3 DEF TypeOK, Created, Resolvable
<1>6. PICK a : a = task[e].agentID
  OBVIOUS
<1>7. ASSUME NEW d, NEW f \in Created, Newest(listed', task, a, d, f)
      PROVE  Newest(listed, task, a, d, f)
  <2>1. f \in listed /\ task[f].agentID = a /\ task[f].taskID = d
    BY <1>3, <1>7 DEF Newest
  <2>2. ASSUME NEW g \in listed, task[g].agentID = a, task[g].taskID = d PROVE g <= f
    <3>1. CASE g \in listed'
      BY <1>7, <2>2, <3>1 DEF Newest
    <3>2. CASE g \notin listed'
      <4>1. g \in same /\ \A h \in same : g <= h
        BY <1>3, <2>2, <3>2
      <4>2. f \in same
        BY <1>4, <2>1, <2>2, <4>1
      <4> QED BY <4>1, <4>2
    <3> QED BY <3>1, <3>2
  <2> QED BY <2>1, <2>2 DEF Newest
<1> QED BY <1>3, <1>5, <1>6, <1>7, NewestWas

\* An operation that changes one record, and does not end it, ends no dependency.
LEMMA OneResolves ==
    ASSUME TypeOK, TypeOK', n' = n, listed' = listed, NEW c \in Created,
           \A f \in Created : f # c => task'[f] = task[f], RecordStep(c),
           isTerminalStatus(task'[c].status) => isTerminalStatus(task[c].status),
           NEW e \in Created, task[e].status = "blocked", Resolvable(e)'
    PROVE  Resolvable(e)
<1>1. \A f \in Created : /\ task'[f].taskID = task[f].taskID
                         /\ task'[f].agentID = task[f].agentID
                         /\ task'[f].dependsOn = task[f].dependsOn
  BY StepKeeps
<1>2. \A f \in Created : isTerminalStatus(task'[f].status) => isTerminalStatus(task[f].status)
  OBVIOUS
<1> QED BY <1>1, <1>2, SameNewest

\* A pass of releaseDeps that follows a change of records of its own agent.
LEMMA PassResolves ==
    ASSUME WaitersOnce, WInv, TypeOK', n' = n, listed' = listed, NEW a,
           NEW t \in [Created -> TaskRecord], NEW al, releaseDeps(t, al, a),
           \A f \in Created : /\ t[f].taskID = task[f].taskID
                              /\ t[f].agentID = task[f].agentID
                              /\ t[f].dependsOn = task[f].dependsOn
                              /\ t[f].status = "blocked" => task[f].status = "blocked"
                              /\ task[f].agentID # a => t[f] = task[f],
           NEW e \in Created, task[e].status = "blocked", Resolvable(e)'
    PROVE  Resolvable(e)
<1>0. TypeOK
  BY DEF WInv, HInv, MInv
<1>1. CASE task[e].agentID = a
  <2>1. \A f \in Created : e < f /\ task[f].taskID \in t[e].dependsOn => t[f].status # "blocked"
    BY NoLaterWaiter
  <2> QED BY <1>0, <1>1, <2>1, PassDecides
<1>2. CASE task[e].agentID # a
  <2> DEFINE blocked == {f \in TasksOf(a) : t[f].status = "blocked"}
  <2>1. PICK rel \in SUBSET blocked, fld \in SUBSET blocked :
             task' = [f \in Created |-> IF f \in rel THEN Released(t[f])
                                        ELSE IF f \in fld THEN FailedUpstream(t[f])
                                        ELSE t[f]]
    BY DEF releaseDeps
  <2>2. \A f \in Created : task[f].agentID # a => task'[f] = task[f]
    BY <2>1 DEF TasksOf
  <2>3. \A f \in Created : t[f] \in TaskRecord
    OBVIOUS
  <2>4. ASSUME NEW f \in Created
        PROVE  /\ task'[f].taskID = task[f].taskID /\ task'[f].agentID = task[f].agentID
               /\ task'[f].dependsOn = task[f].dependsOn
    BY <2>1, <2>3 DEF Released, FailedUpstream, Unclaimed, TaskRecord
  <2>5. PICK b : b = task[e].agentID
    OBVIOUS
  <2>6. \A d \in task[e].dependsOn, f \in Created :
           Newest(listed, task, b, d, f) /\ isTerminalStatus(task'[f].status) =>
              isTerminalStatus(task[f].status)
    BY <1>2, <2>2, <2>5 DEF Newest
  <2> QED BY <1>0, <2>4, <2>5, <2>6, SameNewest
<1> QED BY <1>1, <1>2

\* A report ends the newest record of its task only if it is taken by all of
\* them, and then the pass of releaseDeps follows.
LEMMA SubmitResolves ==
    ASSUME WaitersOnce, WInv, TypeOK', NEW c \in Created, NEW epoch, NEW success \in BOOLEAN,
           SubmitResult(c, epoch, success),
           NEW e \in Created, task[e].status = "blocked", Resolvable(e)'
    PROVE  Resolvable(e)
<1>0. TypeOK /\ \A f \in Created : task[f] \in TaskRecord
  BY DEF WInv, HInv, MInv, TypeOK
<1> DEFINE a        == task[c].agentID
           same     == {f \in TasksOf(a) : task[f].taskID = task[c].taskID}
           refusing == {f \in same : ~Accepts(task[f], epoch, success)}
           taken    == {f \in same : \A g \in refusing : f < g}
           t        == [f \in Created |-> IF f \in taken THEN Reported(task[f], success)
                                                         ELSE task[f]]
           al       == alerted \cup {task[f].taskID : f \in {g \in taken : t[g].deadLetter}}
<1>1. /\ IF refusing = {} THEN releaseDeps(t, al, a) ELSE task' = t /\ alerted' = al
      /\ n' = n /\ listed' = listed
  BY Zenon DEF SubmitResult
<1> HIDE DEF a, same, refusing, taken, t, al
<1>2. t \in [Created -> TaskRecord]
  BY <1>0, RecordOps DEF t
<1>3. \A f \in taken : f \in same /\ f \in listed /\ task[f].agentID = a
                       /\ task[f].taskID = task[c].taskID
  BY DEF same, taken, TasksOf
<1>4. ASSUME NEW f \in Created
       PROVE  /\ t[f].taskID = task[f].taskID /\ t[f].agentID = task[f].agentID
              /\ t[f].dependsOn = task[f].dependsOn
              /\ t[f].status = "blocked" => task[f].status = "blocked"
              /\ task[f].agentID # a => t[f] = task[f]
  BY <1>0, <1>3 DEF t, Reported, Unclaimed, TaskRecord
<1>5. CASE refusing = {}
  BY <1>1, <1>2, <1>4, <1>5, PassResolves
<1>6. CASE refusing # {}
  <2>1. task' = t
    BY <1>1, <1>6
  <2>2. PICK r \in refusing : TRUE
    BY <1>6
  <2>3. r \in listed /\ task[r].agentID = a /\ task[r].taskID = task[c].taskID
    BY DEF same, refusing, TasksOf
  <2>4. listed \subseteq Created /\ Created \subseteq Nat
    BY <1>0 DEF TypeOK, Created
  <2>5. PICK b : b = task[e].agentID
    OBVIOUS
  <2>6. ASSUME NEW d, NEW f \in Created, Newest(listed, task, b, d, f) PROVE f \notin taken
    <3>1. f \in taken => r <= f /\ f < r
      BY <1>3, <2>3, <2>6 DEF taken, Newest
    <3> QED BY <2>3, <2>4, <3>1
  <2>7. \A d \in task[e].dependsOn, f \in Created :
           Newest(listed, task, b, d, f) => task'[f] = task[f]
    BY <2>1, <2>6 DEF t
  <2> QED BY <1>0, <1>1, <1>4, <2>1, <2>5, <2>7, SameNewest
<1> QED BY <1>5, <1>6

\* CancelTask is such a change.
LEMMA CancelResolves ==
    ASSUME WaitersOnce, WInv, TypeOK', NEW id \in TaskIDs, CancelTask(id),
           NEW e \in Created, task[e].status = "blocked", Resolvable(e)'
    PROVE  Resolvable(e)
<1>0. TypeOK /\ \A f \in Created : task[f] \in TaskRecord
  BY DEF WInv, HInv, MInv, TypeOK
<1>1. PICK c : c = tasksByID[id]
  OBVIOUS
<1>2. c \in Created
  BY <1>0, <1>1 DEF CancelTask, TypeOK
<1>3. PICK t : t = [task EXCEPT ![c].status = "cancelled"]
  OBVIOUS
<1>4. releaseDeps(t, alerted, task[c].agentID) /\ n' = n /\ listed' = listed
  BY <1>1, <1>3 DEF CancelTask
<1>5. t \in [Created -> TaskRecord]
  BY <1>0, <1>2, <1>3, RecordOps DEF TypeOK, Statuses
<1>6. ASSUME NEW f \in Created
      PROVE  /\ t[f].taskID = task[f].taskID /\ t[f].agentID = task[f].agentID
             /\ t[f].dependsOn = task[f].dependsOn
             /\ t[f].status = "blocked" => task[f].status = "blocked"
             /\ task[f].agentID # task[c].agentID => t[f] = task[f]
  BY <1>0, <1>2, <1>3 DEF TypeOK, TaskRecord
<1> QED BY <1>4, <1>5, <1>6, PassResolves

\* RejectTask ends no dependency of a waiting record: no task that needs an
\* approval is one.
LEMMA RejectResolves ==
    ASSUME Outright, WInv, TypeOK', NEW id \in TaskIDs, RejectTask(id), Next,
           NEW e \in Created, task[e].status = "blocked", Resolvable(e)'
    PROVE  Resolvable(e)
<1>0. TypeOK /\ MInv
  BY DEF WInv, HInv, MInv
<1>1. PICK c : c = tasksByID[id]
  OBVIOUS
<1>2. /\ c \in Created /\ task[c].status = "pending_approval"
      /\ task' = [task EXCEPT ![c].status = "rejected"]
      /\ n' = n /\ listed' = listed
  BY <1>0, <1>1 DEF RejectTask, TypeOK
<1>3. \A f \in Created : f # c => task'[f] = task[f]
  BY <1>0, <1>2 DEF TypeOK
<1>4. \A f \in Created : /\ task'[f].taskID = task[f].taskID
                         /\ task'[f].agentID = task[f].agentID
                         /\ task'[f].dependsOn = task[f].dependsOn
  BY <1>0, <1>2, StepShape, StepKeeps DEF StoreStep
<1>5. task[c].taskID \notin task[e].dependsOn
  <2>1. PICK s \in Specs : task[c].taskID = s.taskID /\ s.approvalRequired
    BY <1>2 DEF WInv, AsAsked
  <2>2. PICK u \in Specs : task[e].dependsOn = u.dependsOn
    BY DEF WInv, AsAsked
  <2> QED BY <2>1, <2>2 DEF Outright
<1>6. PICK b : b = task[e].agentID
  OBVIOUS
<1>7. \A d \in task[e].dependsOn, f \in Created : Newest(listed, task, b, d, f) => f # c
  BY <1>5 DEF Newest
<1> QED BY <1>0, <1>2, <1>3, <1>4, <1>6, <1>7, SameNewest

\* No operation leaves behind a waiting record that could not be decided before.
LEMMA NextResolves ==
    ASSUME Lease = 0, WaitersOnce, Outright, WInv, TypeOK', [Next]_vars,
           NEW e \in Created, task[e].status = "blocked", Resolvable(e)'
    PROVE  Resolvable(e)
<1>0. TypeOK /\ MInv
  BY DEF WInv, HInv, MInv
<1>1. ASSUME Next, n' = n PROVE \A f \in Created : RecordStep(f)
  BY <1>0, <1>1, StepShape DEF StoreStep
<1>2. ASSUME NEW a \in Agents, ClaimTask(a), Next PROVE Resolvable(e)
  <2>1. PICK c \in TasksOf(a) : task' = [task EXCEPT ![c] = Claimed(@, a)]
    BY <1>2 DEF ClaimTask
  <2>2. n' = n /\ listed' = listed
    BY <1>2 DEF ClaimTask
  <2>3. c \in Created /\ task[c] \in TaskRecord
    BY <1>0 DEF TasksOf, TypeOK
  <2>4. /\ \A f \in Created : f # c => task'[f] = task[f]
        /\ task'[c] = Claimed(task[c], a)
    BY <1>0, <2>1, <2>3 DEF TypeOK
  <2>5. ~isTerminalStatus(task'[c].status)
    BY <2>3, <2>4 DEF Claimed, TaskRecord, isTerminalStatus
  <2> QED BY <1>0, <1>1, <1>2, <2>2, <2>3, <2>4, <2>5, OneResolves
<1>3. ASSUME NEW id \in TaskIDs, ApproveTask(id), Next PROVE Resolvable(e)
  <2>1. PICK c : c = tasksByID[id]
    OBVIOUS
  <2>2. c \in Created /\ n' = n /\ listed' = listed
    BY <1>0, <1>3, <2>1 DEF ApproveTask, TypeOK
  <2>3. task[c] \in TaskRecord
    BY <1>0, <2>2 DEF TypeOK
  <2>4. /\ \A f \in Created : f # c => task'[f] = task[f]
        /\ task'[c] = Approved(task[c])
    BY <1>0, <1>3, <2>1, <2>2 DEF ApproveTask, TypeOK
  <2>5. ~isTerminalStatus(task'[c].status)
    BY <2>3, <2>4 DEF Approved, TaskRecord, isTerminalStatus
  <2> QED BY <1>0, <1>1, <1>3, <2>2, <2>4, <2>5, OneResolves
<1>4. ASSUME NEW id \in TaskIDs, RetryDeadLetterTask(id), Next PROVE Resolvable(e)
  <2>1. PICK c : c = tasksByID[id]
    OBVIOUS
  <2>2. c \in Created /\ n' = n /\ listed' = listed
    BY <1>0, <1>4, <2>1 DEF RetryDeadLetterTask, TypeOK
  <2>3. task[c] \in TaskRecord
    BY <1>0, <2>2 DEF TypeOK
  <2>4. /\ \A f \in Created : f # c => task'[f] = task[f]
        /\ task'[c] = Requeued(task[c])
    BY <1>0, <1>4, <2>1, <2>2 DEF RetryDeadLetterTask, TypeOK
  <2>5. ~isTerminalStatus(task'[c].status)
    BY <2>3, <2>4 DEF Requeued, Unclaimed, TaskRecord, isTerminalStatus
  <2> QED BY <1>0, <1>1, <1>4, <2>2, <2>4, <2>5, OneResolves
<1>5. ASSUME task' = task, n' = n, listed' = listed PROVE Resolvable(e)
  BY <1>0, <1>5, SameNewest
<1>6. ASSUME NEW c \in Created, NEW epoch \in 1..task[c].claimEpoch,
             NEW success \in BOOLEAN, SubmitResult(c, epoch, success)
      PROVE  Resolvable(e)
  BY <1>6, SubmitResolves
<1>7. ASSUME NEW id \in TaskIDs, CancelTask(id) PROVE Resolvable(e)
  BY <1>7, CancelResolves
<1>8. ASSUME NEW id \in TaskIDs, RejectTask(id), Next PROVE Resolvable(e)
  BY <1>8, RejectResolves
<1>9. ASSUME NEW id \in TaskIDs, DeleteTask(id) PROVE Resolvable(e)
  BY <1>0, <1>9, DeleteResolves
<1>10. ASSUME NEW s \in Specs, CreateTask(s) PROVE Resolvable(e)
  BY <1>0, <1>10, CreateResolves
<1>11. ASSUME NEW k \in Keys, cleanupIdempotency(k) PROVE Resolvable(e)
  BY <1>5, <1>11 DEF cleanupIdempotency
<1>12. ASSUME NEW a \in Agents, Heartbeat(a) \/ HeartbeatLapses(a) PROVE Resolvable(e)
  BY <1>5, <1>12 DEF Heartbeat, HeartbeatLapses
<1>13. /\ ~ReclaimStaleTasks
       /\ \A f \in listed : ~LeaseExpires(f)
  BY DEF ReclaimStaleTasks, LeaseExpires
<1>14. CASE UNCHANGED vars
  BY <1>5, <1>14 DEF vars
<1>15. CASE Next
  BY <1>2, <1>3, <1>4, <1>6, <1>7, <1>8, <1>9, <1>10, <1>11, <1>12, <1>13, <1>15 DEF Next
<1> QED BY <1>14, <1>15

\* The report or the cancellation that ends the last open dependency of a waiting
\* task also decides that task, through chains of any length and for any number of
\* agents: without reclaims, and where tasks are created after their dependencies,
\* once each, and no dependency needs an approval.
THEOREM NoneLeftBehind ==
    ASSUME Lease = 0, InOrder, WaitersOnce, Outright
    PROVE  Spec => StepResolves
<1>1. WInv /\ WInv' /\ [Next]_vars =>
         \A e \in Created : task[e].status = "blocked" /\ Resolvable(e)' => Resolvable(e)
  <2>1. WInv' => TypeOK'
    BY DEF WInv, HInv, MInv
  <2> QED BY <2>1, NextResolves
<1> QED BY <1>1, WInvAlways, PTL DEF Spec, StepResolves
=============================================================================
