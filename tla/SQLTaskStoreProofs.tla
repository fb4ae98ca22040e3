------------------------- MODULE SQLTaskStoreProofs -------------------------
(***************************************************************************)
(* Theorems about SQLTaskStore, for any agents, tasks and requests in      *)
(* flight and any bounds.                                                  *)
(***************************************************************************)
EXTENDS SQLTaskStore, TLAPS

\* Every result of a statement on a row is a row again, of the same task.
LEMMA RowOps ==
    ASSUME NEW r \in RowRecord
    PROVE  /\ Unclaimed(r) \in RowRecord
           /\ \A s \in TaskSpec : Upserted(r, s) \in RowRecord
           /\ \A a \in Agents : Claimed(r, a) \in RowRecord
           /\ \A v \in {"done", "retry", "dead"} : Reported(r, v) \in RowRecord
           /\ Released(r) \in RowRecord /\ FailedUpstream(r) \in RowRecord
           /\ Reclaimed(r) \in RowRecord /\ Requeued(r) \in RowRecord
           /\ [r EXCEPT !.leaseOld = TRUE] \in RowRecord
           /\ [r EXCEPT !.status = "pending", !.approved = TRUE] \in RowRecord
           /\ [r EXCEPT !.status = "cancelled"] \in RowRecord
           /\ [r EXCEPT !.status = "rejected"] \in RowRecord
<1>1. Unclaimed(r) \in RowRecord
  BY DEF Unclaimed, RowRecord
<1>2. \A s \in TaskSpec : Upserted(r, s) \in RowRecord
  <2>1. \A s : InitialStatus(s) \in Statuses
    BY DEF InitialStatus, Statuses
  <2> QED BY <2>1 DEF Upserted, RowRecord, TaskSpec
<1>3. r.claimEpoch + 1 \in Nat /\ r.retryCount + 1 \in Nat /\ r.retryCount \in Nat
      /\ r.maxRetries \in Nat
  BY DEF RowRecord
<1>4. \A a \in Agents : Claimed(r, a) \in RowRecord
  BY <1>3 DEF Claimed, RowRecord, Statuses
<1>5. Unclaimed(r).retryCount = r.retryCount /\ Unclaimed(r).deadLetter = r.deadLetter
      /\ r.deadLetter \in BOOLEAN
  BY DEF Unclaimed, RowRecord
<1>6. \A v \in {"done", "retry", "dead"} : Reported(r, v) \in RowRecord
  <2>1. [r EXCEPT !.status = "done"] \in RowRecord
    BY DEF RowRecord, Statuses
  <2>2. [Unclaimed(r) EXCEPT !.status = "pending", !.retryCount = @ + 1] \in RowRecord
    BY <1>1, <1>3, <1>5 DEF RowRecord, Statuses
  <2>3. [r EXCEPT !.status = "failed", !.deadLetter = TRUE] \in RowRecord
    BY DEF RowRecord, Statuses
  <2> QED BY <2>1, <2>2, <2>3 DEF Reported
<1>7. Released(r) \in RowRecord /\ FailedUpstream(r) \in RowRecord
  BY <1>1 DEF Released, FailedUpstream, RowRecord, Statuses
<1>8. Reclaimed(r) \in RowRecord
  <2> DEFINE st == IF r.retryCount + 1 >= r.maxRetries THEN "failed" ELSE "pending"
             rc == r.retryCount + 1
             dl == rc + 1 >= r.maxRetries \/ r.deadLetter
  <2>1. st \in Statuses /\ rc \in Nat /\ dl \in BOOLEAN
    BY <1>3, <1>5 DEF Statuses
  <2>2. Reclaimed(r) = [Unclaimed(r) EXCEPT !.status = st, !.retryCount = rc, !.deadLetter = dl]
    BY <1>5 DEF Reclaimed
  <2> HIDE DEF st, rc, dl
  <2> QED BY <1>1, <2>1, <2>2 DEF RowRecord
<1>9. Requeued(r) \in RowRecord
  BY <1>1 DEF Requeued, RowRecord, Statuses
<1>10. /\ [r EXCEPT !.leaseOld = TRUE] \in RowRecord
       /\ [r EXCEPT !.status = "pending", !.approved = TRUE] \in RowRecord
       /\ [r EXCEPT !.status = "cancelled"] \in RowRecord
       /\ [r EXCEPT !.status = "rejected"] \in RowRecord
  BY DEF RowRecord, Statuses
<1> QED BY <1>1, <1>2, <1>4, <1>6, <1>7, <1>8, <1>9, <1>10

\* Request p does what it had left to do about the task with this ID.
Settles(p, id) ==
    /\ proc[p].pc = "apply" /\ id \in proc[p].rel \cup proc[p].fld
    /\ id \notin proc'[p].rel \cup proc'[p].fld

\* The ways one statement may change row e.
Changed(e) ==
    \/ row'[e] = row[e]
    \/ \E s \in Specs : /\ s.taskID = row[e].taskID /\ e \in present
                        /\ UsableID(s) \/ \E p \in Procs : s \in proc[p].asked
                        /\ row'[e] = Upserted(row[e], s)
    \/ \E a \in Agents : row[e].status = "pending" /\ row'[e] = Claimed(row[e], a)
    \/ row[e].status = "running" /\ row'[e] = [row[e] EXCEPT !.leaseOld = TRUE]
    \/ Lease > 0 /\ row[e].status = "running" /\ row'[e] = Reclaimed(row[e])
    \/ /\ \E p \in Procs : Settles(p, row[e].taskID) /\ row[e].taskID \in proc[p].rel
       /\ row'[e] = Released(row[e])
    \/ /\ \E p \in Procs : Settles(p, row[e].taskID)
       /\ row'[e] = FailedUpstream(row[e])
    \/ /\ row[e].status \in {"pending", "running"}
       /\ row'[e] = [row[e] EXCEPT !.status = "cancelled"]
    \/ /\ row[e].status = "pending_approval"
       /\ row'[e] = [row[e] EXCEPT !.status = "pending", !.approved = TRUE]
    \/ /\ row[e].status = "pending_approval"
       /\ row'[e] = [row[e] EXCEPT !.status = "rejected"]

\* A report or a requeue also leaves its trace in hist.
Traced(e) ==
    \/ \E p \in Procs : /\ proc[p].pc = "write" /\ e \in Guard(proc[p])
                        /\ row'[e] = Reported(row[e], proc[p].verdict)
                        /\ hist'[e] = [hist[e] EXCEPT !.from = proc[p].from]
    \/ /\ row[e].deadLetter /\ row[e].status = "failed"
       /\ row'[e] = Requeued(row[e])
       /\ hist'[e] = [hist[e] EXCEPT !.base = row[e].claimEpoch, !.requeued = TRUE]

\* No row is inserted.
Rewritten ==
    /\ n' = n /\ present' \subseteq present
    /\ row' = [e \in Created |-> row'[e]] /\ hist' = [e \in Created |-> hist'[e]]
    /\ \A e \in Created : (hist'[e] = hist[e] /\ Changed(e)) \/ Traced(e)

\* A row is inserted for a task nobody has the ID of.
Inserted ==
    \E s \in Specs :
        /\ WithID(s.taskID) = {}
        /\ UsableID(s) \/ \E p \in Procs : s \in proc[p].asked /\ proc' = [proc EXCEPT ![p] = Idle]
        /\ n < MaxTasks /\ n' = n + 1 /\ present' = present \cup {n + 1}
        /\ row' = [e \in 1..(n + 1) |-> IF e \in Created THEN row[e] ELSE NewRow(s)]
        /\ hist' = [e \in 1..(n + 1) |-> IF e \in Created THEN hist[e] ELSE NoHist]

\* A statement that leaves the tables tasks and its history alone.
LEMMA UntouchedRows ==
    ASSUME TypeOK, UNCHANGED <<row, n, hist>>, present' \subseteq present
    PROVE  Rewritten
<1>1. \A e \in Created : hist'[e] = hist[e] /\ Changed(e)
  BY DEF Changed
<1>2. row' = [e \in Created |-> row'[e]] /\ hist' = [e \in Created |-> hist'[e]]
  BY DEF TypeOK
<1> QED BY <1>1, <1>2 DEF Rewritten

\* A statement that leaves the history alone: it is enough to look at each row.
LEMMA RewrittenRows ==
    ASSUME TypeOK, UNCHANGED <<n, present, hist>>, NEW R,
           row' = [e \in Created |-> R[e]],
           \A e \in Created : Changed(e)
    PROVE  Rewritten
<1>1. row' = [e \in Created |-> row'[e]] /\ hist' = [e \in Created |-> hist'[e]]
  BY DEF TypeOK
<1> QED BY <1>1 DEF Rewritten

LEMMA InsertChanges ==
    ASSUME TypeOK, NEW s \in Specs, InsertTask(s),
           \/ UsableID(s)
           \/ \E p \in Procs : s \in proc[p].asked /\ proc' = [proc EXCEPT ![p] = Idle]
    PROVE  Rewritten \/ Inserted
<1>1. CASE WithID(s.taskID) = {}
  BY <1>1 DEF InsertTask, Inserted
<1>2. CASE WithID(s.taskID) # {}
  <2> DEFINE R == [e \in Created |-> IF e \in WithID(s.taskID) THEN Upserted(row[e], s) ELSE row[e]]
  <2>1. row' = R /\ UNCHANGED <<n, present, hist>>
    BY <1>2 DEF InsertTask, Update
  <2>2. UsableID(s) \/ \E p \in Procs : s \in proc[p].asked
    OBVIOUS
  <2>3. \A e \in Created : Changed(e)
    <3> TAKE e \in Created
    <3>1. CASE e \in WithID(s.taskID)
      <4>1. row'[e] = Upserted(row[e], s) /\ e \in present /\ s.taskID = row[e].taskID
        BY <2>1, <3>1 DEF WithID
      <4> QED BY <4>1, <2>2 DEF Changed
    <3>2. CASE e \notin WithID(s.taskID)
      BY <2>1, <3>2 DEF Changed
    <3> QED BY <3>1, <3>2
  <2>4. row' = [e \in Created |-> R[e]]
    BY <2>1
  <2> QED BY <2>1, <2>3, <2>4, RewrittenRows
<1> QED BY <1>1, <1>2

LEMMA ClaimChanges ==
    ASSUME TypeOK, NEW a \in Agents, ClaimTask(a)
    PROVE  Rewritten
<1>1. PICK e \in present : /\ row[e].status = "pending"
                           /\ Update({e}, LAMBDA r : Claimed(r, a))
                           /\ UNCHANGED <<n, present, hist>>
  BY DEF ClaimTask
<1> DEFINE R == [f \in Created |-> IF f \in {e} THEN Claimed(row[f], a) ELSE row[f]]
<1>2. row' = R
  BY <1>1 DEF Update
<1>3. \A f \in Created : Changed(f)
  BY <1>1, <1>2 DEF Changed
<1>4. row' = [f \in Created |-> R[f]]
  BY <1>2
<1> QED BY <1>1, <1>3, <1>4, RewrittenRows

LEMMA LeaseChanges ==
    ASSUME TypeOK, NEW e \in present, LeaseExpires(e)
    PROVE  Rewritten
<1> DEFINE R == [f \in Created |-> IF f \in {e} THEN [row[f] EXCEPT !.leaseOld = TRUE] ELSE row[f]]
<1>1. row[e].status = "running" /\ row' = R /\ UNCHANGED <<n, present, hist>>
  BY DEF LeaseExpires, Update
<1>2. \A f \in Created : Changed(f)
  BY <1>1 DEF Changed
<1>3. row' = [f \in Created |-> R[f]]
  BY <1>1
<1> QED BY <1>1, <1>2, <1>3, RewrittenRows

LEMMA ReclaimChanges ==
    ASSUME TypeOK, ReclaimStaleTasks
    PROVE  Rewritten
<1> DEFINE stale == {e \in present : /\ row[e].status = "running" /\ row[e].leaseOld
                                     /\ row[e].claimedBy \in silent \cup {NoAgent}}
           R == [f \in Created |-> IF f \in stale THEN Reclaimed(row[f]) ELSE row[f]]
<1>1. Lease > 0 /\ row' = R /\ UNCHANGED <<n, present, hist>>
  BY DEF ReclaimStaleTasks, Update
<1>2. \A f \in Created : Changed(f)
  BY <1>1 DEF Changed
<1>3. row' = [f \in Created |-> R[f]]
  BY <1>1
<1> QED BY <1>1, <1>2, <1>3, RewrittenRows

LEMMA WriteChanges ==
    ASSUME TypeOK, NEW p \in Procs, WriteTask(p)
    PROVE  Rewritten
<1>1. PICK G : G = Guard(proc[p])
  OBVIOUS
<1>2. PICK q : q = proc[p]
  OBVIOUS
<1> DEFINE R == [e \in Created |-> IF e \in G THEN Reported(row[e], q.verdict) ELSE row[e]]
           H == [e \in Created |-> IF e \in G THEN [hist[e] EXCEPT !.from = q.from] ELSE hist[e]]
<1>3. q.pc = "write" /\ row' = R /\ hist' = H /\ UNCHANGED <<n, present>>
  BY <1>1, <1>2 DEF WriteTask, Update
<1>4. \A e \in Created : (hist'[e] = hist[e] /\ Changed(e)) \/ Traced(e)
  <2> TAKE e \in Created
  <2>1. CASE e \in G
    BY <1>1, <1>2, <1>3, <2>1 DEF Traced
  <2>2. CASE e \notin G
    BY <1>3, <2>2 DEF Changed
  <2> QED BY <2>1, <2>2
<1>5. row' = [e \in Created |-> row'[e]] /\ hist' = [e \in Created |-> hist'[e]]
  BY <1>3
<1> QED BY <1>3, <1>4, <1>5 DEF Rewritten

LEMMA ApplyChanges ==
    ASSUME TypeOK, NEW p \in Procs, ApplyRelease(p)
    PROVE  Rewritten
<1>1. PICK q \in ProcRecord : q = proc[p]
  BY DEF TypeOK
<1>2. q.pc = "apply" /\ UNCHANGED <<n, present, hist>>
  BY <1>1 DEF ApplyRelease
<1>3. PICK id \in q.rel \cup q.fld :
        LET left == [q EXCEPT !.rel = @ \ {id}, !.fld = @ \ {id},
                              !.owed = IF id \in q.fld THEN {id} ELSE {}]
        IN  /\ IF id \in q.fld THEN Update(WithID(id), FailedUpstream)
                               ELSE Update(WithID(id), Released)
            /\ proc' = [proc EXCEPT ![p] =
                          IF left.rel \cup left.fld \cup left.owed = {}
                          THEN Idle ELSE left]
  BY <1>1 DEF ApplyRelease
<1>4. Settles(p, id)
  <2>1. PICK O : O = IF id \in q.fld THEN {id} ELSE {}
    OBVIOUS
  <2>2. PICK left : left = [q EXCEPT !.rel = @ \ {id}, !.fld = @ \ {id}, !.owed = O]
    OBVIOUS
  <2>3. proc' = [proc EXCEPT ![p] = IF left.rel \cup left.fld \cup left.owed = {} THEN Idle ELSE left]
    BY <1>3, <2>1, <2>2
  <2>4. proc'[p] = Idle \/ proc'[p] = left
    BY <2>3 DEF TypeOK
  <2>5. left.rel = q.rel \ {id} /\ left.fld = q.fld \ {id}
    BY <2>2 DEF ProcRecord
  <2> QED BY <1>1, <1>2, <1>3, <2>4, <2>5 DEF Settles, Idle
<1>5. CASE id \in q.fld
  <2> DEFINE R == [e \in Created |-> IF e \in WithID(id) THEN FailedUpstream(row[e]) ELSE row[e]]
  <2>1. row' = R
    BY <1>3, <1>5 DEF Update
  <2>2. \A e \in Created : Changed(e)
    BY <1>4, <2>1 DEF Changed, WithID
  <2>3. row' = [e \in Created |-> R[e]]
    BY <2>1
  <2> QED BY <1>2, <2>2, <2>3, RewrittenRows
<1>6. CASE id \notin q.fld
  <2> DEFINE R == [e \in Created |-> IF e \in WithID(id) THEN Released(row[e]) ELSE row[e]]
  <2>1. row' = R
    BY <1>3, <1>6 DEF Update
  <2>2. \A e \in Created : Changed(e)
    BY <1>1, <1>3, <1>4, <1>6, <2>1 DEF Changed, WithID
  <2>3. row' = [e \in Created |-> R[e]]
    BY <2>1
  <2> QED BY <1>2, <2>2, <2>3, RewrittenRows
<1> QED BY <1>5, <1>6

LEMMA CancelChanges ==
    ASSUME TypeOK, NEW p \in Procs, NEW id \in TaskIDs, CancelTask(p, id)
    PROVE  Rewritten
<1> DEFINE open == {e \in WithID(id) : row[e].status \in {"pending", "running"}}
           R == [e \in Created |->
                    IF e \in open THEN [row[e] EXCEPT !.status = "cancelled"] ELSE row[e]]
<1>1. row' = R /\ UNCHANGED <<n, present, hist>>
  BY DEF CancelTask, Update
<1>2. \A e \in Created : Changed(e)
  BY <1>1 DEF Changed
<1>3. row' = [e \in Created |-> R[e]]
  BY <1>1
<1> QED BY <1>1, <1>2, <1>3, RewrittenRows

LEMMA DecisionChanges ==
    ASSUME TypeOK, NEW id \in TaskIDs, ApproveTask(id) \/ RejectTask(id)
    PROVE  Rewritten
<1>1. CASE ApproveTask(id)
  <2>1. PICK e \in WithID(id) :
          /\ row[e].status = "pending_approval"
          /\ Update({e}, LAMBDA r : [r EXCEPT !.status = "pending", !.approved = TRUE])
          /\ UNCHANGED <<n, present, hist>>
    BY <1>1 DEF ApproveTask
  <2> DEFINE R == [f \in Created |-> IF f \in {e}
                      THEN [row[f] EXCEPT !.status = "pending", !.approved = TRUE] ELSE row[f]]
  <2>2. row' = R
    BY <2>1 DEF Update
  <2>3. \A f \in Created : Changed(f)
    BY <2>1, <2>2 DEF Changed
  <2>4. row' = [f \in Created |-> R[f]]
    BY <2>2
  <2> QED BY <2>1, <2>3, <2>4, RewrittenRows
<1>2. CASE RejectTask(id)
  <2>1. PICK e \in WithID(id) :
          /\ row[e].status = "pending_approval"
          /\ Update({e}, LAMBDA r : [r EXCEPT !.status = "rejected"])
          /\ UNCHANGED <<n, present, hist>>
    BY <1>2 DEF RejectTask
  <2> DEFINE R == [f \in Created |-> IF f \in {e}
                      THEN [row[f] EXCEPT !.status = "rejected"] ELSE row[f]]
  <2>2. row' = R
    BY <2>1 DEF Update
  <2>3. \A f \in Created : Changed(f)
    BY <2>1, <2>2 DEF Changed
  <2>4. row' = [f \in Created |-> R[f]]
    BY <2>2
  <2> QED BY <2>1, <2>3, <2>4, RewrittenRows
<1> QED BY <1>1, <1>2

LEMMA RequeueChanges ==
    ASSUME TypeOK, NEW id \in TaskIDs, RetryDeadLetterTask(id)
    PROVE  Rewritten
<1>1. PICK e \in WithID(id) : /\ row[e].deadLetter /\ row[e].status = "failed"
        /\ Update({e}, Requeued)
        /\ hist' = [hist EXCEPT ![e] = [@ EXCEPT !.base = row[e].claimEpoch,
                                                !.requeued = TRUE]]
        /\ UNCHANGED <<n, present>>
  BY DEF RetryDeadLetterTask
<1>2. row' = [f \in Created |-> IF f \in {e} THEN Requeued(row[f]) ELSE row[f]]
  BY <1>1 DEF Update
<1>3. \A f \in Created : (hist'[f] = hist[f] /\ Changed(f)) \/ Traced(f)
  BY <1>1, <1>2 DEF Changed, Traced, TypeOK
<1>4. hist' = [f \in Created |-> hist'[f]] /\ row' = [f \in Created |-> row'[f]]
  BY <1>1, <1>2 DEF TypeOK
<1> QED BY <1>1, <1>3, <1>4 DEF Rewritten

\* Every step inserts one row or rewrites the rows there are, each in one of
\* the ways above.
LEMMA StatementShape ==
    ASSUME TypeOK, [Next]_vars
    PROVE  Rewritten \/ Inserted
<1>1. ASSUME NEW s \in Specs, CreateTask(s) PROVE Rewritten \/ Inserted
  BY <1>1, InsertChanges DEF CreateTask
<1>2. ASSUME NEW p \in Procs, CreateTaskWithIdempotency(p) PROVE Rewritten \/ Inserted
  <2>1. PICK s \in proc[p].asked : InsertTask(s)
    BY <1>2 DEF CreateTaskWithIdempotency
  <2>2. s \in Specs
    BY DEF TypeOK, ProcRecord
  <2> QED BY <1>2, <2>1, <2>2, InsertChanges DEF CreateTaskWithIdempotency
<1>3. ASSUME NEW p \in Procs, NEW s \in Specs, LookupKey(p, s) PROVE Rewritten
  BY <1>3, UntouchedRows DEF LookupKey
<1>4. ASSUME NEW a \in Agents, Heartbeat(a) \/ HeartbeatLapses(a) PROVE Rewritten
  BY <1>4, UntouchedRows DEF Heartbeat, HeartbeatLapses
<1>5. ASSUME NEW p \in Procs, NEW c, NEW epoch, NEW ok, SubmitResult(p, c, epoch, ok)
      PROVE  Rewritten
  BY <1>5, UntouchedRows DEF SubmitResult
<1>6. ASSUME NEW p \in Procs,
             \/ ReadTask(p) \/ AddAlert(p) \/ ListBlocked(p) \/ ReadStates(p) \/ ReadOwner(p)
             \/ Stop(p)
      PROVE  Rewritten
  <2>1. UNCHANGED <<row, n, hist>> /\ present' \subseteq present
    BY <1>6 DEF ReadTask, AddAlert, ListBlocked, ReadStates, ReadOwner, Stop
  <2> QED BY <2>1, UntouchedRows
<1>7. ASSUME NEW id \in Purged, DeleteTask(id) PROVE Rewritten
  <2>1. UNCHANGED <<row, n, hist>> /\ present' \subseteq present
    BY <1>7 DEF DeleteTask
  <2> QED BY <2>1, UntouchedRows
<1>8. CASE UNCHANGED vars
  <2>1. UNCHANGED <<row, n, hist>> /\ present' \subseteq present
    BY <1>8 DEF vars
  <2> QED BY <2>1, UntouchedRows
<1> QED BY <1>1, <1>2, <1>3, <1>4, <1>5, <1>6, <1>7, <1>8, ClaimChanges, LeaseChanges,
           ReclaimChanges, WriteChanges, ApplyChanges, CancelChanges, DecisionChanges,
           RequeueChanges DEF Next, Step
-----------------------------------------------------------------------------
(***************************************************************************)
(* What a step may do to a request, the tables being unchanged unless said *)
(* otherwise.                                                              *)
(***************************************************************************)
Others(p) == \A q \in Procs \ {p} : proc'[q] = proc[q]

\* It is told to create the task s.
TakesUp(p) ==
    /\ UNCHANGED <<row, n, hist>>
    /\ \E s \in Specs : /\ UsableID(s)
                        /\ proc'[p] = [Idle EXCEPT !.pc = "insert", !.asked = {s}]

\* It has a report to deal with.
Receives(p) ==
    /\ UNCHANGED <<row, n, hist>>
    /\ \E c \in Created : \E epoch \in 1..row[c].claimEpoch, ok \in BOOLEAN :
          proc'[p] = [Idle EXCEPT !.pc = "read", !.id = row[c].taskID,
                        !.agent = row[c].agentID, !.from = <<c, epoch>>, !.ok = ok]

\* It has seen the row running and chosen the UPDATE.
Judges(p) ==
    /\ UNCHANGED <<row, n, hist>>
    /\ proc[p].pc = "read"
    /\ \E e \in WithID(proc[p].id) : \E v \in {"done", "retry", "dead"} :
          /\ row[e].status = "running"
          /\ v = "retry" => row[e].retryCount < row[e].maxRetries
          /\ proc'[p] = [proc[p] EXCEPT !.pc = "write", !.verdict = v]

\* It has listed waiting tasks.
Lists(p) ==
    /\ UNCHANGED <<row, n, hist>>
    /\ proc[p].pc = "list"
    /\ \E ws \in SUBSET {e \in present : row[e].status = "blocked"} :
          proc'[p] = [proc[p] EXCEPT !.pc = "states",
                        !.blocked = {<<row[e].taskID, row[e].dependsOn>> : e \in ws}]

\* It has settled what becomes of them.
Weighs(p) ==
    /\ UNCHANGED <<row, n, hist>>
    /\ proc[p].pc = "states"
    /\ \E rel, fld \in SUBSET TaskIDs :
          /\ \A id \in rel : \E b \in proc[p].blocked :
                /\ b[1] = id
                /\ \A d \in b[2] : \E f \in Created : row[f].taskID = d /\ row[f].status = "done"
          /\ \A id \in fld : \E b \in proc[p].blocked : b[1] = id
          /\ proc'[p] = [proc[p] EXCEPT !.pc = "apply", !.blocked = {},
                                        !.rel = rel, !.fld = fld]

\* It has released or failed one of them.
Applies(p) ==
    /\ UNCHANGED <<n, hist>>
    /\ proc[p].pc = "apply"
    /\ \E id \in proc[p].rel \cup proc[p].fld : \E owed \in SUBSET TaskIDs :
          /\ \A e \in Created : row[e].taskID # id => row'[e] = row[e]
          /\ proc'[p] = [proc[p] EXCEPT !.rel = @ \ {id}, !.fld = @ \ {id}, !.owed = owed]

\* It goes on with the same report and the same tasks to decide, or with a new
\* cancellation.
GoesOn(p) ==
    /\ proc'[p] \in ProcRecord
    /\ proc'[p].asked = proc[p].asked /\ proc'[p].blocked = proc[p].blocked
    /\ proc'[p].rel = proc[p].rel /\ proc'[p].fld = proc[p].fld
    /\ \/ /\ proc[p].pc \in {"idle", "read", "write", "owner"}
          /\ proc'[p].pc \in {"list", "owner"}
       \/ /\ proc'[p].pc = proc[p].pc /\ proc'[p].id = proc[p].id
          /\ proc'[p].agent = proc[p].agent
          /\ proc'[p].from = proc[p].from /\ proc'[p].verdict = proc[p].verdict

Proceeds(p) ==
    \/ proc'[p] = proc[p]
    \/ proc'[p] = Idle
    \/ /\ Others(p)
       /\ \/ TakesUp(p) \/ Receives(p) \/ Judges(p) \/ Lists(p) \/ Weighs(p) \/ Applies(p)
          \/ GoesOn(p)

\* One request is set and no other.
LEMMA OneRequest ==
    ASSUME proc \in [Procs -> ProcRecord], NEW p \in Procs, NEW r,
           proc' = [proc EXCEPT ![p] = r]
    PROVE  proc'[p] = r /\ Others(p) /\ proc' = [q \in Procs |-> proc'[q]]
BY DEF Others

LEMMA OnlyThat ==
    ASSUME NEW p \in Procs, Others(p), Proceeds(p)
    PROVE  \A q \in Procs : Proceeds(q)
BY DEF Others, Proceeds

\* The steps of a request.
LEMMA ReadProceeds ==
    ASSUME TypeOK, NEW p \in Procs, ReadTask(p)
    PROVE  Proceeds(p) /\ Others(p) /\ proc' = [q \in Procs |-> proc'[q]]
<1>1. PICK q : q = proc[p]
  OBVIOUS
<1>2. q \in ProcRecord /\ proc \in [Procs -> ProcRecord]
  BY <1>1 DEF TypeOK
<1>3. q.pc = "read" /\ UNCHANGED <<row, n, hist>>
  BY <1>1 DEF ReadTask
<1>4. CASE proc' = [proc EXCEPT ![p].pc = "list"]
  <2>1. proc' = [proc EXCEPT ![p] = [q EXCEPT !.pc = "list"]]
    BY <1>1, <1>2, <1>4
  <2>2. [q EXCEPT !.pc = "list"] \in ProcRecord
    BY <1>2 DEF ProcRecord
  <2>3. GoesOn(p)
    BY <1>1, <1>2, <1>3, <2>1, <2>2, OneRequest DEF GoesOn, ProcRecord
  <2> QED BY <1>2, <2>1, <2>3, OneRequest DEF Proceeds
<1>5. ASSUME NEW e \in WithID(q.id),
             proc' = [proc EXCEPT ![p] =
                    IF row[e].status # "running" THEN Idle
                    ELSE [q EXCEPT !.pc = "write", !.verdict =
                             IF q.ok THEN "done"
                             ELSE IF row[e].retryCount < row[e].maxRetries THEN "retry"
                             ELSE "dead"]]
      PROVE  Proceeds(p) /\ Others(p) /\ proc' = [r \in Procs |-> proc'[r]]
  <2>1. CASE row[e].status # "running"
    BY <1>2, <1>5, <2>1, OneRequest DEF Proceeds
  <2>2. CASE row[e].status = "running"
    <3>1. PICK v \in {"done", "retry", "dead"} :
             v = IF q.ok THEN "done"
                 ELSE IF row[e].retryCount < row[e].maxRetries THEN "retry" ELSE "dead"
      OBVIOUS
    <3>2. proc' = [proc EXCEPT ![p] = [q EXCEPT !.pc = "write", !.verdict = v]]
      BY <1>5, <2>2, <3>1
    <3>3. proc'[p] = [q EXCEPT !.pc = "write", !.verdict = v] /\ Others(p)
          /\ proc' = [r \in Procs |-> proc'[r]]
      BY <3>2, <1>2, OneRequest
    <3>4. Judges(p)
      BY <1>1, <1>3, <2>2, <3>1, <3>3 DEF Judges
    <3> QED BY <3>3, <3>4 DEF Proceeds
  <2> QED BY <2>1, <2>2
<1> QED BY <1>1, <1>4, <1>5 DEF ReadTask

LEMMA WriteProceeds ==
    ASSUME TypeOK, NEW p \in Procs, WriteTask(p)
    PROVE  Proceeds(p) /\ Others(p) /\ proc' = [q \in Procs |-> proc'[q]]
<1>1. PICK q : q = proc[p]
  OBVIOUS
<1>2. /\ q \in ProcRecord /\ proc \in [Procs -> ProcRecord] /\ q.id \in TaskIDs \cup {NoID}
      /\ q.pc = "write"
  BY <1>1 DEF TypeOK, ProcRecord, WriteTask
<1>3. CASE Guard(q) = {}
  BY <1>1, <1>2, <1>3, OneRequest DEF WriteTask, Proceeds
<1>4. CASE Guard(q) # {}
  <2>1. PICK O : O = IF q.verdict = "dead" THEN {q.id} ELSE {}
    OBVIOUS
  <2>2. q.id \in TaskIDs
    BY <1>4, <1>2 DEF Guard, WithID, TypeOK, RowRecord
  <2>3. O \subseteq TaskIDs
    BY <2>1, <2>2
  <2>4. proc' = [proc EXCEPT ![p] = [q EXCEPT !.pc = "list", !.owed = O]]
    BY <1>1, <1>4, <2>1 DEF WriteTask
  <2>5. [q EXCEPT !.pc = "list", !.owed = O] \in ProcRecord
    BY <1>2, <2>3 DEF ProcRecord
  <2>6. GoesOn(p)
    BY <1>1, <1>2, <2>4, <2>5, OneRequest DEF GoesOn, ProcRecord
  <2> QED BY <1>2, <2>4, <2>6, OneRequest DEF Proceeds
<1> QED BY <1>3, <1>4

LEMMA AlertProceeds ==
    ASSUME TypeOK, NEW p \in Procs, AddAlert(p)
    PROVE  Proceeds(p) /\ Others(p) /\ proc' = [q \in Procs |-> proc'[q]]
<1>1. PICK q : q = proc[p]
  OBVIOUS
<1>2. q \in ProcRecord /\ proc \in [Procs -> ProcRecord]
  BY <1>1 DEF TypeOK
<1>3. CASE proc' = [proc EXCEPT ![p] = Idle]
  BY <1>2, <1>3, OneRequest DEF Proceeds
<1>4. CASE proc' = [proc EXCEPT ![p] = [q EXCEPT !.owed = {}]]
  <2>1. [q EXCEPT !.owed = {}] \in ProcRecord
    BY <1>2 DEF ProcRecord
  <2>2. GoesOn(p)
    BY <1>1, <1>2, <1>4, <2>1, OneRequest DEF GoesOn, ProcRecord
  <2> QED BY <1>2, <1>4, <2>2, OneRequest DEF Proceeds
<1> QED BY <1>1, <1>2, <1>3, <1>4 DEF AddAlert

LEMMA ListProceeds ==
    ASSUME TypeOK, NEW p \in Procs, ListBlocked(p)
    PROVE  Proceeds(p) /\ Others(p) /\ proc' = [q \in Procs |-> proc'[q]]
<1>1. PICK q : q = proc[p]
  OBVIOUS
<1>2. /\ q \in ProcRecord /\ proc \in [Procs -> ProcRecord] /\ UNCHANGED <<row, n, hist>>
      /\ q.pc = "list"
  BY <1>1 DEF TypeOK, ListBlocked
<1>3. PICK ws : ws = {e \in present : row[e].agentID = q.agent /\ row[e].status = "blocked"}
  OBVIOUS
<1>4. CASE ws = {}
  BY <1>1, <1>2, <1>3, <1>4, OneRequest DEF ListBlocked, Proceeds
<1>5. CASE ws # {}
  <2>1. PICK B : B = {<<row[e].taskID, row[e].dependsOn>> : e \in ws}
    OBVIOUS
  <2>2. proc' = [proc EXCEPT ![p] = [q EXCEPT !.pc = "states", !.blocked = B]]
    BY <1>1, <1>3, <1>5, <2>1 DEF ListBlocked
  <2>3. ws \in SUBSET {e \in present : row[e].status = "blocked"}
    BY <1>3
  <2>4. proc'[p] = [q EXCEPT !.pc = "states", !.blocked = B] /\ Others(p)
        /\ proc' = [r \in Procs |-> proc'[r]]
    BY <1>2, <2>2, OneRequest
  <2>5. Lists(p)
    BY <1>1, <1>2, <2>1, <2>3, <2>4 DEF Lists
  <2> QED BY <2>4, <2>5 DEF Proceeds
<1> QED BY <1>4, <1>5

\* What is to be released waits only for tasks that were done in the snapshot.
LEMMA StatesProceeds ==
    ASSUME TypeOK, NEW p \in Procs, ReadStates(p)
    PROVE  Proceeds(p) /\ Others(p) /\ proc' = [q \in Procs |-> proc'[q]]
<1>1. PICK q : q = proc[p]
  OBVIOUS
<1>2. /\ q \in ProcRecord /\ proc \in [Procs -> ProcRecord] /\ UNCHANGED <<row, n, hist>>
      /\ q.pc = "states"
  BY <1>1 DEF TypeOK, ReadStates
<1>3. PICK byID : byID = LookupOf(q.agent)
  OBVIOUS
<1>4. PICK over : over = {b \in q.blocked : AllDepsTerminal(b[2], byID)}
  OBVIOUS
<1>5. PICK fld : fld = {b[1] : b \in {x \in over : AnyDepFailed(x[2], byID)}}
  OBVIOUS
<1>6. PICK rel : rel = {b[1] : b \in over} \ fld
  OBVIOUS
<1>7. proc' = [proc EXCEPT ![p] =
                 IF rel \cup fld = {} THEN Idle
                 ELSE [q EXCEPT !.pc = "apply", !.blocked = {}, !.rel = rel, !.fld = fld]]
  BY <1>1, <1>3, <1>4, <1>5, <1>6 DEF ReadStates
<1>8. CASE rel \cup fld = {}
  BY <1>2, <1>7, <1>8, OneRequest DEF Proceeds
<1>9. CASE rel \cup fld # {}
  <2>1. q.blocked \subseteq TaskIDs \X SUBSET TaskIDs
    BY <1>2 DEF ProcRecord
  <2>2. rel \in SUBSET TaskIDs /\ fld \in SUBSET TaskIDs
    BY <1>4, <1>5, <1>6, <2>1
  <2>3. \A id \in fld : \E b \in q.blocked : b[1] = id
    BY <1>4, <1>5
  <2>4. ASSUME NEW id \in rel
        PROVE  \E b \in q.blocked :
                 /\ b[1] = id
                 /\ \A d \in b[2] : \E f \in Created : row[f].taskID = d /\ row[f].status = "done"
    <3>1. PICK b \in over : b[1] = id /\ ~AnyDepFailed(b[2], byID)
      BY <1>5, <1>6, <2>4
    <3>2. b \in q.blocked /\ AllDepsTerminal(b[2], byID) /\ b[2] \subseteq TaskIDs
      BY <1>4, <2>1, <3>1
    <3>3. ASSUME NEW d \in b[2]
          PROVE  \E f \in Created : row[f].taskID = d /\ row[f].status = "done"
      <4>1. byID[d] = "done" /\ d \in TaskIDs
        BY <3>1, <3>2, <3>3 DEF AllDepsTerminal, AnyDepFailed
      <4>2. byID[d] = IF \E e \in WithID(d) : row[e].agentID = q.agent
                      THEN row[CHOOSE e \in WithID(d) : TRUE].status ELSE Missing
        BY <1>3, <4>1 DEF LookupOf
      <4>3. \E e \in WithID(d) : TRUE
        BY <4>1, <4>2 DEF Missing
      <4>4. PICK f : f = CHOOSE e \in WithID(d) : TRUE
        OBVIOUS
      <4>5. f \in WithID(d) /\ row[f].status = "done"
        BY <4>1, <4>2, <4>3, <4>4 DEF Missing
      <4> QED BY <4>5 DEF WithID, TypeOK
    <3> QED BY <3>1, <3>2, <3>3
  <2>5. proc'[p] = [q EXCEPT !.pc = "apply", !.blocked = {}, !.rel = rel, !.fld = fld]
        /\ Others(p) /\ proc' = [r \in Procs |-> proc'[r]]
    BY <1>2, <1>7, <1>9, OneRequest
  <2>6. \A id \in rel : \E b \in proc[p].blocked :
          /\ b[1] = id
          /\ \A d \in b[2] : \E f \in Created : row[f].taskID = d /\ row[f].status = "done"
    BY <1>1, <2>4
  <2>7. /\ \A id \in fld : \E b \in proc[p].blocked : b[1] = id
        /\ proc[p].pc = "states" /\ UNCHANGED <<row, n, hist>>
        /\ proc'[p] = [proc[p] EXCEPT !.pc = "apply", !.blocked = {}, !.rel = rel, !.fld = fld]
    BY <1>1, <1>2, <2>3, <2>5
  <2>8. Weighs(p)
    BY <2>2, <2>6, <2>7, Zenon DEF Weighs
  <2> QED BY <2>5, <2>8 DEF Proceeds
<1> QED BY <1>8, <1>9

LEMMA ApplyProceeds ==
    ASSUME TypeOK, NEW p \in Procs, ApplyRelease(p)
    PROVE  Proceeds(p) /\ Others(p) /\ proc' = [q \in Procs |-> proc'[q]]
<1>1. PICK q : q = proc[p]
  OBVIOUS
<1>2. /\ q \in ProcRecord /\ proc \in [Procs -> ProcRecord] /\ UNCHANGED <<n, hist>>
      /\ q.pc = "apply" /\ q.rel \subseteq TaskIDs /\ q.fld \subseteq TaskIDs
  BY <1>1 DEF TypeOK, ApplyRelease, ProcRecord
<1>3. PICK id \in q.rel \cup q.fld :
        LET left == [q EXCEPT !.rel = @ \ {id}, !.fld = @ \ {id},
                              !.owed = IF id \in q.fld THEN {id} ELSE {}]
        IN  /\ IF id \in q.fld THEN Update(WithID(id), FailedUpstream)
                               ELSE Update(WithID(id), Released)
            /\ proc' = [proc EXCEPT ![p] =
                          IF left.rel \cup left.fld \cup left.owed = {}
                          THEN Idle ELSE left]
  BY <1>1 DEF ApplyRelease
<1>4. PICK O : O = IF id \in q.fld THEN {id} ELSE {}
  OBVIOUS
<1>5. PICK left : left = [q EXCEPT !.rel = @ \ {id}, !.fld = @ \ {id}, !.owed = O]
  OBVIOUS
<1>6. proc' = [proc EXCEPT ![p] = IF left.rel \cup left.fld \cup left.owed = {} THEN Idle ELSE left]
  BY <1>3, <1>4, <1>5
<1>7. \A e \in Created : row[e].taskID # id => row'[e] = row[e]
  <2>1. CASE id \in q.fld
    BY <1>3, <2>1 DEF Update, WithID
  <2>2. CASE id \notin q.fld
    BY <1>3, <2>2 DEF Update, WithID
  <2> QED BY <2>1, <2>2
<1>8. CASE proc' = [proc EXCEPT ![p] = Idle]
  BY <1>2, <1>8, OneRequest DEF Proceeds
<1>9. CASE proc' = [proc EXCEPT ![p] = left]
  <2>1. proc'[p] = left /\ Others(p) /\ proc' = [r \in Procs |-> proc'[r]]
    BY <1>2, <1>9, OneRequest
  <2>2. O \in SUBSET TaskIDs
    BY <1>2, <1>3, <1>4
  <2>3. Applies(p)
    BY <1>1, <1>2, <1>5, <1>7, <2>1, <2>2 DEF Applies
  <2> QED BY <2>1, <2>3 DEF Proceeds
<1> QED BY <1>6, <1>8, <1>9

LEMMA OwnerProceeds ==
    ASSUME TypeOK, NEW p \in Procs, ReadOwner(p)
    PROVE  Proceeds(p) /\ Others(p) /\ proc' = [q \in Procs |-> proc'[q]]
<1>1. PICK q : q = proc[p]
  OBVIOUS
<1>2. q \in ProcRecord /\ proc \in [Procs -> ProcRecord] /\ q.pc = "owner"
  BY <1>1 DEF TypeOK, ReadOwner
<1>3. CASE proc' = [proc EXCEPT ![p] = Idle]
  BY <1>2, <1>3, OneRequest DEF Proceeds
<1>4. ASSUME NEW e \in WithID(q.id),
             proc' = [proc EXCEPT ![p] = [q EXCEPT !.pc = "list", !.agent = row[e].agentID]]
      PROVE  Proceeds(p) /\ Others(p) /\ proc' = [r \in Procs |-> proc'[r]]
  <2>1. row[e].agentID \in Agents
    BY DEF WithID, TypeOK, RowRecord
  <2>2. [q EXCEPT !.pc = "list", !.agent = row[e].agentID] \in ProcRecord
    BY <1>2, <2>1 DEF ProcRecord
  <2>3. GoesOn(p)
    BY <1>1, <1>2, <1>4, <2>2, OneRequest DEF GoesOn, ProcRecord
  <2> QED BY <1>2, <1>4, <2>3, OneRequest DEF Proceeds
<1> QED BY <1>1, <1>3, <1>4 DEF ReadOwner

\* The beginnings of a request.
LEMMA IdleTyped == Idle \in ProcRecord
BY NamesAssumption DEF Idle, ProcRecord

LEMMA BeginProceeds ==
    ASSUME TypeOK, NEW p \in Procs,
           \/ \E s \in Specs : LookupKey(p, s)
           \/ \E c \in Created : \E epoch \in 1..row[c].claimEpoch, ok \in BOOLEAN :
                 SubmitResult(p, c, epoch, ok)
           \/ \E id \in TaskIDs : CancelTask(p, id)
    PROVE  Proceeds(p) /\ Others(p) /\ proc' = [q \in Procs |-> proc'[q]]
<1>1. proc \in [Procs -> ProcRecord]
  BY DEF TypeOK
<1>2. ASSUME NEW s \in Specs, LookupKey(p, s)
      PROVE  Proceeds(p) /\ Others(p) /\ proc' = [q \in Procs |-> proc'[q]]
  <2>1. /\ UsableID(s) /\ UNCHANGED <<row, n, hist>> /\ proc[p] = Idle
        /\ proc' = [proc EXCEPT ![p].pc = "insert", ![p].asked = {s}]
    BY <1>2 DEF LookupKey
  <2>2. PICK r : r = [Idle EXCEPT !.pc = "insert", !.asked = {s}]
    OBVIOUS
  <2>3. proc' = [proc EXCEPT ![p] = r]
    BY <1>1, <2>1, <2>2
  <2>4. TakesUp(p)
    BY <1>1, <2>1, <2>2, <2>3, OneRequest DEF TakesUp
  <2> QED BY <1>1, <2>3, <2>4, OneRequest DEF Proceeds
<1>3. ASSUME NEW c \in Created, NEW epoch \in 1..row[c].claimEpoch, NEW ok \in BOOLEAN,
             SubmitResult(p, c, epoch, ok)
      PROVE  Proceeds(p) /\ Others(p) /\ proc' = [q \in Procs |-> proc'[q]]
  <2>1. PICK r : r = [Idle EXCEPT !.pc = "read", !.id = row[c].taskID,
                        !.agent = row[c].agentID, !.from = <<c, epoch>>, !.ok = ok]
    OBVIOUS
  <2>2. proc' = [proc EXCEPT ![p] = r] /\ UNCHANGED <<row, n, hist>>
    BY <1>3, <2>1 DEF SubmitResult
  <2>3. Receives(p)
    BY <1>1, <2>1, <2>2, OneRequest DEF Receives
  <2> QED BY <1>1, <2>2, <2>3, OneRequest DEF Proceeds
<1>4. ASSUME NEW id \in TaskIDs, CancelTask(p, id)
      PROVE  Proceeds(p) /\ Others(p) /\ proc' = [q \in Procs |-> proc'[q]]
  <2>1. PICK r : r = [Idle EXCEPT !.pc = "owner", !.id = id]
    OBVIOUS
  <2>2. proc' = [proc EXCEPT ![p] = r] /\ proc[p] = Idle
    BY <1>4, <2>1 DEF CancelTask
  <2>3. r \in ProcRecord
    BY <2>1, IdleTyped DEF ProcRecord
  <2>4. proc'[p] = r
    BY <1>1, <2>2, OneRequest
  <2>5. GoesOn(p)
    BY <2>1, <2>2, <2>3, <2>4 DEF GoesOn, Idle
  <2> QED BY <1>1, <2>2, <2>5, OneRequest DEF Proceeds
<1> QED BY <1>2, <1>3, <1>4

\* Every step takes each request on in one of these ways.
LEMMA RequestShape ==
    ASSUME TypeOK, [Next]_vars
    PROVE  proc' = [p \in Procs |-> proc'[p]] /\ \A p \in Procs : Proceeds(p)
<1>1. proc \in [Procs -> ProcRecord]
  BY DEF TypeOK
<1>2. ASSUME UNCHANGED proc
      PROVE  proc' = [p \in Procs |-> proc'[p]] /\ \A p \in Procs : Proceeds(p)
  BY <1>1, <1>2 DEF Proceeds
<1>3. ASSUME NEW p \in Procs, Proceeds(p), Others(p), proc' = [q \in Procs |-> proc'[q]]
      PROVE  proc' = [q \in Procs |-> proc'[q]] /\ \A q \in Procs : Proceeds(q)
  BY <1>3, OnlyThat
<1>4. ASSUME NEW p \in Procs, proc' = [proc EXCEPT ![p] = Idle]
      PROVE  proc' = [q \in Procs |-> proc'[q]] /\ \A q \in Procs : Proceeds(q)
  BY <1>1, <1>3, <1>4, OneRequest DEF Proceeds
<1>5. ASSUME NEW p \in Procs, Step(p) \/ Stop(p)
      PROVE  proc' = [q \in Procs |-> proc'[q]] /\ \A q \in Procs : Proceeds(q)
  <2>1. CASE CreateTaskWithIdempotency(p) \/ Stop(p)
    BY <1>4, <2>1 DEF CreateTaskWithIdempotency, Stop
  <2> QED BY <1>3, <1>5, <2>1, ReadProceeds, WriteProceeds, AlertProceeds, ListProceeds,
             StatesProceeds, ApplyProceeds, OwnerProceeds DEF Step
<1>6. ASSUME NEW p \in Procs,
           \/ \E s \in Specs : LookupKey(p, s)
           \/ \E c \in Created : \E epoch \in 1..row[c].claimEpoch, ok \in BOOLEAN :
                 SubmitResult(p, c, epoch, ok)
           \/ \E id \in TaskIDs : CancelTask(p, id)
      PROVE  proc' = [q \in Procs |-> proc'[q]] /\ \A q \in Procs : Proceeds(q)
  BY <1>3, <1>6, BeginProceeds
<1>7. ASSUME NEW a \in Agents, ClaimTask(a) \/ Heartbeat(a) \/ HeartbeatLapses(a)
      PROVE  UNCHANGED proc
  BY <1>7 DEF ClaimTask, Heartbeat, HeartbeatLapses
<1>8. ASSUME NEW id, ApproveTask(id) \/ RejectTask(id) \/ RetryDeadLetterTask(id) \/ DeleteTask(id)
      PROVE  UNCHANGED proc
  BY <1>8 DEF ApproveTask, RejectTask, RetryDeadLetterTask, DeleteTask
<1>9. ASSUME (\E s \in Specs : CreateTask(s)) \/ (\E e \in present : LeaseExpires(e))
             \/ ReclaimStaleTasks \/ UNCHANGED vars
      PROVE  UNCHANGED proc
  BY <1>9 DEF CreateTask, LeaseExpires, ReclaimStaleTasks, vars
<1> QED BY <1>2, <1>5, <1>6, <1>7, <1>8, <1>9 DEF Next
-----------------------------------------------------------------------------
(***************************************************************************)
(* Types.                                                                  *)
(***************************************************************************)
\* What a statement other than CreateTask's leaves alone in a row it changes.
SameTask(r, x) ==
    /\ x.taskID = r.taskID /\ x.agentID = r.agentID /\ x.dependsOn = r.dependsOn
    /\ x.maxRetries = r.maxRetries /\ x.approvalRequired = r.approvalRequired

\* Row r has become x, for the same task, with this status, number of claims
\* and of retries, dead-letter mark and approval.
Becomes(r, x, status, claims, retries, dead, approved) ==
    /\ SameTask(r, x)
    /\ x.status = status /\ x.claimEpoch = claims /\ x.retryCount = retries
    /\ x.deadLetter = dead /\ x.approved = approved

LEMMA UpsertBecomes ==
    ASSUME NEW r \in RowRecord, NEW s
    PROVE  /\ Upserted(r, s).taskID = r.taskID /\ Upserted(r, s).claimEpoch = r.claimEpoch
           /\ Upserted(r, s).status \in {"blocked", "pending_approval", "pending"}
<1>1. InitialStatus(s) \in {"blocked", "pending_approval", "pending"}
  BY DEF InitialStatus
<1> QED BY <1>1 DEF Upserted, RowRecord

LEMMA ClaimBecomes ==
    ASSUME NEW r \in RowRecord, NEW a
    PROVE  Becomes(r, Claimed(r, a), "running", r.claimEpoch + 1, r.retryCount, r.deadLetter,
                   r.approved)
BY DEF Claimed, RowRecord, Becomes, SameTask

LEMMA ReportBecomes ==
    ASSUME NEW r \in RowRecord
    PROVE  /\ Becomes(r, Reported(r, "done"), "done", r.claimEpoch, r.retryCount, r.deadLetter,
                      r.approved)
           /\ Becomes(r, Reported(r, "retry"), "pending", r.claimEpoch, r.retryCount + 1,
                      r.deadLetter, r.approved)
           /\ Becomes(r, Reported(r, "dead"), "failed", r.claimEpoch, r.retryCount, TRUE,
                      r.approved)
BY DEF Reported, Unclaimed, RowRecord, Becomes, SameTask

LEMMA ReleaseBecomes ==
    ASSUME NEW r \in RowRecord
    PROVE  Becomes(r, Released(r), "pending", r.claimEpoch, r.retryCount, r.deadLetter, r.approved)
BY DEF Released, Unclaimed, RowRecord, Becomes, SameTask

LEMMA FailBecomes ==
    ASSUME NEW r \in RowRecord
    PROVE  Becomes(r, FailedUpstream(r), "failed", r.claimEpoch, r.retryCount, TRUE, r.approved)
BY DEF FailedUpstream, Unclaimed, RowRecord, Becomes, SameTask

LEMMA RequeueBecomes ==
    ASSUME NEW r \in RowRecord
    PROVE  Becomes(r, Requeued(r), "pending", r.claimEpoch, 0, FALSE, r.approved)
BY DEF Requeued, Unclaimed, RowRecord, Becomes, SameTask

LEMMA ReclaimBecomes ==
    ASSUME NEW r \in RowRecord
    PROVE  Becomes(r, Reclaimed(r),
                   IF r.retryCount + 1 >= r.maxRetries THEN "failed" ELSE "pending",
                   r.claimEpoch, r.retryCount + 1,
                   r.retryCount + 1 + 1 >= r.maxRetries \/ r.deadLetter, r.approved)
BY DEF Reclaimed, Unclaimed, RowRecord, Becomes, SameTask

LEMMA EditBecomes ==
    ASSUME NEW r \in RowRecord
    PROVE  /\ Becomes(r, [r EXCEPT !.leaseOld = TRUE], r.status, r.claimEpoch, r.retryCount,
                      r.deadLetter, r.approved)
           /\ Becomes(r, [r EXCEPT !.status = "pending", !.approved = TRUE], "pending",
                      r.claimEpoch, r.retryCount, r.deadLetter, TRUE)
           /\ Becomes(r, [r EXCEPT !.status = "cancelled"], "cancelled", r.claimEpoch,
                      r.retryCount, r.deadLetter, r.approved)
           /\ Becomes(r, [r EXCEPT !.status = "rejected"], "rejected", r.claimEpoch,
                      r.retryCount, r.deadLetter, r.approved)
BY DEF RowRecord, Becomes, SameTask

\* A request that is about to update its row has chosen one of the UPDATEs.
Judged == \A p \in Procs : proc[p].pc = "write" => proc[p].verdict # "none"

\* What has become of a row, field by field; what brought it about.
Effect(e) ==
    LET r == row[e]
        x == row'[e]
    IN  \/ x = r
        \/ /\ \E s \in Specs : /\ s.taskID = r.taskID /\ e \in present
                               /\ UsableID(s) \/ \E p \in Procs : s \in proc[p].asked
           /\ x.taskID = r.taskID /\ x.claimEpoch = r.claimEpoch
           /\ x.status \in {"blocked", "pending_approval", "pending"}
        \/ /\ r.status = "pending"
           /\ Becomes(r, x, "running", r.claimEpoch + 1, r.retryCount, r.deadLetter, r.approved)
        \/ Becomes(r, x, r.status, r.claimEpoch, r.retryCount, r.deadLetter, r.approved)
        \/ /\ Lease > 0 /\ r.status = "running"
           /\ Becomes(r, x, IF r.retryCount + 1 >= r.maxRetries THEN "failed" ELSE "pending",
                      r.claimEpoch, r.retryCount + 1,
                      r.retryCount + 1 + 1 >= r.maxRetries \/ r.deadLetter, r.approved)
        \/ /\ \E p \in Procs : Settles(p, r.taskID) /\ r.taskID \in proc[p].rel
           /\ Becomes(r, x, "pending", r.claimEpoch, r.retryCount, r.deadLetter, r.approved)
        \/ /\ \E p \in Procs : Settles(p, r.taskID)
           /\ Becomes(r, x, "failed", r.claimEpoch, r.retryCount, TRUE, r.approved)
        \/ /\ r.status \in {"pending", "running"}
           /\ Becomes(r, x, "cancelled", r.claimEpoch, r.retryCount, r.deadLetter, r.approved)
        \/ /\ r.status = "pending_approval"
           /\ \/ Becomes(r, x, "pending", r.claimEpoch, r.retryCount, r.deadLetter, TRUE)
              \/ Becomes(r, x, "rejected", r.claimEpoch, r.retryCount, r.deadLetter, r.approved)

\* The same for a report and a requeue.
TracedEffect(e) ==
    LET r == row[e]
        x == row'[e]
    IN  \/ \E p \in Procs :
              /\ proc[p].pc = "write" /\ e \in Guard(proc[p])
              /\ hist'[e] = [hist[e] EXCEPT !.from = proc[p].from]
              /\ \/ /\ proc[p].verdict = "done"
                    /\ Becomes(r, x, "done", r.claimEpoch, r.retryCount, r.deadLetter, r.approved)
                 \/ /\ proc[p].verdict = "retry"
                    /\ Becomes(r, x, "pending", r.claimEpoch, r.retryCount + 1, r.deadLetter,
                               r.approved)
                 \/ /\ proc[p].verdict = "dead"
                    /\ Becomes(r, x, "failed", r.claimEpoch, r.retryCount, TRUE, r.approved)
        \/ /\ r.deadLetter /\ r.status = "failed"
           /\ hist'[e] = [hist[e] EXCEPT !.base = r.claimEpoch, !.requeued = TRUE]
           /\ Becomes(r, x, "pending", r.claimEpoch, 0, FALSE, r.approved)

LEMMA ChangedEffect ==
    ASSUME NEW e, row[e] \in RowRecord, Changed(e)
    PROVE  Effect(e) /\ row'[e] \in RowRecord
<1>1. PICK r \in RowRecord : r = row[e]
  OBVIOUS
<1>2. PICK x : x = row'[e]
  OBVIOUS
<1>3. CASE x = r
  BY <1>1, <1>2, <1>3 DEF Effect
<1>4. ASSUME NEW s \in Specs, s.taskID = r.taskID, e \in present,
             UsableID(s) \/ \E p \in Procs : s \in proc[p].asked, x = Upserted(r, s)
      PROVE  Effect(e) /\ x \in RowRecord
  <2>1. s \in TaskSpec
    BY SpecsAssumption
  <2>2. x \in RowRecord
    BY <1>4, <2>1, RowOps
  <2>3. /\ x.taskID = r.taskID /\ x.claimEpoch = r.claimEpoch
        /\ x.status \in {"blocked", "pending_approval", "pending"}
    BY <1>4, UpsertBecomes
  <2>4. \E t \in Specs : /\ t.taskID = row[e].taskID /\ e \in present
                         /\ UsableID(t) \/ \E p \in Procs : t \in proc[p].asked
    BY <1>1, <1>4
  <2> QED BY <1>1, <1>2, <2>2, <2>3, <2>4 DEF Effect
<1>5. ASSUME NEW a \in Agents, r.status = "pending", x = Claimed(r, a)
      PROVE  Effect(e) /\ x \in RowRecord
  <2>1. Becomes(r, x, "running", r.claimEpoch + 1, r.retryCount, r.deadLetter, r.approved)
    BY <1>5, ClaimBecomes
  <2>2. x \in RowRecord
    BY <1>5, RowOps
  <2> QED BY <1>1, <1>2, <1>5, <2>1, <2>2 DEF Effect
<1>6. CASE r.status = "running" /\ x = [r EXCEPT !.leaseOld = TRUE]
  <2>1. Becomes(r, x, r.status, r.claimEpoch, r.retryCount, r.deadLetter, r.approved)
    BY <1>6, EditBecomes
  <2>2. x \in RowRecord
    BY <1>6, RowOps
  <2> QED BY <1>1, <1>2, <2>1, <2>2 DEF Effect
<1>7. CASE Lease > 0 /\ r.status = "running" /\ x = Reclaimed(r)
  <2>1. Becomes(r, x, IF r.retryCount + 1 >= r.maxRetries THEN "failed" ELSE "pending",
                r.claimEpoch, r.retryCount + 1,
                r.retryCount + 1 + 1 >= r.maxRetries \/ r.deadLetter, r.approved)
    BY <1>7, ReclaimBecomes
  <2>2. x \in RowRecord
    BY <1>7, RowOps
  <2> QED BY <1>1, <1>2, <1>7, <2>1, <2>2 DEF Effect
<1>8. ASSUME NEW p \in Procs, Settles(p, r.taskID), r.taskID \in proc[p].rel, x = Released(r)
      PROVE  Effect(e) /\ x \in RowRecord
  <2>1. Becomes(r, x, "pending", r.claimEpoch, r.retryCount, r.deadLetter, r.approved)
    BY <1>8, ReleaseBecomes
  <2>2. x \in RowRecord
    BY <1>8, RowOps
  <2> QED BY <1>1, <1>2, <1>8, <2>1, <2>2 DEF Effect
<1>9. ASSUME NEW p \in Procs, Settles(p, r.taskID), x = FailedUpstream(r)
      PROVE  Effect(e) /\ x \in RowRecord
  <2>1. Becomes(r, x, "failed", r.claimEpoch, r.retryCount, TRUE, r.approved)
    BY <1>9, FailBecomes
  <2>2. x \in RowRecord
    BY <1>9, RowOps
  <2> QED BY <1>1, <1>2, <1>9, <2>1, <2>2 DEF Effect
<1>10. CASE r.status \in {"pending", "running"} /\ x = [r EXCEPT !.status = "cancelled"]
  <2>1. Becomes(r, x, "cancelled", r.claimEpoch, r.retryCount, r.deadLetter, r.approved)
    BY <1>10, EditBecomes
  <2>2. x \in RowRecord
    BY <1>10, RowOps
  <2> QED BY <1>1, <1>2, <1>10, <2>1, <2>2 DEF Effect
<1>11. CASE r.status = "pending_approval" /\ x = [r EXCEPT !.status = "pending", !.approved = TRUE]
  <2>1. Becomes(r, x, "pending", r.claimEpoch, r.retryCount, r.deadLetter, TRUE)
    BY <1>11, EditBecomes
  <2>2. x \in RowRecord
    BY <1>11, RowOps
  <2> QED BY <1>1, <1>2, <1>11, <2>1, <2>2 DEF Effect
<1>12. CASE r.status = "pending_approval" /\ x = [r EXCEPT !.status = "rejected"]
  <2>1. Becomes(r, x, "rejected", r.claimEpoch, r.retryCount, r.deadLetter, r.approved)
    BY <1>12, EditBecomes
  <2>2. x \in RowRecord
    BY <1>12, RowOps
  <2> QED BY <1>1, <1>2, <1>12, <2>1, <2>2 DEF Effect
<1> QED BY <1>1, <1>2, <1>3, <1>4, <1>5, <1>6, <1>7, <1>8, <1>9, <1>10, <1>11, <1>12 DEF Changed

LEMMA ReportEffect ==
    ASSUME TypeOK, Judged, NEW e \in Created, Traced(e)
    PROVE  TracedEffect(e) /\ row'[e] \in RowRecord /\ hist'[e] \in HistRecord
<1>1. PICK r \in RowRecord : r = row[e]
  BY DEF TypeOK
<1>2. PICK x : x = row'[e]
  OBVIOUS
<1>3. hist[e] \in HistRecord /\ r.claimEpoch \in Nat
  BY DEF TypeOK, RowRecord
<1>4. ASSUME NEW p \in Procs, proc[p].pc = "write", e \in Guard(proc[p]),
             x = Reported(r, proc[p].verdict),
             hist'[e] = [hist[e] EXCEPT !.from = proc[p].from]
      PROVE  TracedEffect(e) /\ x \in RowRecord /\ hist'[e] \in HistRecord
  <2>1. proc[p].verdict \in {"done", "retry", "dead"} /\ proc[p].from \in Nat \X Nat
    BY <1>4 DEF TypeOK, Judged, ProcRecord
  <2>2. hist'[e] \in HistRecord
    BY <1>3, <1>4, <2>1 DEF HistRecord
  <2>3. x \in RowRecord
    BY <1>4, <2>1, RowOps
  <2>4. \/ /\ proc[p].verdict = "done"
           /\ Becomes(r, x, "done", r.claimEpoch, r.retryCount, r.deadLetter, r.approved)
        \/ /\ proc[p].verdict = "retry"
           /\ Becomes(r, x, "pending", r.claimEpoch, r.retryCount + 1, r.deadLetter, r.approved)
        \/ /\ proc[p].verdict = "dead"
           /\ Becomes(r, x, "failed", r.claimEpoch, r.retryCount, TRUE, r.approved)
    BY <1>4, <2>1, ReportBecomes
  <2>5. TracedEffect(e)
    BY <1>1, <1>2, <1>4, <2>4 DEF TracedEffect
  <2> QED BY <2>2, <2>3, <2>5
<1>5. CASE /\ r.deadLetter /\ r.status = "failed" /\ x = Requeued(r)
           /\ hist'[e] = [hist[e] EXCEPT !.base = r.claimEpoch, !.requeued = TRUE]
  <2>1. hist'[e] \in HistRecord
    BY <1>3, <1>5 DEF HistRecord
  <2>2. x \in RowRecord
    BY <1>5, RowOps
  <2>3. Becomes(r, x, "pending", r.claimEpoch, 0, FALSE, r.approved)
    BY <1>5, RequeueBecomes
  <2>4. TracedEffect(e)
    BY <1>1, <1>2, <1>5, <2>3 DEF TracedEffect
  <2> QED BY <1>2, <2>1, <2>2, <2>4
<1> QED BY <1>1, <1>2, <1>4, <1>5 DEF Traced

LEMMA RowsTyped ==
    ASSUME TypeOK, Judged, NEW e \in Created, (hist'[e] = hist[e] /\ Changed(e)) \/ Traced(e)
    PROVE  /\ row'[e] \in RowRecord /\ hist'[e] \in HistRecord
           /\ (hist'[e] = hist[e] /\ Effect(e)) \/ TracedEffect(e)
           /\ row'[e].taskID = row[e].taskID /\ row'[e].claimEpoch >= row[e].claimEpoch
<1>1. row[e] \in RowRecord /\ hist[e] \in HistRecord /\ row[e].claimEpoch \in Nat
  BY DEF TypeOK, RowRecord
<1>2. /\ row'[e] \in RowRecord /\ hist'[e] \in HistRecord
      /\ (hist'[e] = hist[e] /\ Effect(e)) \/ TracedEffect(e)
  BY <1>1, ChangedEffect, ReportEffect
<1>3. row'[e].taskID = row[e].taskID /\ row'[e].claimEpoch >= row[e].claimEpoch
  <2>1. CASE Effect(e)
    BY <1>1, <2>1 DEF Effect, Becomes, SameTask
  <2>2. CASE TracedEffect(e)
    <3>1. SameTask(row[e], row'[e]) /\ row'[e].claimEpoch = row[e].claimEpoch
      BY <2>2, Zenon DEF TracedEffect, Becomes
    <3> QED BY <1>1, <3>1 DEF SameTask
  <2> QED BY <1>2, <2>1, <2>2
<1> QED BY <1>2, <1>3

LEMMA NewRowTyped ==
    ASSUME NEW s \in TaskSpec
    PROVE  /\ NewRow(s) \in RowRecord /\ NewRow(s).taskID = s.taskID /\ NewRow(s).claimEpoch = 0
           /\ NewRow(s).dependsOn = s.dependsOn
           /\ NewRow(s).status \in {"blocked", "pending_approval", "pending"}
           /\ NewRow(s).status = "blocked" <=> s.dependsOn # {}
<1>1. InitialStatus(s) \in {"blocked", "pending_approval", "pending"}
      /\ (InitialStatus(s) = "blocked" <=> s.dependsOn # {})
  BY DEF InitialStatus
<1> QED BY <1>1 DEF NewRow, RowRecord, TaskSpec, Statuses

LEMMA RequestTyped ==
    ASSUME TypeOK, NEW p \in Procs, Proceeds(p)
    PROVE  proc'[p] \in ProcRecord
<1>1. proc[p] \in ProcRecord
  BY DEF TypeOK
<1>2. CASE TakesUp(p)
  <2>1. PICK s \in Specs : proc'[p] = [Idle EXCEPT !.pc = "insert", !.asked = {s}]
    BY <1>2 DEF TakesUp
  <2>2. {s} \in SUBSET Specs
    OBVIOUS
  <2> QED BY <2>1, <2>2, IdleTyped DEF ProcRecord
<1>3. CASE Receives(p)
  <2>1. PICK c \in Created : \E epoch \in 1..row[c].claimEpoch, ok \in BOOLEAN :
          proc'[p] = [Idle EXCEPT !.pc = "read", !.id = row[c].taskID,
                        !.agent = row[c].agentID, !.from = <<c, epoch>>, !.ok = ok]
    BY <1>3 DEF Receives
  <2>2. PICK epoch \in 1..row[c].claimEpoch, ok \in BOOLEAN :
          proc'[p] = [Idle EXCEPT !.pc = "read", !.id = row[c].taskID,
                        !.agent = row[c].agentID, !.from = <<c, epoch>>, !.ok = ok]
    BY <2>1
  <2>3. row[c].taskID \in TaskIDs /\ row[c].agentID \in Agents /\ row[c].claimEpoch \in Nat
        /\ n \in Nat
    BY DEF TypeOK, RowRecord
  <2>4. <<c, epoch>> \in Nat \X Nat
    BY <2>3 DEF Created
  <2> QED BY <2>2, <2>3, <2>4, IdleTyped DEF ProcRecord
<1>4. CASE Judges(p)
  BY <1>1, <1>4 DEF Judges, ProcRecord
<1>5. CASE Lists(p)
  <2>1. PICK ws \in SUBSET {e \in present : row[e].status = "blocked"} :
          proc'[p] = [proc[p] EXCEPT !.pc = "states",
                        !.blocked = {<<row[e].taskID, row[e].dependsOn>> : e \in ws}]
    BY <1>5 DEF Lists
  <2>2. {<<row[e].taskID, row[e].dependsOn>> : e \in ws} \subseteq TaskIDs \X SUBSET TaskIDs
    BY DEF TypeOK, RowRecord
  <2> QED BY <1>1, <2>1, <2>2 DEF ProcRecord
<1>6. CASE Weighs(p)
  <2>1. PICK rel, fld \in SUBSET TaskIDs :
          proc'[p] = [proc[p] EXCEPT !.pc = "apply", !.blocked = {}, !.rel = rel, !.fld = fld]
    BY <1>6 DEF Weighs
  <2> QED BY <1>1, <2>1 DEF ProcRecord
<1>7. CASE Applies(p)
  <2>1. PICK id \in proc[p].rel \cup proc[p].fld : \E owed \in SUBSET TaskIDs :
          proc'[p] = [proc[p] EXCEPT !.rel = @ \ {id}, !.fld = @ \ {id}, !.owed = owed]
    BY <1>7 DEF Applies
  <2>2. PICK owed \in SUBSET TaskIDs :
          proc'[p] = [proc[p] EXCEPT !.rel = @ \ {id}, !.fld = @ \ {id}, !.owed = owed]
    BY <2>1
  <2>3. proc[p].rel \ {id} \in SUBSET TaskIDs /\ proc[p].fld \ {id} \in SUBSET TaskIDs
    BY <1>1 DEF ProcRecord
  <2> QED BY <1>1, <2>2, <2>3 DEF ProcRecord
<1> QED BY <1>1, <1>2, <1>3, <1>4, <1>5, <1>6, <1>7, IdleTyped DEF Proceeds, GoesOn

\* The other tables.
LEMMA TablesTyped ==
    ASSUME TypeOK, [Next]_vars
    PROVE  /\ result' \in [TaskIDs -> {"none", "ok", "failed"}]
           /\ alerted' \subseteq TaskIDs /\ silent' \subseteq Agents
<1> USE DEF TypeOK
<1>1. ASSUME NEW p \in Procs, NEW c \in Created, NEW epoch, NEW ok \in BOOLEAN,
             SubmitResult(p, c, epoch, ok)
      PROVE  /\ result' \in [TaskIDs -> {"none", "ok", "failed"}]
             /\ UNCHANGED <<alerted, silent>>
  BY <1>1 DEF SubmitResult, RowRecord
<1>2. ASSUME NEW p \in Procs, AddAlert(p)
      PROVE  alerted' \subseteq TaskIDs /\ UNCHANGED <<result, silent>>
  BY <1>2 DEF AddAlert, ProcRecord
<1>3. ASSUME NEW a \in Agents, Heartbeat(a) \/ HeartbeatLapses(a)
      PROVE  silent' \subseteq Agents /\ UNCHANGED <<result, alerted>>
  BY <1>3 DEF Heartbeat, HeartbeatLapses
<1>4. ASSUME NEW p \in Procs, Step(p) \/ Stop(p), ~AddAlert(p)
      PROVE  UNCHANGED <<result, alerted, silent>>
  BY <1>4 DEF Step, Stop, CreateTaskWithIdempotency, InsertTask, ReadTask, WriteTask,
              ListBlocked, ReadStates, ApplyRelease, ReadOwner
<1>5. ASSUME NEW id, \/ ApproveTask(id) \/ RejectTask(id) \/ RetryDeadLetterTask(id)
                     \/ DeleteTask(id) \/ \E p \in Procs : CancelTask(p, id)
      PROVE  UNCHANGED <<result, alerted, silent>>
  BY <1>5 DEF ApproveTask, RejectTask, RetryDeadLetterTask, DeleteTask, CancelTask
<1>6. ASSUME \/ \E s \in Specs : CreateTask(s) \/ \E p \in Procs : LookupKey(p, s)
             \/ \E a \in Agents : ClaimTask(a)
             \/ \E e \in present : LeaseExpires(e)
             \/ ReclaimStaleTasks
             \/ UNCHANGED vars
      PROVE  UNCHANGED <<result, alerted, silent>>
  BY <1>6 DEF CreateTask, InsertTask, LookupKey, ClaimTask, LeaseExpires, ReclaimStaleTasks, vars
<1> HIDE DEF TypeOK
<1>7. /\ result \in [TaskIDs -> {"none", "ok", "failed"}]
      /\ alerted \subseteq TaskIDs /\ silent \subseteq Agents
  BY DEF TypeOK
<1> QED BY <1>1, <1>2, <1>3, <1>4, <1>5, <1>6, <1>7 DEF Next

LEMMA TypesNext ==
    ASSUME TypeOK, Judged, [Next]_vars
    PROVE  TypeOK' /\ Judged'
<1>1. n \in Nat /\ MaxTasks \in Nat /\ n \in 0..MaxTasks /\ present \subseteq Created
  BY BoundsAssumption DEF TypeOK
<1>2. proc' \in [Procs -> ProcRecord]
  BY RequestShape, RequestTyped
<1>3. Judged'
  <2> SUFFICES ASSUME NEW p \in Procs, proc'[p].pc = "write"
               PROVE  proc'[p].verdict # "none"
    BY DEF Judged
  <2>1. Proceeds(p) /\ proc[p] \in ProcRecord
    BY RequestShape DEF TypeOK
  <2>2. ~TakesUp(p) /\ ~Receives(p)
    BY DEF TakesUp, Receives, Idle
  <2>3. ~Lists(p)
    BY <2>1 DEF Lists, ProcRecord
  <2>4. ~Weighs(p)
    BY <2>1 DEF Weighs, ProcRecord
  <2>5. ~Applies(p)
    BY <2>1 DEF Applies, ProcRecord
  <2>6. CASE Judges(p)
    BY <2>1, <2>6 DEF Judges, ProcRecord
  <2>7. CASE GoesOn(p) \/ proc'[p] = proc[p]
    BY <2>7 DEF GoesOn, Judged
  <2> QED BY <2>1, <2>2, <2>3, <2>4, <2>5, <2>6, <2>7 DEF Proceeds, Idle
<1>4. CASE Rewritten
  <2>1. n' = n /\ Created' = Created
    BY <1>4 DEF Rewritten, Created
  <2>2. \A e \in Created : /\ row'[e] \in RowRecord /\ row'[e].taskID = row[e].taskID
                           /\ hist'[e] \in HistRecord
    BY <1>4, RowsTyped DEF Rewritten
  <2>3. row' \in [Created' -> RowRecord] /\ hist' \in [Created' -> HistRecord]
    BY <1>4, <2>1, <2>2 DEF Rewritten
  <2>4. present' \subseteq present
    BY <1>4 DEF Rewritten
  <2>5. \A e, f \in present' : row'[e].taskID = row'[f].taskID => e = f
    BY <1>1, <2>2, <2>4 DEF TypeOK
  <2> QED BY <1>1, <1>2, <1>3, <2>1, <2>3, <2>4, <2>5, TablesTyped DEF TypeOK
<1>5. CASE Inserted
  <2>1. PICK s \in Specs :
        /\ WithID(s.taskID) = {}
        /\ n < MaxTasks /\ n' = n + 1 /\ present' = present \cup {n + 1}
        /\ row' = [e \in 1..(n + 1) |-> IF e \in Created THEN row[e] ELSE NewRow(s)]
        /\ hist' = [e \in 1..(n + 1) |-> IF e \in Created THEN hist[e] ELSE NoHist]
    BY <1>5 DEF Inserted
  <2>2. s \in TaskSpec
    BY SpecsAssumption
  <2>3. n' \in 0..MaxTasks /\ Created' = 1..(n + 1) /\ Created \subseteq Created'
        /\ n + 1 \in Created' /\ n + 1 \notin Created
    BY <1>1, <2>1 DEF Created
  <2>4. row' \in [Created' -> RowRecord]
    BY <2>1, <2>2, <2>3, NewRowTyped DEF TypeOK
  <2>5. NoHist \in HistRecord
    BY DEF NoHist, HistRecord
  <2>6. hist' \in [Created' -> HistRecord]
    BY <2>1, <2>3, <2>5 DEF TypeOK
  <2>7. present' \subseteq Created'
    BY <1>1, <2>1, <2>3
  <2>8. \A e \in present : row'[e] = row[e] /\ row[e].taskID # s.taskID
    BY <1>1, <2>1, <2>3 DEF WithID
  <2>9. row'[n + 1].taskID = s.taskID
    BY <2>1, <2>2, <2>3, NewRowTyped
  <2>10. \A e, f \in present' : row'[e].taskID = row'[f].taskID => e = f
    <3>1. \A e, f \in present : row[e].taskID = row[f].taskID => e = f
      BY DEF TypeOK
    <3>2. present' = present \cup {n + 1}
      BY <2>1
    <3> HIDE DEF TypeOK
    <3> QED BY ONLY <3>1, <3>2, <2>8, <2>9
  <2> QED BY <1>2, <1>3, <2>3, <2>4, <2>6, <2>7, <2>10, TablesTyped DEF TypeOK
<1> QED BY <1>4, <1>5, StatementShape

LEMMA TypesInit == ASSUME Init PROVE TypeOK /\ Judged
<1>1. n = Len(Preloaded) /\ n \in 0..MaxTasks /\ Created = 1..Len(Preloaded)
  BY SpecsAssumption, BoundsAssumption DEF Init, Created
<1>2. \A e \in Created : Preloaded[e] \in TaskSpec
  BY <1>1, SpecsAssumption
<1>3. row \in [Created -> RowRecord] /\ \A e \in Created : row[e].taskID = Preloaded[e].taskID
  BY <1>2, NewRowTyped DEF Init
<1>4. hist \in [Created -> HistRecord]
  BY DEF Init, NoHist, HistRecord
<1>5. \A e, f \in present : row[e].taskID = row[f].taskID => e = f
  BY <1>1, <1>3, SpecsAssumption DEF Init
<1>6. proc \in [Procs -> ProcRecord] /\ Judged
  BY IdleTyped DEF Init, Judged, Idle
<1>7. /\ present \subseteq Created /\ result \in [TaskIDs -> {"none", "ok", "failed"}]
      /\ alerted \subseteq TaskIDs /\ silent \subseteq Agents
  BY DEF Init
<1> QED BY <1>1, <1>3, <1>4, <1>5, <1>6, <1>7 DEF TypeOK

\* Every variable keeps to its kind and no two rows of the table share a
\* task_id, whatever requests run at a time and wherever they are cut off.
THEOREM TypeCorrect == Spec => []TypeOK
<1>1. Init => TypeOK /\ Judged
  BY TypesInit
<1>2. TypeOK /\ Judged /\ [Next]_vars => (TypeOK /\ Judged)'
  BY TypesNext
<1> QED BY <1>1, <1>2, PTL DEF Spec
-----------------------------------------------------------------------------
(***************************************************************************)
(* Task IDs and claims.                                                    *)
(***************************************************************************)
\* An ID the store has generated belongs to one row for good ...
UniqueIDs ==
    \A e, f \in Created : row[e].taskID = row[f].taskID => e = f \/ row[e].taskID \in CallerIDs

\* ... or to the one request that is about to insert its row.
AskedFresh ==
    \A p \in Procs : \A s \in proc[p].asked :
        s.taskID \in CallerIDs \/ \A e \in Created : row[e].taskID # s.taskID
AskedApart ==
    \A p, q \in Procs : \A s \in proc[p].asked, x \in proc[q].asked :
        s.taskID = x.taskID => p = q \/ s.taskID \in CallerIDs

\* A report in progress is that of a claim a row has had.
ClaimsHeld ==
    \A p \in Procs : proc[p].pc \in {"read", "write"} =>
        /\ proc[p].from[1] \in Created
        /\ row[proc[p].from[1]].taskID = proc[p].id
        /\ proc[p].from[2] <= row[proc[p].from[1]].claimEpoch

IDsOK == UniqueIDs /\ AskedFresh /\ AskedApart

HolderInv == TypeOK /\ Judged /\ IDsOK /\ ClaimsHeld /\ DoneByHolder

\* A request asks for what it asked for, or has just been told.
LEMMA AskedKept ==
    ASSUME TypeOK, NEW p \in Procs, Proceeds(p), ~(Others(p) /\ TakesUp(p))
    PROVE  proc'[p].asked \subseteq proc[p].asked
<1>1. proc[p] \in ProcRecord
  BY DEF TypeOK
<1>2. CASE Receives(p)
  BY <1>2 DEF Receives, Idle
<1>3. CASE Judges(p)
  BY <1>1, <1>3 DEF Judges, ProcRecord
<1>4. CASE Lists(p)
  BY <1>1, <1>4 DEF Lists, ProcRecord
<1>5. CASE Weighs(p)
  BY <1>1, <1>5 DEF Weighs, ProcRecord
<1>6. CASE Applies(p)
  BY <1>1, <1>6 DEF Applies, ProcRecord
<1>7. CASE GoesOn(p)
  BY <1>7 DEF GoesOn
<1> QED BY <1>2, <1>3, <1>4, <1>5, <1>6, <1>7 DEF Proceeds, Idle

LEMMA InitIDs == ASSUME Init, TypeOK PROVE IDsOK /\ ClaimsHeld /\ DoneByHolder
<1>1. n = Len(Preloaded) /\ Created = 1..Len(Preloaded)
  BY DEF Init, Created
<1>2. \A e \in Created : Preloaded[e] \in TaskSpec
  BY <1>1, SpecsAssumption
<1>3. \A e \in Created : row[e].taskID = Preloaded[e].taskID /\ row[e].status # "done"
  BY <1>2, NewRowTyped DEF Init
<1>4. UniqueIDs
  BY <1>1, <1>3, SpecsAssumption DEF UniqueIDs
<1>5. \A p \in Procs : proc[p].asked = {} /\ proc[p].pc = "idle"
  BY DEF Init, Idle
<1> QED BY <1>3, <1>4, <1>5 DEF IDsOK, AskedFresh, AskedApart, ClaimsHeld, DoneByHolder

\* The rows there were keep their IDs and claims.
LEMMA OldRows ==
    ASSUME TypeOK, Judged, [Next]_vars
    PROVE  /\ Created \subseteq Created'
           /\ \A e \in Created : /\ row'[e].taskID = row[e].taskID
                                 /\ row'[e].claimEpoch >= row[e].claimEpoch
<1>1. n \in Nat /\ row \in [Created -> RowRecord]
  BY DEF TypeOK
<1>2. CASE Rewritten
  BY <1>2, RowsTyped DEF Rewritten, Created
<1>3. CASE Inserted
  <2>1. PICK s \in Specs :
        /\ n' = n + 1
        /\ row' = [e \in 1..(n + 1) |-> IF e \in Created THEN row[e] ELSE NewRow(s)]
    BY <1>3 DEF Inserted
  <2>2. Created \subseteq Created' /\ \A e \in Created : row'[e] = row[e]
    BY <1>1, <2>1 DEF Created
  <2>3. \A e \in Created : row[e].claimEpoch \in Nat
    BY <1>1 DEF RowRecord
  <2> QED BY <2>2, <2>3
<1> QED BY <1>2, <1>3, StatementShape

LEMMA IDsNext ==
    ASSUME TypeOK, Judged, IDsOK, [Next]_vars
    PROVE  IDsOK'
<1>1. \A p \in Procs : Proceeds(p)
  BY RequestShape
<1>2. n \in Nat /\ proc \in [Procs -> ProcRecord]
  BY DEF TypeOK
<1>3. CASE \E p \in Procs : Others(p) /\ TakesUp(p)
  <2>1. PICK p \in Procs : Others(p) /\ TakesUp(p)
    BY <1>3
  <2>2. PICK s \in Specs : /\ UsableID(s)
                           /\ proc'[p] = [Idle EXCEPT !.pc = "insert", !.asked = {s}]
    BY <2>1 DEF TakesUp
  <2>3. proc'[p].asked = {s} /\ \A q \in Procs \ {p} : proc'[q] = proc[q]
    BY <2>1, <2>2 DEF Others, Idle
  <2>4. row' = row /\ Created' = Created
    BY <2>1 DEF TakesUp, Created
  <2>5. UniqueIDs'
    BY <2>4 DEF IDsOK, UniqueIDs
  <2>6. AskedFresh'
    BY <2>2, <2>3, <2>4 DEF IDsOK, AskedFresh, UsableID
  <2>7. AskedApart'
    <3>1. s.taskID \in CallerIDs \/ \A q \in Procs : \A x \in proc[q].asked : x.taskID # s.taskID
      BY <2>2 DEF UsableID
    <3>2. AskedApart
      BY DEF IDsOK
    <3> SUFFICES ASSUME NEW q \in Procs, NEW r \in Procs, NEW x \in proc'[q].asked,
                        NEW y \in proc'[r].asked, x.taskID = y.taskID, q # r
                 PROVE  x.taskID \in CallerIDs
      BY DEF AskedApart
    <3>3. CASE q = p
      BY <2>3, <3>1, <3>3
    <3>4. CASE r = p
      BY <2>3, <3>1, <3>4
    <3>5. CASE q # p /\ r # p
      BY <2>3, <3>2, <3>5 DEF AskedApart
    <3> QED BY <3>3, <3>4, <3>5
  <2> QED BY <2>5, <2>6, <2>7 DEF IDsOK
<1>4. ASSUME ~\E p \in Procs : Others(p) /\ TakesUp(p)
      PROVE  IDsOK'
  <2>1. \A p \in Procs : proc'[p].asked \subseteq proc[p].asked
    BY <1>1, <1>4, AskedKept
  <2>2. AskedApart'
    BY <2>1 DEF IDsOK, AskedApart
  <2>3. CASE Rewritten
    <3>1. Created' = Created /\ \A e \in Created : row'[e].taskID = row[e].taskID
      BY <2>3, OldRows DEF Rewritten, Created
    <3>2. UniqueIDs'
      BY <3>1 DEF IDsOK, UniqueIDs
    <3>3. AskedFresh'
      BY <2>1, <3>1 DEF IDsOK, AskedFresh
    <3> QED BY <2>2, <3>2, <3>3 DEF IDsOK
  <2>4. CASE Inserted
    <3>1. PICK s \in Specs :
          /\ UsableID(s) \/ \E p \in Procs : s \in proc[p].asked /\ proc' = [proc EXCEPT ![p] = Idle]
          /\ n' = n + 1
          /\ row' = [e \in 1..(n + 1) |-> IF e \in Created THEN row[e] ELSE NewRow(s)]
      BY <2>4 DEF Inserted
    <3>2. Created' = Created \cup {n + 1} /\ n + 1 \notin Created
      BY <1>2, <3>1 DEF Created
    <3>3. s \in TaskSpec
      BY SpecsAssumption
    <3>4. /\ \A e \in Created : row'[e].taskID = row[e].taskID
          /\ row'[n + 1].taskID = s.taskID
      BY <1>2, <3>1, <3>2, <3>3, NewRowTyped DEF Created
    <3>5. s.taskID \in CallerIDs \/ \A e \in Created : row[e].taskID # s.taskID
      BY <3>1 DEF UsableID, IDsOK, AskedFresh
    <3>6. UniqueIDs'
      BY <3>2, <3>4, <3>5 DEF IDsOK, UniqueIDs
    <3>7. \A p \in Procs : \A x \in proc'[p].asked : x.taskID = s.taskID => s.taskID \in CallerIDs
      <4>1. CASE UsableID(s)
        BY <2>1, <4>1 DEF UsableID
      <4>2. ASSUME NEW p \in Procs, s \in proc[p].asked, proc' = [proc EXCEPT ![p] = Idle]
            PROVE  \A q \in Procs : \A x \in proc'[q].asked : x.taskID = s.taskID => s.taskID \in CallerIDs
        BY <1>2, <4>2 DEF Idle, IDsOK, AskedApart
      <4> QED BY <3>1, <4>1, <4>2
    <3>8. AskedFresh'
      <4> SUFFICES ASSUME NEW p \in Procs, NEW x \in proc'[p].asked, x.taskID \notin CallerIDs,
                          NEW e \in Created'
                   PROVE  row'[e].taskID # x.taskID
        BY DEF AskedFresh
      <4>1. CASE e \in Created
        BY <2>1, <3>4, <4>1 DEF IDsOK, AskedFresh
      <4>2. CASE e = n + 1
        BY <3>4, <3>7, <4>2
      <4> QED BY <3>2, <4>1, <4>2
    <3> QED BY <2>2, <3>6, <3>8 DEF IDsOK
  <2> QED BY <2>3, <2>4, StatementShape
<1> QED BY <1>3, <1>4

LEMMA ClaimsNext ==
    ASSUME TypeOK, Judged, ClaimsHeld, [Next]_vars, TypeOK'
    PROVE  ClaimsHeld'
<1> SUFFICES ASSUME NEW p \in Procs, proc'[p].pc \in {"read", "write"}
             PROVE  /\ proc'[p].from[1] \in Created'
                    /\ row'[proc'[p].from[1]].taskID = proc'[p].id
                    /\ proc'[p].from[2] <= row'[proc'[p].from[1]].claimEpoch
  BY DEF ClaimsHeld
<1>1. Proceeds(p) /\ proc[p] \in ProcRecord
  BY RequestShape DEF TypeOK
<1>2. CASE Receives(p)
  <2>1. PICK c \in Created : \E epoch \in 1..row[c].claimEpoch, ok \in BOOLEAN :
          proc'[p] = [Idle EXCEPT !.pc = "read", !.id = row[c].taskID,
                        !.agent = row[c].agentID, !.from = <<c, epoch>>, !.ok = ok]
    BY <1>2 DEF Receives
  <2>2. PICK epoch \in 1..row[c].claimEpoch : proc'[p].id = row[c].taskID /\ proc'[p].from = <<c, epoch>>
    BY <2>1 DEF Idle
  <2>3. row' = row /\ Created' = Created /\ row[c].claimEpoch \in Nat
    BY <1>2 DEF Receives, Created, TypeOK, RowRecord
  <2> QED BY <2>2, <2>3
<1>3. ASSUME proc'[p].id = proc[p].id, proc'[p].from = proc[p].from, proc[p].pc \in {"read", "write"}
      PROVE  /\ proc'[p].from[1] \in Created'
             /\ row'[proc'[p].from[1]].taskID = proc'[p].id
             /\ proc'[p].from[2] <= row'[proc'[p].from[1]].claimEpoch
  <2>1. PICK c : c = proc[p].from[1]
    OBVIOUS
  <2>2. PICK k \in Nat : k = proc[p].from[2]
    BY <1>1 DEF ProcRecord
  <2>3. c \in Created /\ row[c].taskID = proc[p].id /\ k <= row[c].claimEpoch
    BY <1>3, <2>1, <2>2 DEF ClaimsHeld
  <2>4. row[c].claimEpoch \in Nat
    BY <2>3 DEF TypeOK, RowRecord
  <2>5. /\ c \in Created' /\ row'[c].taskID = row[c].taskID
        /\ row'[c].claimEpoch >= row[c].claimEpoch
    BY <2>3, OldRows
  <2>6. row'[c].claimEpoch \in Nat
    BY <2>5 DEF TypeOK, RowRecord
  <2> QED BY <1>3, <2>1, <2>2, <2>3, <2>4, <2>5, <2>6
<1>4. ~TakesUp(p)
  BY DEF TakesUp, Idle
<1>5. ~Lists(p)
  BY <1>1 DEF Lists, ProcRecord
<1>6. ~Weighs(p)
  BY <1>1 DEF Weighs, ProcRecord
<1>7. ~Applies(p)
  BY <1>1 DEF Applies, ProcRecord
<1>8. CASE Judges(p)
  <2>1. proc'[p].id = proc[p].id /\ proc'[p].from = proc[p].from /\ proc[p].pc = "read"
    BY <1>1, <1>8 DEF Judges, ProcRecord
  <2> QED BY <1>3, <2>1
<1>9. CASE GoesOn(p)
  BY <1>3, <1>9 DEF GoesOn
<1> QED BY <1>1, <1>2, <1>3, <1>4, <1>5, <1>6, <1>7, <1>8, <1>9 DEF Proceeds, Idle

LEMMA HolderNext ==
    ASSUME HolderInv, [Next]_vars
    PROVE  DoneByHolder'
<1> USE DEF HolderInv
<1> SUFFICES ASSUME NEW e \in Created', row'[e].status = "done"
             PROVE  /\ hist'[e].from[2] = row'[e].claimEpoch
                    /\ \E c \in Created' :
                          /\ hist'[e].from[1] = c /\ row'[c].taskID = row'[e].taskID
                          /\ c # e => row'[e].taskID \in CallerIDs
  BY DEF DoneByHolder
<1>1. n \in Nat
  BY DEF TypeOK
<1>2. ASSUME e \in Created, row[e].status = "done", hist'[e] = hist[e],
             row'[e].claimEpoch = row[e].claimEpoch, row'[e].taskID = row[e].taskID
      PROVE  /\ hist'[e].from[2] = row'[e].claimEpoch
             /\ \E c \in Created' :
                   /\ hist'[e].from[1] = c /\ row'[c].taskID = row'[e].taskID
                   /\ c # e => row'[e].taskID \in CallerIDs
  <2>1. PICK c \in Created : /\ hist[e].from[1] = c /\ row[c].taskID = row[e].taskID
                             /\ c # e => row[e].taskID \in CallerIDs
    BY <1>2 DEF DoneByHolder
  <2>2. c \in Created' /\ row'[c].taskID = row[c].taskID
    BY OldRows
  <2> QED BY <1>2, <2>1, <2>2 DEF DoneByHolder
<1>3. CASE Rewritten
  <2>1. Created' = Created /\ e \in Created
    BY <1>3 DEF Rewritten, Created
  <2>2. row[e] \in RowRecord /\ row'[e].taskID = row[e].taskID
    BY <2>1, OldRows DEF TypeOK
  <2>3. (hist'[e] = hist[e] /\ Effect(e)) \/ TracedEffect(e)
    BY <1>3, <2>1, RowsTyped DEF Rewritten
  <2>4. CASE hist'[e] = hist[e] /\ Effect(e)
    <3>1. row[e].status = "done" /\ row'[e].claimEpoch = row[e].claimEpoch
      BY <2>4 DEF Effect, Becomes
    <3> QED BY <1>2, <2>1, <2>2, <2>4, <3>1
  <2>5. CASE TracedEffect(e)
    <3>1. PICK p \in Procs : /\ proc[p].pc = "write" /\ e \in Guard(proc[p])
                             /\ hist'[e] = [hist[e] EXCEPT !.from = proc[p].from]
                             /\ row'[e].claimEpoch = row[e].claimEpoch
      BY <2>5, Zenon DEF TracedEffect, Becomes
    <3>2. hist[e] \in HistRecord
      BY <2>1 DEF TypeOK
    <3>3. hist'[e].from = proc[p].from
      BY <3>1, <3>2 DEF HistRecord
    <3>4. PICK c : c = proc[p].from[1]
      OBVIOUS
    <3>5. c \in Created /\ row[c].taskID = proc[p].id
      BY <3>1, <3>4 DEF ClaimsHeld
    <3>6. row[e].taskID = proc[p].id /\ row[e].claimEpoch = proc[p].from[2]
      BY <3>1 DEF Guard, WithID
    <3>7. c # e => row[e].taskID \in CallerIDs
      BY <2>1, <3>5, <3>6 DEF IDsOK, UniqueIDs
    <3>8. c \in Created' /\ row'[c].taskID = row[c].taskID
      BY <3>5, OldRows
    <3> QED BY <2>2, <3>1, <3>3, <3>4, <3>5, <3>6, <3>7, <3>8
  <2> QED BY <2>3, <2>4, <2>5
<1>4. CASE Inserted
  <2>1. PICK s \in Specs :
        /\ n' = n + 1
        /\ row' = [f \in 1..(n + 1) |-> IF f \in Created THEN row[f] ELSE NewRow(s)]
        /\ hist' = [f \in 1..(n + 1) |-> IF f \in Created THEN hist[f] ELSE NoHist]
    BY <1>4 DEF Inserted
  <2>2. e \in 1..(n + 1) /\ s \in TaskSpec
    BY <2>1, SpecsAssumption DEF Created
  <2>3. e \in Created
    BY <2>1, <2>2, NewRowTyped
  <2> QED BY <1>2, <2>1, <2>2, <2>3
<1> QED BY <1>3, <1>4, StatementShape

\* A task is done only through the report of its current claim, for any number
\* of requests whose statements interleave, with crashes between any two of
\* them: the epoch compared by the UPDATE is enough, although the row was read
\* by an earlier statement.
THEOREM HolderFinishes == Spec => []DoneByHolder
<1>1. Init => HolderInv
  BY TypesInit, InitIDs DEF HolderInv
<1>2. HolderInv /\ [Next]_vars => HolderInv'
  BY TypesNext, IDsNext, ClaimsNext, HolderNext DEF HolderInv
<1>3. HolderInv => DoneByHolder
  BY DEF HolderInv
<1> QED BY <1>1, <1>2, <1>3, PTL DEF Spec
-----------------------------------------------------------------------------
(***************************************************************************)
(* Releases.  The rest holds where the store generates the IDs.  A request *)
(* that releases waiting tasks acts on what it read two statements before; *)
(* two requests that do so at the same time may undo each other's work     *)
(* (run sql_release_race).  The theorems say where that cannot happen.     *)
(***************************************************************************)
\* Every ID is generated by the store.
GeneratedIDs == CallerIDs = {}
\* Requests are served one after the other.
OneAtATime == \A p, q \in Procs : p = q

\* All the tasks ever asked for: none waits for others; none that others wait
\* for waits itself.
Asks == Specs \cup {Preloaded[i] : i \in 1..Len(Preloaded)}
Independent == \A s \in Asks : s.dependsOn = {}
Flat == \A s, t \in Asks : s.taskID \in t.dependsOn => s.dependsOn = {}

\* A row has the terms of a request.
AsAsked ==
    \A e \in Created : \E s \in Asks :
        /\ row[e].taskID = s.taskID /\ row[e].dependsOn = s.dependsOn
        /\ row[e].maxRetries = s.maxRetries /\ row[e].approvalRequired = s.approvalRequired

\* A task that waits waits for something and has not run.
WaitsFresh ==
    \A e \in Created : row[e].status = "blocked" =>
        row[e].dependsOn # {} /\ row[e].claimEpoch = 0

\* The ID of a task with dependencies; of one that still waits, if no other
\* request could have released it.
Waiter(id) ==
    \E e \in Created : /\ row[e].taskID = id /\ row[e].dependsOn # {}
                       /\ OneAtATime => row[e].status = "blocked"

\* What a request has read about waiting tasks and what it is to do about them.
Listed ==
    \A p \in Procs :
        /\ proc[p].pc # "states" => proc[p].blocked = {}
        /\ proc[p].pc # "apply" => proc[p].rel = {} /\ proc[p].fld = {}
        /\ \A b \in proc[p].blocked :
              Waiter(b[1]) /\ \E e \in Created : row[e].taskID = b[1] /\ row[e].dependsOn = b[2]
        /\ \A id \in proc[p].rel \cup proc[p].fld : Waiter(id)

ReleaseInv ==
    TypeOK /\ Judged /\ IDsOK /\ ClaimsHeld /\ AsAsked /\ WaitsFresh /\ Listed

\* A generated ID is not used for a second CreateTask.
LEMMA NoReuse ==
    ASSUME GeneratedIDs, TypeOK, IDsOK, NEW e \in Created
    PROVE  ~\E s \in Specs : /\ s.taskID = row[e].taskID /\ e \in present
                             /\ UsableID(s) \/ \E p \in Procs : s \in proc[p].asked
BY DEF GeneratedIDs, IDsOK, AskedFresh, UsableID

\* Unless a row is settled by a release, it keeps waiting or has not waited.
LEMMA WaitingRow ==
    ASSUME GeneratedIDs, TypeOK, Judged, IDsOK, NEW e \in Created, Rewritten
    PROVE  /\ SameTask(row[e], row'[e])
           /\ row[e].status = "blocked" =>
                 \/ row'[e].status = "blocked" /\ row'[e].claimEpoch = row[e].claimEpoch
                 \/ \E p \in Procs : Settles(p, row[e].taskID)
           /\ row'[e].status = "blocked" =>
                 row[e].status = "blocked" /\ row'[e].claimEpoch = row[e].claimEpoch
<1>1. (hist'[e] = hist[e] /\ Effect(e)) \/ TracedEffect(e)
  BY RowsTyped DEF Rewritten
<1>2. CASE Effect(e)
  <2>1. SameTask(row[e], row'[e])
    BY <1>2, NoReuse DEF Effect, Becomes, SameTask
  <2>2. row[e].status = "blocked" =>
          \/ row'[e].status = "blocked" /\ row'[e].claimEpoch = row[e].claimEpoch
          \/ \E p \in Procs : Settles(p, row[e].taskID)
    BY <1>2, NoReuse DEF Effect, Becomes
  <2>3. row'[e].status = "blocked" =>
          row[e].status = "blocked" /\ row'[e].claimEpoch = row[e].claimEpoch
    BY <1>2, NoReuse DEF Effect, Becomes
  <2> QED BY <2>1, <2>2, <2>3
<1>3. CASE TracedEffect(e)
  <2>1. SameTask(row[e], row'[e])
    BY <1>3, Zenon DEF TracedEffect, Becomes
  <2>2. row[e].status \in {"running", "failed"}
    BY <1>3 DEF TracedEffect, Guard
  <2>3. row'[e].status \in {"done", "pending", "failed"}
    <3>1. row'[e].status = "done" \/ row'[e].status = "pending" \/ row'[e].status = "failed"
      BY <1>3, Zenon DEF TracedEffect, Becomes
    <3> QED BY <3>1
  <2> QED BY <2>1, <2>2, <2>3
<1> QED BY <1>1, <1>2, <1>3

LEMMA InsertedRow ==
    ASSUME TypeOK, Inserted
    PROVE  \E s \in Specs :
              /\ s \in TaskSpec
              /\ Created' = Created \cup {n + 1} /\ n + 1 \notin Created
              /\ row'[n + 1] = NewRow(s) /\ hist'[n + 1] = NoHist
              /\ \A e \in Created : row'[e] = row[e] /\ hist'[e] = hist[e]
<1>1. PICK s \in Specs :
      /\ n' = n + 1
      /\ row' = [f \in 1..(n + 1) |-> IF f \in Created THEN row[f] ELSE NewRow(s)]
      /\ hist' = [f \in 1..(n + 1) |-> IF f \in Created THEN hist[f] ELSE NoHist]
  BY DEF Inserted
<1>2. n \in Nat
  BY DEF TypeOK
<1>3. Created' = Created \cup {n + 1} /\ n + 1 \notin Created /\ Created' = 1..(n + 1)
  BY <1>1, <1>2 DEF Created
<1>4. s \in TaskSpec
  BY SpecsAssumption
<1>5. row'[n + 1] = NewRow(s) /\ hist'[n + 1] = NoHist
  BY <1>1, <1>3
<1>6. \A e \in Created : row'[e] = row[e] /\ hist'[e] = hist[e]
  BY <1>1, <1>3
<1> QED BY <1>3, <1>4, <1>5, <1>6

\* A task on a request's list waits until it is settled.
LEMMA WaiterStays ==
    ASSUME GeneratedIDs, TypeOK, Judged, IDsOK, [Next]_vars, NEW id, Waiter(id),
           OneAtATime => \A p \in Procs : ~Settles(p, id)
    PROVE  Waiter(id)'
<1>1. PICK e \in Created : /\ row[e].taskID = id /\ row[e].dependsOn # {}
                           /\ OneAtATime => row[e].status = "blocked"
  BY DEF Waiter
<1>2. CASE Rewritten
  <2>1. e \in Created'
    BY <1>2 DEF Rewritten, Created
  <2>2. row'[e].taskID = id /\ row'[e].dependsOn # {}
    BY <1>1, <1>2, WaitingRow DEF SameTask
  <2>3. OneAtATime => row'[e].status = "blocked"
    BY <1>1, <1>2, WaitingRow
  <2> QED BY <2>1, <2>2, <2>3 DEF Waiter, OneAtATime
<1>3. CASE Inserted
  <2>1. e \in Created' /\ row'[e] = row[e]
    BY <1>3, InsertedRow
  <2> QED BY <1>1, <2>1 DEF Waiter, OneAtATime
<1> QED BY <1>2, <1>3, StatementShape

LEMMA AskedNext ==
    ASSUME GeneratedIDs, TypeOK, Judged, IDsOK, AsAsked, WaitsFresh, [Next]_vars
    PROVE  AsAsked' /\ WaitsFresh'
<1>1. CASE Rewritten
  <2>1. Created' = Created
    BY <1>1 DEF Rewritten, Created
  <2>2. AsAsked'
    BY <1>1, <2>1, WaitingRow DEF AsAsked, SameTask, Asks
  <2>3. WaitsFresh'
    BY <1>1, <2>1, WaitingRow DEF WaitsFresh, SameTask
  <2> QED BY <2>2, <2>3
<1>2. CASE Inserted
  <2>1. PICK s \in Specs :
              /\ s \in TaskSpec
              /\ Created' = Created \cup {n + 1} /\ n + 1 \notin Created
              /\ row'[n + 1] = NewRow(s) /\ hist'[n + 1] = NoHist
              /\ \A e \in Created : row'[e] = row[e] /\ hist'[e] = hist[e]
    BY <1>2, InsertedRow
  <2>2. /\ NewRow(s).taskID = s.taskID /\ NewRow(s).dependsOn = s.dependsOn
        /\ NewRow(s).maxRetries = s.maxRetries /\ NewRow(s).approvalRequired = s.approvalRequired
        /\ NewRow(s).claimEpoch = 0 /\ (NewRow(s).status = "blocked" => s.dependsOn # {})
    <3>1. InitialStatus(s) = "blocked" => s.dependsOn # {}
      BY DEF InitialStatus
    <3> QED BY <3>1 DEF NewRow
  <2>3. s \in Asks
    BY DEF Asks
  <2>4. AsAsked'
    <3> SUFFICES ASSUME NEW e \in Created'
                 PROVE  \E t \in Asks :
                   /\ row'[e].taskID = t.taskID /\ row'[e].dependsOn = t.dependsOn
                   /\ row'[e].maxRetries = t.maxRetries
                   /\ row'[e].approvalRequired = t.approvalRequired
      BY DEF AsAsked, Asks
    <3>1. CASE e \in Created
      BY <2>1, <3>1 DEF AsAsked
    <3>2. CASE e = n + 1
      BY <2>1, <2>2, <2>3, <3>2
    <3> QED BY <2>1, <3>1, <3>2
  <2>5. WaitsFresh'
    BY <2>1, <2>2 DEF WaitsFresh
  <2> QED BY <2>4, <2>5
<1> QED BY <1>1, <1>2, StatementShape

\* What a request has left to do after a step is what it had, or follows from
\* what it has just read.
LEMMA WorkKept ==
    ASSUME TypeOK, Listed, NEW p \in Procs, Proceeds(p)
    PROVE  /\ proc'[p].pc # "states" => proc'[p].blocked = {}
           /\ proc'[p].pc # "apply" => proc'[p].rel = {} /\ proc'[p].fld = {}
           /\ \/ proc'[p].blocked \subseteq proc[p].blocked
              \/ Lists(p)
           /\ \/ proc'[p].rel \subseteq proc[p].rel /\ proc'[p].fld \subseteq proc[p].fld
              \/ Weighs(p)
<1>1. proc[p] \in ProcRecord
  BY DEF TypeOK
<1>2. /\ proc[p].pc # "states" => proc[p].blocked = {}
      /\ proc[p].pc # "apply" => proc[p].rel = {} /\ proc[p].fld = {}
  BY DEF Listed
<1>3. CASE TakesUp(p)
  BY <1>3 DEF TakesUp, Idle
<1>4. CASE Receives(p)
  BY <1>4 DEF Receives, Idle
<1>5. CASE Judges(p)
  BY <1>1, <1>2, <1>5 DEF Judges, ProcRecord
<1>6. CASE Lists(p)
  BY <1>1, <1>2, <1>6 DEF Lists, ProcRecord
<1>7. CASE Weighs(p)
  BY <1>1, <1>2, <1>7 DEF Weighs, ProcRecord
<1>8. CASE Applies(p)
  BY <1>1, <1>2, <1>8 DEF Applies, ProcRecord
<1>9. CASE GoesOn(p)
  BY <1>2, <1>9 DEF GoesOn
<1>10. CASE proc'[p] = Idle
  BY <1>10 DEF Idle
<1> QED BY <1>2, <1>3, <1>4, <1>5, <1>6, <1>7, <1>8, <1>9, <1>10 DEF Proceeds

LEMMA ListedNext ==
    ASSUME GeneratedIDs, ReleaseInv, [Next]_vars
    PROVE  Listed'
<1> USE DEF ReleaseInv
<1> SUFFICES ASSUME NEW p \in Procs
             PROVE  /\ proc'[p].pc # "states" => proc'[p].blocked = {}
                    /\ proc'[p].pc # "apply" => proc'[p].rel = {} /\ proc'[p].fld = {}
                    /\ \A b \in proc'[p].blocked :
                          /\ Waiter(b[1])'
                          /\ \E e \in Created' : row'[e].taskID = b[1] /\ row'[e].dependsOn = b[2]
                    /\ \A id \in proc'[p].rel \cup proc'[p].fld : Waiter(id)'
  BY Zenon DEF Listed
<1>1. Proceeds(p)
  BY RequestShape
<1>2. /\ proc'[p].pc # "states" => proc'[p].blocked = {}
      /\ proc'[p].pc # "apply" => proc'[p].rel = {} /\ proc'[p].fld = {}
      /\ \/ proc'[p].blocked \subseteq proc[p].blocked
         \/ Lists(p)
      /\ \/ proc'[p].rel \subseteq proc[p].rel /\ proc'[p].fld \subseteq proc[p].fld
         \/ Weighs(p)
  BY <1>1, WorkKept
<1>3. ASSUME NEW b \in proc'[p].blocked
      PROVE  /\ Waiter(b[1])'
             /\ \E e \in Created' : row'[e].taskID = b[1] /\ row'[e].dependsOn = b[2]
  <2>1. CASE Lists(p)
    <3>1. PICK ws \in SUBSET {e \in present : row[e].status = "blocked"} :
            proc'[p] = [proc[p] EXCEPT !.pc = "states",
                          !.blocked = {<<row[e].taskID, row[e].dependsOn>> : e \in ws}]
      BY <2>1 DEF Lists
    <3>2. proc'[p].blocked = {<<row[e].taskID, row[e].dependsOn>> : e \in ws}
      BY <3>1 DEF TypeOK, ProcRecord
    <3>3. PICK e \in ws : b = <<row[e].taskID, row[e].dependsOn>>
      BY <1>3, <3>2
    <3>4. e \in Created /\ row[e].status = "blocked" /\ row[e].dependsOn # {}
      BY <3>3 DEF TypeOK, WaitsFresh
    <3>5. row' = row /\ Created' = Created
      BY <2>1 DEF Lists, Created
    <3> QED BY <3>3, <3>4, <3>5 DEF Waiter, OneAtATime
  <2>2. CASE proc'[p].blocked \subseteq proc[p].blocked
    <3>1. /\ Waiter(b[1]) /\ proc[p].pc = "states"
          /\ \E e \in Created : row[e].taskID = b[1] /\ row[e].dependsOn = b[2]
      BY <1>3, <2>2 DEF Listed
    <3>2. OneAtATime => \A q \in Procs : ~Settles(q, b[1])
      BY <3>1 DEF OneAtATime, Settles
    <3>3. Waiter(b[1])'
      BY <3>1, <3>2, WaiterStays
    <3>4. PICK e \in Created : row[e].taskID = b[1] /\ row[e].dependsOn = b[2]
      BY <3>1
    <3>5. e \in Created' /\ row'[e].taskID = b[1] /\ row'[e].dependsOn = b[2]
      <4>1. CASE Rewritten
        BY <3>4, <4>1, WaitingRow DEF SameTask, Rewritten, Created
      <4>2. CASE Inserted
        BY <3>4, <4>2, InsertedRow
      <4> QED BY <4>1, <4>2, StatementShape
    <3> QED BY <3>3, <3>5
  <2> QED BY <1>2, <2>1, <2>2
<1>4. ASSUME NEW id \in proc'[p].rel \cup proc'[p].fld
      PROVE  Waiter(id)'
  <2>1. CASE Weighs(p)
    <3>1. PICK rel, fld \in SUBSET TaskIDs :
          /\ \A i \in rel : \E b \in proc[p].blocked :
                /\ b[1] = i
                /\ \A d \in b[2] : \E f \in Created : row[f].taskID = d /\ row[f].status = "done"
          /\ \A i \in fld : \E b \in proc[p].blocked : b[1] = i
          /\ proc'[p] = [proc[p] EXCEPT !.pc = "apply", !.blocked = {},
                                        !.rel = rel, !.fld = fld]
      BY <2>1, Zenon DEF Weighs
    <3>2. proc'[p].rel = rel /\ proc'[p].fld = fld
      BY <3>1 DEF TypeOK, ProcRecord
    <3>3. PICK b \in proc[p].blocked : b[1] = id
      BY <1>4, <3>1, <3>2
    <3>4. Waiter(id)
      BY <3>3 DEF Listed
    <3>5. row' = row /\ Created' = Created
      BY <2>1 DEF Weighs, Created
    <3> QED BY <3>4, <3>5 DEF Waiter, OneAtATime
  <2>2. CASE proc'[p].rel \subseteq proc[p].rel /\ proc'[p].fld \subseteq proc[p].fld
    <3>1. Waiter(id)
      BY <1>4, <2>2 DEF Listed
    <3>2. OneAtATime => \A q \in Procs : ~Settles(q, id)
      BY <1>4 DEF OneAtATime, Settles
    <3> QED BY <3>1, <3>2, WaiterStays
  <2> QED BY <1>2, <2>1, <2>2
<1> QED BY <1>2, <1>3, <1>4

LEMMA ReleaseInit == ASSUME Init PROVE ReleaseInv
<1>1. TypeOK /\ Judged /\ IDsOK /\ ClaimsHeld
  BY TypesInit, InitIDs
<1>2. Created = 1..Len(Preloaded) /\ \A e \in Created : row[e] = NewRow(Preloaded[e])
  BY DEF Init, Created
<1>3. AsAsked
  <2> SUFFICES ASSUME NEW e \in Created
               PROVE  \E s \in Asks :
                 /\ row[e].taskID = s.taskID /\ row[e].dependsOn = s.dependsOn
                 /\ row[e].maxRetries = s.maxRetries /\ row[e].approvalRequired = s.approvalRequired
    BY DEF AsAsked
  <2>1. PICK s : s = Preloaded[e]
    OBVIOUS
  <2>2. s \in Asks
    BY <1>2, <2>1 DEF Asks
  <2>3. /\ NewRow(s).taskID = s.taskID /\ NewRow(s).dependsOn = s.dependsOn
        /\ NewRow(s).maxRetries = s.maxRetries /\ NewRow(s).approvalRequired = s.approvalRequired
    BY DEF NewRow
  <2>4. row[e] = NewRow(s)
    BY <1>2, <2>1
  <2> QED BY <2>2, <2>3, <2>4
<1>4. \A s : /\ NewRow(s).status = "blocked" => s.dependsOn # {}
             /\ NewRow(s).dependsOn = s.dependsOn /\ NewRow(s).claimEpoch = 0
  BY DEF NewRow, InitialStatus
<1>5. WaitsFresh
  BY <1>2, <1>4 DEF WaitsFresh
<1>6. Listed
  BY DEF Init, Listed, Idle
<1> QED BY <1>1, <1>3, <1>5, <1>6 DEF ReleaseInv

LEMMA ReleaseNext ==
    ASSUME GeneratedIDs, ReleaseInv, [Next]_vars
    PROVE  ReleaseInv'
BY TypesNext, IDsNext, ClaimsNext, AskedNext, ListedNext DEF ReleaseInv

\* A task that is settled by a release: under these circumstances it waits.
LEMMA SettledWaits ==
    ASSUME GeneratedIDs, ReleaseInv, NEW e \in Created, NEW p \in Procs,
           Settles(p, row[e].taskID)
    PROVE  row[e].dependsOn # {} /\ (OneAtATime \/ Independent => row[e].status = "blocked")
<1>1. Waiter(row[e].taskID)
  BY DEF ReleaseInv, Listed, Settles
<1>2. PICK f \in Created : /\ row[f].taskID = row[e].taskID /\ row[f].dependsOn # {}
                           /\ OneAtATime => row[f].status = "blocked"
  BY <1>1 DEF Waiter
<1>3. f = e
  BY <1>2 DEF ReleaseInv, IDsOK, UniqueIDs, GeneratedIDs
<1> QED BY <1>2, <1>3 DEF ReleaseInv, AsAsked, Independent

\* The step of a terminal row.
LEMMA TerminalStep ==
    ASSUME GeneratedIDs, OneAtATime \/ Independent, ReleaseInv, [Next]_vars, NEW e \in Created
    PROVE  /\ row[e].status \in {"done", "cancelled", "rejected"} =>
                row'[e].status = row[e].status
           /\ row[e].status = "failed" =>
                \/ row'[e].status = "failed"
                \/ row'[e].status = "pending" /\ row'[e].retryCount = 0
<1>1. TypeOK /\ Judged /\ IDsOK
  BY DEF ReleaseInv
<1>2. CASE Rewritten
  <2>1. (hist'[e] = hist[e] /\ Effect(e)) \/ TracedEffect(e)
    BY <1>1, <1>2, RowsTyped DEF Rewritten
  <2>2. ASSUME NEW p \in Procs, Settles(p, row[e].taskID) PROVE row[e].status = "blocked"
    BY <2>2, SettledWaits
  <2>3. CASE Effect(e)
    BY <1>1, <2>2, <2>3, NoReuse DEF Effect, Becomes
  <2>4. CASE TracedEffect(e)
    <3>1. \/ row[e].status = "running"
          \/ row[e].status = "failed" /\ row'[e].status = "pending" /\ row'[e].retryCount = 0
      BY <2>4 DEF TracedEffect, Guard, Becomes
    <3> QED BY <3>1
  <2> QED BY <2>1, <2>3, <2>4
<1>3. CASE Inserted
  BY <1>1, <1>3, InsertedRow
<1> QED BY <1>1, <1>2, <1>3, StatementShape

\* Where requests are served one at a time, or no task has dependencies, a
\* done, cancelled or rejected task keeps its status whatever reports arrive
\* late, and a failed one leaves only for the queue, with a fresh budget.
THEOREM FinishedStays ==
    ASSUME GeneratedIDs, OneAtATime \/ Independent
    PROVE  Spec => TerminalStays
<1>1. Init => ReleaseInv
  BY ReleaseInit
<1>2. ReleaseInv /\ [Next]_vars => ReleaseInv'
  BY ReleaseNext
<1>3. ReleaseInv /\ [Next]_vars =>
        [\A e \in Created :
          /\ row[e].status \in {"done", "cancelled", "rejected"} =>
                row'[e].status = row[e].status
          /\ row[e].status = "failed" =>
                \/ row'[e].status = "failed"
                \/ row'[e].status = "pending" /\ row'[e].retryCount = 0]_vars
  BY TerminalStep
<1> QED BY <1>1, <1>2, <1>3, PTL DEF Spec, TerminalStays
-----------------------------------------------------------------------------
(***************************************************************************)
(* Dependencies.                                                           *)
(***************************************************************************)
HasDone(d) == \E f \in Created : row[f].taskID = d /\ row[f].status = "done"

\* What a request is to release waits for done tasks only ...
Ready ==
    \A p \in Procs : \A id \in proc[p].rel : \A e \in Created :
        row[e].taskID = id => \A d \in row[e].dependsOn : HasDone(d)

\* ... and so does every task that has been released.
StartedReady ==
    \A e \in Created :
        /\ ~hist[e].requeued /\ row[e].status # "blocked"
        /\ row[e].status # "failed" \/ row[e].claimEpoch > 0
        => \A d \in row[e].dependsOn : HasDone(d)

DepsInv == ReleaseInv /\ Ready /\ StartedReady

\* A done task others wait for stays done.
LEMMA DoneStays ==
    ASSUME GeneratedIDs, OneAtATime \/ Flat, ReleaseInv, [Next]_vars, NEW e \in Created,
           NEW d \in row[e].dependsOn, HasDone(d)
    PROVE  HasDone(d)'
<1>1. TypeOK /\ Judged /\ IDsOK
  BY DEF ReleaseInv
<1>2. PICK f \in Created : row[f].taskID = d /\ row[f].status = "done"
  BY DEF HasDone
<1>3. ASSUME NEW p \in Procs, Settles(p, row[f].taskID) PROVE FALSE
  <2>1. row[f].dependsOn # {} /\ ~OneAtATime
    BY <1>2, <1>3, SettledWaits
  <2>2. Flat /\ AsAsked
    BY <2>1 DEF ReleaseInv
  <2>3. PICK s \in Asks : row[f].taskID = s.taskID /\ row[f].dependsOn = s.dependsOn
    BY <2>2 DEF AsAsked
  <2>4. PICK t \in Asks : row[e].dependsOn = t.dependsOn
    BY <2>2 DEF AsAsked
  <2> QED BY <1>2, <2>1, <2>2, <2>3, <2>4 DEF Flat
<1>4. f \in Created' /\ row'[f].taskID = d
  BY <1>1, <1>2, OldRows
<1>5. row'[f].status = "done"
  <2>1. CASE Rewritten
    <3>1. (hist'[f] = hist[f] /\ Effect(f)) \/ TracedEffect(f)
      BY <1>1, <2>1, RowsTyped DEF Rewritten
    <3>2. CASE Effect(f)
      BY <1>1, <1>2, <1>3, <3>2, NoReuse DEF Effect, Becomes
    <3>3. CASE TracedEffect(f)
      BY <1>2, <3>3 DEF TracedEffect, Guard
    <3> QED BY <3>1, <3>2, <3>3
  <2>2. CASE Inserted
    BY <1>1, <1>2, <2>2, InsertedRow
  <2> QED BY <1>1, <2>1, <2>2, StatementShape
<1> QED BY <1>4, <1>5 DEF HasDone

LEMMA ReadyNext ==
    ASSUME GeneratedIDs, OneAtATime \/ Flat, DepsInv, [Next]_vars
    PROVE  Ready'
<1>1. ReleaseInv /\ TypeOK /\ Judged /\ IDsOK /\ Listed /\ Ready
  BY DEF DepsInv, ReleaseInv
<1>2. IDsOK'
  BY <1>1, IDsNext
<1> SUFFICES ASSUME NEW p \in Procs, NEW id \in proc'[p].rel, NEW e \in Created',
                    row'[e].taskID = id, NEW d \in row'[e].dependsOn
             PROVE  HasDone(d)'
  BY DEF Ready
<1>3. Proceeds(p)
  BY <1>1, RequestShape
<1>4. CASE Weighs(p)
  <2>1. PICK rel, fld \in SUBSET TaskIDs :
        /\ \A i \in rel : \E b \in proc[p].blocked :
              /\ b[1] = i
              /\ \A x \in b[2] : \E f \in Created : row[f].taskID = x /\ row[f].status = "done"
        /\ \A i \in fld : \E b \in proc[p].blocked : b[1] = i
        /\ proc'[p] = [proc[p] EXCEPT !.pc = "apply", !.blocked = {},
                                      !.rel = rel, !.fld = fld]
    BY <1>4, Zenon DEF Weighs
  <2>2. proc'[p].rel = rel
    BY <1>1, <2>1 DEF TypeOK, ProcRecord
  <2>3. PICK b \in proc[p].blocked :
              /\ b[1] = id
              /\ \A x \in b[2] : \E f \in Created : row[f].taskID = x /\ row[f].status = "done"
    BY <2>1, <2>2
  <2>4. PICK g \in Created : row[g].taskID = b[1] /\ row[g].dependsOn = b[2]
    BY <1>1 DEF Listed
  <2>5. row' = row /\ Created' = Created
    BY <1>4 DEF Weighs, Created
  <2>6. g = e
    BY <1>1, <2>3, <2>4, <2>5 DEF IDsOK, UniqueIDs, GeneratedIDs
  <2>7. HasDone(d)
    BY <2>3, <2>4, <2>5, <2>6 DEF HasDone
  <2> QED BY <2>5, <2>7 DEF HasDone
<1>5. CASE proc'[p].rel \subseteq proc[p].rel
  <2>1. id \in proc[p].rel /\ Waiter(id)
    BY <1>1, <1>5 DEF Listed
  <2>2. PICK g \in Created : row[g].taskID = id
    BY <2>1 DEF Waiter
  <2>3. g \in Created' /\ row'[g].taskID = id
    BY <1>1, <2>2, OldRows
  <2>4. g = e
    BY <1>2, <2>3 DEF IDsOK, UniqueIDs, GeneratedIDs
  <2>5. row'[e].dependsOn = row[e].dependsOn
    <3>1. CASE Rewritten
      BY <1>1, <2>2, <2>4, <3>1, WaitingRow DEF SameTask
    <3>2. CASE Inserted
      BY <1>1, <2>2, <2>4, <3>2, InsertedRow
    <3> QED BY <1>1, <3>1, <3>2, StatementShape
  <2>6. e \in Created /\ d \in row[e].dependsOn /\ HasDone(d)
    BY <1>1, <2>1, <2>2, <2>4, <2>5 DEF Ready
  <2> QED BY <1>1, <2>6, DoneStays
<1> QED BY <1>1, <1>3, <1>4, <1>5, WorkKept

LEMMA StartedNext ==
    ASSUME GeneratedIDs, OneAtATime \/ Flat, DepsInv, [Next]_vars
    PROVE  StartedReady'
<1>1. ReleaseInv /\ TypeOK /\ Judged /\ IDsOK /\ WaitsFresh /\ Ready /\ StartedReady
  BY DEF DepsInv, ReleaseInv
<1> SUFFICES ASSUME NEW e \in Created', ~hist'[e].requeued, row'[e].status # "blocked",
                    row'[e].status # "failed" \/ row'[e].claimEpoch > 0,
                    NEW d \in row'[e].dependsOn
             PROVE  HasDone(d)'
  BY DEF StartedReady
<1>2. CASE Rewritten
  <2>1. e \in Created
    BY <1>2 DEF Rewritten, Created
  <2>2. d \in row[e].dependsOn
    BY <1>1, <1>2, <2>1, WaitingRow DEF SameTask
  <2>3. row[e].claimEpoch \in Nat /\ hist[e] \in HistRecord
    BY <1>1, <2>1 DEF TypeOK, RowRecord
  <2>4. HasDone(d)
    <3>1. (hist'[e] = hist[e] /\ Effect(e)) \/ TracedEffect(e)
      BY <1>1, <1>2, <2>1, RowsTyped DEF Rewritten
    <3>2. CASE \E p \in Procs : row[e].taskID \in proc[p].rel
      BY <1>1, <2>1, <2>2, <3>2 DEF Ready
    <3>3. ASSUME ~hist[e].requeued, row[e].status # "blocked",
                 row[e].status # "failed" \/ row[e].claimEpoch > 0
          PROVE  HasDone(d)
      BY <1>1, <2>1, <2>2, <3>3 DEF StartedReady
    <3>4. CASE hist'[e] = hist[e] /\ Effect(e) /\ ~\E p \in Procs : row[e].taskID \in proc[p].rel
      <4>1. row[e].status # "failed" \/ row[e].claimEpoch > 0
        BY <1>1, <2>1, <2>3, <3>4, NoReuse DEF Effect, Becomes
      <4>2. row[e].status # "blocked"
        <5>1. CASE row'[e].status = "failed" /\ row[e].claimEpoch = row'[e].claimEpoch
          BY <1>1, <2>1, <2>3, <5>1 DEF WaitsFresh
        <5>2. CASE ~(row'[e].status = "failed" /\ row[e].claimEpoch = row'[e].claimEpoch)
          BY <1>1, <2>1, <3>4, <5>2, NoReuse DEF Effect, Becomes
        <5> QED BY <5>1, <5>2
      <4> QED BY <3>3, <3>4, <4>1, <4>2
    <3>5. CASE TracedEffect(e)
      <4>1. \/ /\ row[e].status = "running"
               /\ \E p \in Procs : hist'[e] = [hist[e] EXCEPT !.from = proc[p].from]
            \/ hist'[e] = [hist[e] EXCEPT !.base = row[e].claimEpoch, !.requeued = TRUE]
        BY <3>5 DEF TracedEffect, Guard
      <4>2. row[e].status = "running" /\ ~hist[e].requeued
        BY <2>3, <4>1 DEF HistRecord
      <4> QED BY <3>3, <4>2
    <3> QED BY <3>1, <3>2, <3>4, <3>5
  <2> QED BY <1>1, <2>1, <2>2, <2>4, DoneStays
<1>3. CASE Inserted
  <2>1. PICK s \in Specs :
              /\ s \in TaskSpec
              /\ Created' = Created \cup {n + 1} /\ n + 1 \notin Created
              /\ row'[n + 1] = NewRow(s) /\ hist'[n + 1] = NoHist
              /\ \A f \in Created : row'[f] = row[f] /\ hist'[f] = hist[f]
    BY <1>1, <1>3, InsertedRow
  <2>2. e # n + 1
    BY <2>1, NewRowTyped
  <2>3. e \in Created /\ row'[e] = row[e] /\ hist'[e] = hist[e]
    BY <2>1, <2>2
  <2>4. HasDone(d)
    BY <1>1, <2>3 DEF StartedReady
  <2> QED BY <1>1, <2>3, <2>4, DoneStays
<1> QED BY <1>1, <1>2, <1>3, StatementShape

LEMMA DepsInit == ASSUME Init PROVE DepsInv
<1>1. ReleaseInv
  BY ReleaseInit
<1>2. Created = 1..Len(Preloaded) /\ \A e \in Created : row[e] = NewRow(Preloaded[e])
  BY DEF Init, Created
<1>3. \A e \in Created : row[e].status # "blocked" => row[e].dependsOn = {}
  BY <1>2, NewRowTyped, SpecsAssumption
<1>4. StartedReady
  BY <1>3 DEF StartedReady
<1>5. Ready
  BY DEF Init, Ready, Idle
<1> QED BY <1>1, <1>4, <1>5 DEF DepsInv

\* No task starts before its dependencies are done, unless it was requeued by
\* hand: for any number of requests at a time where no task that others wait
\* for waits itself, and for dependencies of any depth where requests are
\* served one at a time.
THEOREM DependenciesFirst ==
    ASSUME GeneratedIDs, OneAtATime \/ Flat
    PROVE  Spec => []DepsDoneBeforeRun
<1>1. Init => DepsInv
  BY DepsInit
<1>2. DepsInv /\ [Next]_vars => DepsInv'
  BY ReleaseNext, ReadyNext, StartedNext DEF DepsInv
<1>3. DepsInv => DepsDoneBeforeRun
  BY DEF DepsInv, ReleaseInv, WaitsFresh, StartedReady, HasDone, DepsDoneBeforeRun
<1> QED BY <1>1, <1>2, <1>3, PTL DEF Spec
-----------------------------------------------------------------------------
(***************************************************************************)
(* No waiting task is forgotten.  A row whose dependencies have all ended  *)
(* is in the hands of some request that will look at it again: the one     *)
(* that ended the last dependency, or one that began its release later.    *)
(***************************************************************************)
\* A request runs to its end, and no claim is taken back: both may end a task
\* without a look at its dependants.
RunsOn == ~MayStop /\ Lease = 0
\* The waiting tasks exist from the start: nothing releases a task created
\* after its dependencies have ended.
WaitersFirst == \A s \in Specs : s.dependsOn = {}
\* No task that others wait for needs an approval: RejectTask releases nothing.
Outright == \A s, t \in Asks : s.taskID \in t.dependsOn => ~s.approvalRequired

\* Request p will look at the waiting row e, or has decided about it.
HandledBy(p, e) ==
    \/ proc[p].pc = "owner" /\ proc[p].id \in row[e].dependsOn
    \/ proc[p].pc = "list" /\ proc[p].agent = row[e].agentID
    \/ /\ proc[p].pc = "states" /\ proc[p].agent = row[e].agentID
       /\ <<row[e].taskID, row[e].dependsOn>> \in proc[p].blocked
    \/ proc[p].pc = "apply" /\ row[e].taskID \in proc[p].rel \cup proc[p].fld

InHand == \A e \in Created : Resolvable(e) => \E p \in Procs : HandledBy(p, e)

\* Only a task that asks for it waits for an approval.
Gated == \A e \in Created : row[e].status = "pending_approval" => row[e].approvalRequired

\* A report names the agent whose row it is about.
ReportAgent ==
    \A p \in Procs : proc[p].pc \in {"read", "write"} =>
        proc[p].agent = row[proc[p].from[1]].agentID

HandInv == ReleaseInv /\ Gated /\ ReportAgent /\ InHand

\* Agent a has a row with this ID that has ended.
Ended(id, a) ==
    \E f \in present : /\ row[f].taskID = id /\ row[f].agentID = a
                       /\ isTerminalStatus(row[f].status)

\* What the byID map of releaseDeps says of a dependency.
LEMMA LookupEnds ==
    ASSUME TypeOK, NEW id \in TaskIDs, NEW a
    PROVE  isTerminalStatus(LookupOf(a)[id]) <=> Ended(id, a)
<1>1. LookupOf(a)[id] = IF \E e \in WithID(id) : row[e].agentID = a
                        THEN row[CHOOSE e \in WithID(id) : TRUE].status ELSE Missing
  BY DEF LookupOf
<1>2. ~isTerminalStatus(Missing)
  BY DEF isTerminalStatus, Missing
<1>3. CASE \E e \in WithID(id) : row[e].agentID = a
  <2>1. PICK e \in WithID(id) : row[e].agentID = a
    BY <1>3
  <2>2. \A f \in WithID(id) : f = e
    BY <2>1 DEF WithID, TypeOK
  <2>3. (CHOOSE f \in WithID(id) : TRUE) = e
    BY <2>1, <2>2
  <2>4. LookupOf(a)[id] = row[e].status
    BY <1>1, <1>3, <2>3
  <2> QED BY <2>1, <2>2, <2>4 DEF Ended, WithID
<1>4. CASE ~\E e \in WithID(id) : row[e].agentID = a
  BY <1>1, <1>2, <1>4 DEF Ended, WithID
<1> QED BY <1>3, <1>4

LEMMA LookupEndsNext ==
    ASSUME TypeOK', NEW id \in TaskIDs, NEW a
    PROVE  isTerminalStatus(LookupOf(a)'[id]) <=> Ended(id, a)'
<1>1. LookupOf(a)'[id] = IF \E e \in WithID(id)' : row'[e].agentID = a
                         THEN row'[CHOOSE e \in WithID(id)' : TRUE].status ELSE Missing
  BY DEF LookupOf
<1>2. ~isTerminalStatus(Missing)
  BY DEF isTerminalStatus, Missing
<1>3. CASE \E e \in WithID(id)' : row'[e].agentID = a
  <2>1. PICK e \in WithID(id)' : row'[e].agentID = a
    BY <1>3
  <2>2. \A f \in WithID(id)' : f = e
    BY <2>1 DEF WithID, TypeOK
  <2>3. (CHOOSE f \in WithID(id)' : TRUE) = e
    BY <2>1, <2>2
  <2>4. LookupOf(a)'[id] = row'[e].status
    BY <1>1, <1>3, <2>3
  <2> QED BY <2>1, <2>2, <2>4 DEF Ended, WithID
<1>4. CASE ~\E e \in WithID(id)' : row'[e].agentID = a
  BY <1>1, <1>2, <1>4 DEF Ended, WithID
<1> QED BY <1>3, <1>4

LEMMA ResolvableRow ==
    ASSUME TypeOK, NEW e \in Created
    PROVE  Resolvable(e) <=> /\ e \in present /\ row[e].status = "blocked"
                             /\ \A d \in row[e].dependsOn : Ended(d, row[e].agentID)
<1>1. row[e].dependsOn \subseteq TaskIDs
  BY DEF TypeOK, RowRecord
<1> QED BY <1>1, LookupEnds DEF Resolvable, AllDepsTerminal

LEMMA ResolvableRowNext ==
    ASSUME TypeOK', NEW e \in Created', NEW a, a = row'[e].agentID
    PROVE  Resolvable(e)' <=> /\ e \in present' /\ row'[e].status = "blocked"
                              /\ \A d \in row'[e].dependsOn : Ended(d, a)'
<1>1. row'[e].dependsOn \subseteq TaskIDs
  BY DEF TypeOK, RowRecord
<1>2. \A d \in row'[e].dependsOn : isTerminalStatus(LookupOf(a)'[d]) <=> Ended(d, a)'
  BY <1>1, LookupEndsNext
<1>3. LookupOf(row[e].agentID)' = LookupOf(a)'
  BY DEF LookupOf
<1>4. Resolvable(e)' <=> /\ e \in present' /\ row'[e].status = "blocked"
                         /\ AllDepsTerminal(row'[e].dependsOn, LookupOf(row[e].agentID)')
  BY DEF Resolvable
<1> QED BY <1>2, <1>3, <1>4 DEF AllDepsTerminal

\* A dependency ends only through the report of its claim or a cancellation,
\* and the request that ends it goes on to the dependants.
LEMMA EndsBy ==
    ASSUME GeneratedIDs, Flat, RunsOn, Outright, ReleaseInv, Gated, ReportAgent, [Next]_vars,
           NEW e \in Created, NEW f \in Created, row[f].taskID \in row[e].dependsOn,
           ~isTerminalStatus(row[f].status), isTerminalStatus(row'[f].status)
    PROVE  \E p \in Procs :
              \/ proc'[p].pc = "owner" /\ proc'[p].id = row[f].taskID
              \/ proc'[p].pc = "list" /\ proc'[p].agent = row[f].agentID
<1>1. /\ TypeOK /\ IDsOK /\ ClaimsHeld /\ AsAsked /\ Listed
      /\ row[f] \in RowRecord /\ proc \in [Procs -> ProcRecord] /\ Lease = 0
  BY DEF ReleaseInv, TypeOK, RunsOn
<1>2. row'[f].status # row[f].status /\ row'[f] # row[f] /\ row' # row
  OBVIOUS
<1>3. PICK s \in Asks : /\ row[f].taskID = s.taskID /\ row[f].dependsOn = s.dependsOn
                        /\ row[f].approvalRequired = s.approvalRequired
  BY <1>1 DEF AsAsked
<1>4. PICK t \in Asks : row[e].dependsOn = t.dependsOn
  BY <1>1 DEF AsAsked
<1>5. row[f].dependsOn = {} /\ ~row[f].approvalRequired
  BY <1>3, <1>4 DEF Flat, Outright
<1>6. row'[f].status \in {"done", "failed", "cancelled", "rejected", "dead_letter"}
  BY DEF isTerminalStatus
<1>7. ASSUME NEW x \in Specs, InsertTask(x) PROVE FALSE
  <2>1. row'[f] = row[f] \/ row'[f] = Upserted(row[f], x)
    BY <1>1, <1>7 DEF InsertTask, Update, Created, TypeOK
  <2> QED BY <1>1, <1>2, <1>6, <2>1, UpsertBecomes
<1>8. ASSUME NEW x \in Specs, CreateTask(x) PROVE FALSE
  BY <1>7, <1>8 DEF CreateTask
<1>9. ASSUME NEW p \in Procs, CreateTaskWithIdempotency(p) PROVE FALSE
  <2>1. PICK x \in proc[p].asked : InsertTask(x)
    BY <1>9 DEF CreateTaskWithIdempotency
  <2>2. x \in Specs
    BY <1>1 DEF ProcRecord
  <2> QED BY <1>7, <2>1, <2>2
<1>10. ASSUME NEW a \in Agents, ClaimTask(a) PROVE FALSE
  <2>1. PICK c : row' = [g \in Created |-> IF g \in {c} THEN Claimed(row[g], a) ELSE row[g]]
    BY <1>10 DEF ClaimTask, Update
  <2>2. row'[f] = Claimed(row[f], a)
    BY <1>2, <2>1
  <2> QED BY <1>1, <1>6, <2>2, ClaimBecomes DEF Becomes
<1>11. ASSUME NEW p \in Procs, WriteTask(p)
       PROVE  proc'[p].pc = "list" /\ proc'[p].agent = row[f].agentID
  <2>1. PICK q \in ProcRecord : q = proc[p]
    BY <1>1
  <2>2. row' = [g \in Created |-> IF g \in Guard(q) THEN Reported(row[g], q.verdict) ELSE row[g]]
    BY <1>11, <2>1 DEF WriteTask, Update
  <2>3. f \in Guard(q)
    BY <1>2, <2>2
  <2>4. PICK O : proc' = [proc EXCEPT ![p] = [q EXCEPT !.pc = "list", !.owed = O]]
    BY <1>11, <2>1, <2>3 DEF WriteTask
  <2>5. proc'[p].pc = "list" /\ proc'[p].agent = q.agent
    BY <1>1, <2>4 DEF ProcRecord
  <2>6. q.pc = "write"
    BY <1>11, <2>1 DEF WriteTask
  <2>7. /\ q.from[1] \in Created /\ row[q.from[1]].taskID = q.id
        /\ q.agent = row[q.from[1]].agentID
    BY <1>1, <2>1, <2>6 DEF ClaimsHeld, ReportAgent
  <2>8. row[f].taskID = q.id
    BY <2>3 DEF Guard, WithID
  <2>9. q.from[1] = f
    BY <1>1, <2>7, <2>8 DEF IDsOK, UniqueIDs, GeneratedIDs
  <2> QED BY <2>5, <2>7, <2>9
<1>12. ASSUME NEW p \in Procs, ApplyRelease(p) PROVE FALSE
  <2>1. PICK id \in proc[p].rel \cup proc[p].fld :
           Update(WithID(id), FailedUpstream) \/ Update(WithID(id), Released)
    BY <1>12 DEF ApplyRelease
  <2>2. row[f].taskID = id
    BY <1>2, <2>1 DEF Update, WithID
  <2>3. PICK g \in Created : row[g].taskID = id /\ row[g].dependsOn # {}
    BY <1>1, <2>1 DEF Listed, Waiter
  <2>4. g = f
    BY <1>1, <2>2, <2>3 DEF IDsOK, UniqueIDs, GeneratedIDs
  <2> QED BY <1>5, <2>3, <2>4
<1>13. ASSUME NEW p \in Procs, NEW id \in TaskIDs, CancelTask(p, id)
       PROVE  proc'[p].pc = "owner" /\ proc'[p].id = row[f].taskID
  <2>1. row[f].taskID = id
    BY <1>2, <1>13 DEF CancelTask, Update, WithID
  <2>2. proc' = [proc EXCEPT ![p] = [Idle EXCEPT !.pc = "owner", !.id = id]]
    BY <1>13 DEF CancelTask
  <2>3. proc'[p].pc = "owner" /\ proc'[p].id = id
    BY <1>1, <2>2 DEF Idle
  <2> QED BY <2>1, <2>3
<1>14. ASSUME NEW id \in TaskIDs, ApproveTask(id) PROVE FALSE
  <2>1. row'[f] = [row[f] EXCEPT !.status = "pending", !.approved = TRUE]
    BY <1>2, <1>14 DEF ApproveTask, Update
  <2> QED BY <1>1, <1>6, <2>1, EditBecomes DEF Becomes
<1>15. ASSUME NEW id \in TaskIDs, RejectTask(id) PROVE FALSE
  <2>1. row[f].status = "pending_approval"
    BY <1>2, <1>15 DEF RejectTask, Update
  <2> QED BY <1>5, <2>1 DEF Gated
<1>16. ASSUME NEW id \in TaskIDs, RetryDeadLetterTask(id) PROVE FALSE
  <2>1. row'[f] = Requeued(row[f])
    BY <1>2, <1>16 DEF RetryDeadLetterTask, Update
  <2> QED BY <1>1, <1>6, <2>1, RequeueBecomes DEF Becomes
<1>17. ASSUME NEW g \in present, LeaseExpires(g) PROVE FALSE
  BY <1>1, <1>17 DEF LeaseExpires
<1>18. ~ReclaimStaleTasks
  BY <1>1 DEF ReclaimStaleTasks
<1>19. ASSUME NEW p \in Procs,
              \/ ReadTask(p) \/ AddAlert(p) \/ ListBlocked(p) \/ ReadStates(p) \/ ReadOwner(p)
              \/ Stop(p)
       PROVE  FALSE
  BY <1>2, <1>19 DEF ReadTask, AddAlert, ListBlocked, ReadStates, ReadOwner, Stop
<1>20. ASSUME NEW p \in Procs, NEW x, LookupKey(p, x) PROVE FALSE
  BY <1>2, <1>20 DEF LookupKey
<1>21. ASSUME NEW a, Heartbeat(a) \/ HeartbeatLapses(a) PROVE FALSE
  BY <1>2, <1>21 DEF Heartbeat, HeartbeatLapses
<1>22. ASSUME NEW p, NEW c, NEW epoch, NEW ok, SubmitResult(p, c, epoch, ok) PROVE FALSE
  BY <1>2, <1>22 DEF SubmitResult
<1>23. ASSUME NEW id, DeleteTask(id) PROVE FALSE
  BY <1>2, <1>23 DEF DeleteTask
<1>24. CASE UNCHANGED vars
  BY <1>2, <1>24 DEF vars
<1>25. ASSUME NEW p \in Procs, Step(p)
       PROVE  proc'[p].pc = "list" /\ proc'[p].agent = row[f].agentID
  BY <1>9, <1>11, <1>12, <1>19, <1>25 DEF Step
<1> QED BY <1>8, <1>10, <1>13, <1>14, <1>15, <1>16, <1>17, <1>18, <1>19, <1>20, <1>21, <1>22,
           <1>23, <1>24, <1>25 DEF Next

\* A request that has a waiting row in hand keeps it until the row is decided.
LEMMA HandStays ==
    ASSUME RunsOn, TypeOK, [Next]_vars, NEW e \in Created, NEW p \in Procs,
           HandledBy(p, e), Resolvable(e), row'[e].status = "blocked",
           SameTask(row[e], row'[e])
    PROVE  HandledBy(p, e)'
<1>1. PICK q \in ProcRecord : q = proc[p]
  BY DEF TypeOK
<1>2. proc \in [Procs -> ProcRecord] /\ row[e] \in RowRecord
  BY DEF TypeOK
<1>3. /\ row'[e].taskID = row[e].taskID /\ row'[e].agentID = row[e].agentID
      /\ row'[e].dependsOn = row[e].dependsOn
  BY DEF SameTask
<1>4. /\ e \in present /\ row[e].status = "blocked"
      /\ \A d \in row[e].dependsOn : Ended(d, row[e].agentID)
  BY ResolvableRow
<1>5. q.pc \in {"owner", "list", "states", "apply"} /\ proc[p] # Idle
  BY <1>1 DEF HandledBy, Idle
<1>6. CASE proc'[p] = proc[p]
  <2>1. HandledBy(p, e)' <=>
          \/ proc'[p].pc = "owner" /\ proc'[p].id \in row'[e].dependsOn
          \/ proc'[p].pc = "list" /\ proc'[p].agent = row'[e].agentID
          \/ /\ proc'[p].pc = "states" /\ proc'[p].agent = row'[e].agentID
             /\ <<row'[e].taskID, row'[e].dependsOn>> \in proc'[p].blocked
          \/ proc'[p].pc = "apply" /\ row'[e].taskID \in proc'[p].rel \cup proc'[p].fld
    BY DEF HandledBy
  <2> QED BY <1>3, <1>6, <2>1 DEF HandledBy
<1>8. ASSUME ListBlocked(p) PROVE HandledBy(p, e)'
  <2>1. PICK ws : ws = {f \in present : row[f].agentID = q.agent /\ row[f].status = "blocked"}
    OBVIOUS
  <2>2. q.pc = "list" /\ q.agent = row[e].agentID
    BY <1>1, <1>8 DEF ListBlocked, HandledBy
  <2>3. e \in ws
    BY <1>4, <2>1, <2>2
  <2>4. PICK B : B = {<<row[f].taskID, row[f].dependsOn>> : f \in ws}
    OBVIOUS
  <2>5. proc' = [proc EXCEPT ![p] = [q EXCEPT !.pc = "states", !.blocked = B]]
    BY <1>1, <1>8, <2>1, <2>3, <2>4 DEF ListBlocked
  <2>6. proc'[p].pc = "states" /\ proc'[p].agent = q.agent /\ proc'[p].blocked = B
    BY <1>2, <2>5 DEF ProcRecord
  <2>7. <<row[e].taskID, row[e].dependsOn>> \in B
    BY <2>3, <2>4
  <2> QED BY <1>3, <2>2, <2>6, <2>7 DEF HandledBy
<1>9. ASSUME ReadStates(p) PROVE HandledBy(p, e)'
  <2>1. PICK byID : byID = LookupOf(q.agent)
    OBVIOUS
  <2>2. PICK over : over = {b \in q.blocked : AllDepsTerminal(b[2], byID)}
    OBVIOUS
  <2>3. PICK fld : fld = {b[1] : b \in {x \in over : AnyDepFailed(x[2], byID)}}
    OBVIOUS
  <2>4. PICK rel : rel = {b[1] : b \in over} \ fld
    OBVIOUS
  <2>5. proc' = [proc EXCEPT ![p] =
                   IF rel \cup fld = {} THEN Idle
                   ELSE [q EXCEPT !.pc = "apply", !.blocked = {}, !.rel = rel, !.fld = fld]]
    BY <1>1, <1>9, <2>1, <2>2, <2>3, <2>4 DEF ReadStates
  <2>6. PICK b : b = <<row[e].taskID, row[e].dependsOn>>
    OBVIOUS
  <2>7. q.pc = "states" /\ q.agent = row[e].agentID /\ b \in q.blocked
    BY <1>1, <1>9, <2>6 DEF ReadStates, HandledBy
  <2>8. AllDepsTerminal(row[e].dependsOn, byID)
    BY <2>1, <2>7 DEF Resolvable
  <2>9. b \in over /\ b[1] = row[e].taskID
    BY <2>2, <2>6, <2>7, <2>8
  <2>10. row[e].taskID \in rel \cup fld
    BY <2>4, <2>9
  <2>11. proc' = [proc EXCEPT ![p] =
                    [q EXCEPT !.pc = "apply", !.blocked = {}, !.rel = rel, !.fld = fld]]
    BY <2>5, <2>10
  <2>12. proc'[p].pc = "apply" /\ proc'[p].rel = rel /\ proc'[p].fld = fld
    BY <1>2, <2>11 DEF ProcRecord
  <2> QED BY <1>3, <2>10, <2>12 DEF HandledBy
<1>10. ASSUME ApplyRelease(p) PROVE HandledBy(p, e)'
  <2>1. PICK id \in q.rel \cup q.fld :
          LET left == [q EXCEPT !.rel = @ \ {id}, !.fld = @ \ {id},
                                !.owed = IF id \in q.fld THEN {id} ELSE {}]
          IN  /\ IF id \in q.fld THEN Update(WithID(id), FailedUpstream)
                                 ELSE Update(WithID(id), Released)
              /\ proc' = [proc EXCEPT ![p] =
                            IF left.rel \cup left.fld \cup left.owed = {}
                            THEN Idle ELSE left]
    BY <1>1, <1>10 DEF ApplyRelease
  <2>2. q.pc = "apply" /\ row[e].taskID \in q.rel \cup q.fld
    BY <1>1, <1>10 DEF ApplyRelease, HandledBy
  <2>3. id # row[e].taskID
    <3>1. SUFFICES ASSUME id = row[e].taskID PROVE FALSE
      OBVIOUS
    <3>2. e \in WithID(id)
      BY <1>4, <3>1 DEF WithID
    <3>3. row'[e] = FailedUpstream(row[e]) \/ row'[e] = Released(row[e])
      BY <2>1, <3>2 DEF Update
    <3> QED BY <1>2, <3>3, FailBecomes, ReleaseBecomes DEF Becomes
  <2>4. PICK O : O = IF id \in q.fld THEN {id} ELSE {}
    OBVIOUS
  <2>5. PICK left : left = [q EXCEPT !.rel = @ \ {id}, !.fld = @ \ {id}, !.owed = O]
    OBVIOUS
  <2>6. proc' = [proc EXCEPT ![p] = IF left.rel \cup left.fld \cup left.owed = {} THEN Idle ELSE left]
    BY <2>1, <2>4, <2>5
  <2>7. left.rel = q.rel \ {id} /\ left.fld = q.fld \ {id} /\ left.pc = "apply"
    BY <2>2, <2>5 DEF ProcRecord
  <2>8. row[e].taskID \in left.rel \cup left.fld
    BY <2>2, <2>3, <2>7
  <2>9. proc'[p] = left
    BY <1>2, <2>6, <2>8
  <2> QED BY <1>3, <2>7, <2>8, <2>9 DEF HandledBy
<1>11. ASSUME ReadOwner(p) PROVE HandledBy(p, e)'
  <2>1. q.pc = "owner" /\ q.id \in row[e].dependsOn
    BY <1>1, <1>11 DEF ReadOwner, HandledBy
  <2>2. PICK f \in present : row[f].taskID = q.id /\ row[f].agentID = row[e].agentID
    BY <1>4, <2>1 DEF Ended
  <2>3. \A g \in WithID(q.id) : g = f
    BY <2>2 DEF WithID, TypeOK
  <2>4. WithID(q.id) # {}
    BY <2>2 DEF WithID
  <2>5. proc' = [proc EXCEPT ![p] = [q EXCEPT !.pc = "list", !.agent = row[f].agentID]]
    BY <1>1, <1>11, <2>3, <2>4 DEF ReadOwner
  <2>6. proc'[p].pc = "list" /\ proc'[p].agent = row[f].agentID
    BY <1>2, <2>5 DEF ProcRecord
  <2> QED BY <1>3, <2>2, <2>6 DEF HandledBy
<1>12. ASSUME AddAlert(p) PROVE HandledBy(p, e)'
  <2>1. q.pc = "apply" => q.rel \cup q.fld # {}
    BY <1>1 DEF HandledBy
  <2>2. proc' = [proc EXCEPT ![p] = [q EXCEPT !.owed = {}]]
    BY <1>1, <1>2, <1>12, <2>1 DEF AddAlert
  <2>3. /\ proc'[p].pc = q.pc /\ proc'[p].id = q.id /\ proc'[p].agent = q.agent
        /\ proc'[p].blocked = q.blocked /\ proc'[p].rel = q.rel /\ proc'[p].fld = q.fld
    BY <1>2, <2>2 DEF ProcRecord
  <2>4. CASE q.pc = "owner"
    BY <1>1, <1>3, <2>3, <2>4 DEF HandledBy
  <2>5. CASE q.pc = "list"
    BY <1>1, <1>3, <2>3, <2>5 DEF HandledBy
  <2>6. CASE q.pc = "states"
    BY <1>1, <1>3, <2>3, <2>6 DEF HandledBy
  <2>7. CASE q.pc = "apply"
    BY <1>1, <1>3, <2>3, <2>7 DEF HandledBy
  <2> QED BY <1>5, <2>4, <2>5, <2>6, <2>7
<1>13. ASSUME NEW r \in Procs,
              CreateTaskWithIdempotency(r) \/ ReadTask(r) \/ WriteTask(r)
       PROVE  HandledBy(p, e)'
  <2>1. proc[r].pc \in {"insert", "read", "write"}
    BY <1>13 DEF CreateTaskWithIdempotency, ReadTask, WriteTask
  <2>2. r # p
    BY <1>1, <1>5, <2>1
  <2>3. proc'[p] = proc[p]
    BY <1>2, <1>13, <2>2 DEF CreateTaskWithIdempotency, ReadTask, WriteTask
  <2> QED BY <1>6, <2>3
<1>14. ASSUME NEW r \in Procs, r # p,
              \/ ListBlocked(r) \/ ReadStates(r) \/ ApplyRelease(r) \/ ReadOwner(r) \/ AddAlert(r)
       PROVE  HandledBy(p, e)'
  <2>1. proc'[p] = proc[p]
    <3>1. CASE ListBlocked(r)
      BY <1>2, <1>14, <3>1 DEF ListBlocked
    <3>2. CASE ReadStates(r)
      BY <1>2, <1>14, <3>2 DEF ReadStates
    <3>3. CASE ApplyRelease(r)
      BY <1>2, <1>14, <3>3 DEF ApplyRelease
    <3>4. CASE ReadOwner(r)
      BY <1>2, <1>14, <3>4 DEF ReadOwner
    <3>5. CASE AddAlert(r)
      BY <1>2, <1>14, <3>5 DEF AddAlert
    <3> QED BY <1>14, <3>1, <3>2, <3>3, <3>4, <3>5
  <2> QED BY <1>6, <2>1
<1>15. ASSUME NEW r \in Procs, Step(r) PROVE HandledBy(p, e)'
  BY <1>8, <1>9, <1>10, <1>11, <1>12, <1>13, <1>14, <1>15 DEF Step
<1>16. ASSUME NEW r \in Procs, Stop(r) PROVE FALSE
  BY <1>16 DEF Stop, RunsOn
<1>17. ASSUME NEW r \in Procs,
              \/ \E s \in Specs : LookupKey(r, s)
              \/ \E c \in Created : \E epoch \in 1..row[c].claimEpoch, ok \in BOOLEAN :
                    SubmitResult(r, c, epoch, ok)
              \/ \E id \in TaskIDs : CancelTask(r, id)
       PROVE  HandledBy(p, e)'
  <2>1. proc[r] = Idle
    BY <1>17 DEF LookupKey, SubmitResult, CancelTask
  <2>2. Others(r)
    BY <1>17, BeginProceeds
  <2> QED BY <1>5, <1>6, <2>1, <2>2 DEF Others
<1>18. ASSUME UNCHANGED proc PROVE HandledBy(p, e)'
  BY <1>6, <1>18
<1>19. ASSUME NEW a \in Agents, ClaimTask(a) \/ Heartbeat(a) \/ HeartbeatLapses(a)
       PROVE  UNCHANGED proc
  BY <1>19 DEF ClaimTask, Heartbeat, HeartbeatLapses
<1>20. ASSUME NEW id, ApproveTask(id) \/ RejectTask(id) \/ RetryDeadLetterTask(id) \/ DeleteTask(id)
       PROVE  UNCHANGED proc
  BY <1>20 DEF ApproveTask, RejectTask, RetryDeadLetterTask, DeleteTask
<1>21. ASSUME (\E s \in Specs : CreateTask(s)) \/ (\E f \in present : LeaseExpires(f))
              \/ ReclaimStaleTasks \/ UNCHANGED vars
       PROVE  UNCHANGED proc
  BY <1>21 DEF CreateTask, LeaseExpires, ReclaimStaleTasks, vars
<1> QED BY <1>15, <1>16, <1>17, <1>18, <1>19, <1>20, <1>21 DEF Next

\* A waiting row was one before, and each of its dependencies that has ended
\* had ended before or ends in this step.
LEMMA ResolvedBefore ==
    ASSUME GeneratedIDs, WaitersFirst, ReleaseInv, [Next]_vars, TypeOK',
           NEW e \in Created', Resolvable(e)'
    PROVE  /\ e \in Created /\ SameTask(row[e], row'[e]) /\ row'[e].status = "blocked"
           /\ \/ Resolvable(e)
              \/ \E f \in Created :
                    /\ row[f].taskID \in row[e].dependsOn /\ row[f].agentID = row[e].agentID
                    /\ ~isTerminalStatus(row[f].status) /\ isTerminalStatus(row'[f].status)
<1>1. TypeOK /\ Judged /\ IDsOK /\ n \in Nat /\ present \subseteq Created
  BY DEF ReleaseInv, TypeOK
<1>2. PICK a : a = row'[e].agentID
  OBVIOUS
<1>3. /\ e \in present' /\ row'[e].status = "blocked"
      /\ \A d \in row'[e].dependsOn : Ended(d, a)'
  BY <1>2, ResolvableRowNext
<1>4. ASSUME e \in present, row[e].status = "blocked", SameTask(row[e], row'[e]),
             NEW F, F = {f \in present : SameTask(row[f], row'[f])},
             \A g \in present' : isTerminalStatus(row'[g].status) => g \in F
      PROVE  \/ Resolvable(e)
             \/ \E f \in Created :
                   /\ row[f].taskID \in row[e].dependsOn /\ row[f].agentID = row[e].agentID
                   /\ ~isTerminalStatus(row[f].status) /\ isTerminalStatus(row'[f].status)
  <2>1. e \in Created /\ row[e].agentID = a /\ row'[e].dependsOn = row[e].dependsOn
    BY <1>1, <1>2, <1>4 DEF SameTask
  <2>2. SUFFICES ASSUME ~Resolvable(e)
                 PROVE  \E f \in Created :
                   /\ row[f].taskID \in row[e].dependsOn /\ row[f].agentID = row[e].agentID
                   /\ ~isTerminalStatus(row[f].status) /\ isTerminalStatus(row'[f].status)
    OBVIOUS
  <2>3. PICK d \in row[e].dependsOn : ~Ended(d, a)
    BY <1>1, <1>4, <2>1, <2>2, ResolvableRow
  <2>4. Ended(d, a)'
    BY <1>3, <2>1
  <2>5. PICK f \in present' : /\ row'[f].taskID = d /\ row'[f].agentID = a
                              /\ isTerminalStatus(row'[f].status)
    BY <2>4 DEF Ended
  <2>6. f \in present /\ row[f].taskID = d /\ row[f].agentID = a
    BY <1>4, <2>5 DEF SameTask
  <2>7. ~isTerminalStatus(row[f].status)
    BY <2>3, <2>6 DEF Ended
  <2> QED BY <1>1, <2>1, <2>5, <2>6, <2>7
<1>5. CASE Rewritten
  <2>1. Created' = Created /\ present' \subseteq present
    BY <1>5 DEF Rewritten, Created
  <2>2. \A f \in Created : SameTask(row[f], row'[f])
    BY <1>1, <1>5, WaitingRow
  <2>3. e \in Created /\ e \in present /\ row[e].status = "blocked"
    BY <1>1, <1>3, <1>5, <2>1, WaitingRow
  <2>4. \A g \in present' : g \in {f \in present : SameTask(row[f], row'[f])}
    BY <1>1, <2>1, <2>2
  <2> QED BY <1>3, <1>4, <2>2, <2>3, <2>4
<1>6. CASE Inserted
  <2>1. PICK s \in Specs :
              /\ s \in TaskSpec
              /\ Created' = Created \cup {n + 1} /\ n + 1 \notin Created
              /\ row'[n + 1] = NewRow(s) /\ hist'[n + 1] = NoHist
              /\ \A f \in Created : row'[f] = row[f] /\ hist'[f] = hist[f]
    BY <1>1, <1>6, InsertedRow
  <2>2. row'[n + 1].status # "blocked" /\ ~isTerminalStatus(row'[n + 1].status)
    BY <2>1, NewRowTyped DEF WaitersFirst, isTerminalStatus
  <2>3. present' = present \cup {n + 1}
    BY <1>6 DEF Inserted
  <2>4. e \in Created /\ e \in present /\ row[e].status = "blocked" /\ SameTask(row[e], row'[e])
    BY <1>1, <1>3, <2>1, <2>2, <2>3 DEF SameTask
  <2>5. \A g \in present' :
          isTerminalStatus(row'[g].status) => g \in {f \in present : SameTask(row[f], row'[f])}
    BY <1>1, <2>1, <2>2, <2>3 DEF SameTask
  <2> QED BY <1>3, <1>4, <2>4, <2>5
<1> QED BY <1>1, <1>5, <1>6, StatementShape

LEMMA InHandNext ==
    ASSUME GeneratedIDs, Flat, RunsOn, WaitersFirst, Outright, HandInv, [Next]_vars, TypeOK'
    PROVE  InHand'
<1>1. ReleaseInv /\ Gated /\ ReportAgent /\ InHand /\ TypeOK
  BY DEF HandInv, ReleaseInv
<1> SUFFICES ASSUME NEW e \in Created', Resolvable(e)'
             PROVE  \E p \in Procs : HandledBy(p, e)'
  BY DEF InHand
<1>2. e \in Created /\ SameTask(row[e], row'[e]) /\ row'[e].status = "blocked"
  BY <1>1, ResolvedBefore
<1>3. CASE Resolvable(e)
  <2>1. PICK p \in Procs : HandledBy(p, e)
    BY <1>1, <1>2, <1>3 DEF InHand
  <2>2. HandledBy(p, e)'
    BY <1>1, <1>2, <1>3, <2>1, HandStays
  <2> QED BY <2>2
<1>4. CASE ~Resolvable(e)
  <2>1. PICK f \in Created :
          /\ row[f].taskID \in row[e].dependsOn /\ row[f].agentID = row[e].agentID
          /\ ~isTerminalStatus(row[f].status) /\ isTerminalStatus(row'[f].status)
    BY <1>1, <1>4, ResolvedBefore
  <2>2. PICK p \in Procs : \/ proc'[p].pc = "owner" /\ proc'[p].id = row[f].taskID
                           \/ proc'[p].pc = "list" /\ proc'[p].agent = row[f].agentID
    BY <1>1, <1>2, <2>1, EndsBy
  <2>3. HandledBy(p, e)'
    BY <1>2, <2>1, <2>2 DEF HandledBy, SameTask
  <2> QED BY <2>3
<1> QED BY <1>3, <1>4

LEMMA GatedNext ==
    ASSUME GeneratedIDs, ReleaseInv, Gated, [Next]_vars
    PROVE  Gated'
<1>1. TypeOK /\ Judged /\ IDsOK
  BY DEF ReleaseInv
<1> SUFFICES ASSUME NEW e \in Created', row'[e].status = "pending_approval"
             PROVE  row'[e].approvalRequired
  BY DEF Gated
<1>2. CASE Rewritten
  <2>1. e \in Created
    BY <1>2 DEF Rewritten, Created
  <2>2. (hist'[e] = hist[e] /\ Effect(e)) \/ TracedEffect(e)
    BY <1>1, <1>2, <2>1, RowsTyped DEF Rewritten
  <2>3. CASE Effect(e)
    <3>1. row[e].status = "pending_approval"
      BY <1>1, <2>1, <2>3, NoReuse DEF Effect, Becomes
    <3>2. SameTask(row[e], row'[e])
      BY <1>1, <1>2, <2>1, WaitingRow
    <3> QED BY <2>1, <3>1, <3>2 DEF Gated, SameTask
  <2>4. CASE TracedEffect(e)
    <3>1. row'[e].status = "done" \/ row'[e].status = "pending" \/ row'[e].status = "failed"
      BY <2>4, Zenon DEF TracedEffect, Becomes
    <3> QED BY <3>1
  <2> QED BY <2>2, <2>3, <2>4
<1>3. CASE Inserted
  <2>1. PICK s \in Specs :
              /\ s \in TaskSpec
              /\ Created' = Created \cup {n + 1} /\ n + 1 \notin Created
              /\ row'[n + 1] = NewRow(s) /\ hist'[n + 1] = NoHist
              /\ \A f \in Created : row'[f] = row[f] /\ hist'[f] = hist[f]
    BY <1>1, <1>3, InsertedRow
  <2>2. NewRow(s).status = "pending_approval" => NewRow(s).approvalRequired
    BY DEF NewRow, InitialStatus
  <2> QED BY <2>1, <2>2 DEF Gated
<1> QED BY <1>1, <1>2, <1>3, StatementShape

LEMMA ReportAgentNext ==
    ASSUME GeneratedIDs, ReleaseInv, ReportAgent, [Next]_vars
    PROVE  ReportAgent'
<1>1. TypeOK /\ Judged /\ IDsOK /\ ClaimsHeld
  BY DEF ReleaseInv
<1> SUFFICES ASSUME NEW p \in Procs, proc'[p].pc \in {"read", "write"}
             PROVE  proc'[p].agent = row'[proc'[p].from[1]].agentID
  BY DEF ReportAgent
<1>2. Proceeds(p) /\ proc[p] \in ProcRecord
  BY <1>1, RequestShape DEF TypeOK
<1>3. \A e \in Created : row'[e].agentID = row[e].agentID
  <2>1. CASE Rewritten
    BY <1>1, <2>1, WaitingRow DEF SameTask
  <2>2. CASE Inserted
    BY <1>1, <2>2, InsertedRow
  <2> QED BY <1>1, <2>1, <2>2, StatementShape
<1>4. ASSUME proc'[p].agent = proc[p].agent, proc'[p].from = proc[p].from,
             proc[p].pc \in {"read", "write"}
      PROVE  proc'[p].agent = row'[proc'[p].from[1]].agentID
  <2>1. proc[p].from[1] \in Created /\ proc[p].agent = row[proc[p].from[1]].agentID
    BY <1>1, <1>4 DEF ClaimsHeld, ReportAgent
  <2> QED BY <1>3, <1>4, <2>1
<1>5. CASE Receives(p)
  <2>1. PICK c \in Created : \E epoch \in 1..row[c].claimEpoch, ok \in BOOLEAN :
          proc'[p] = [Idle EXCEPT !.pc = "read", !.id = row[c].taskID,
                        !.agent = row[c].agentID, !.from = <<c, epoch>>, !.ok = ok]
    BY <1>5 DEF Receives
  <2>2. proc'[p].agent = row[c].agentID /\ proc'[p].from[1] = c
    BY <2>1 DEF Idle
  <2> QED BY <1>3, <2>2
<1>6. CASE Judges(p)
  <2>1. /\ proc'[p].agent = proc[p].agent /\ proc'[p].from = proc[p].from
        /\ proc[p].pc = "read"
    BY <1>2, <1>6 DEF Judges, ProcRecord
  <2> QED BY <1>4, <2>1
<1>7. CASE GoesOn(p)
  BY <1>4, <1>7 DEF GoesOn
<1>8. ~TakesUp(p)
  BY DEF TakesUp, Idle
<1>9. ~Lists(p)
  BY <1>2 DEF Lists, ProcRecord
<1>10. ~Weighs(p)
  BY <1>2 DEF Weighs, ProcRecord
<1>11. ~Applies(p)
  BY <1>2 DEF Applies, ProcRecord
<1> QED BY <1>2, <1>4, <1>5, <1>6, <1>7, <1>8, <1>9, <1>10, <1>11 DEF Proceeds, Idle

LEMMA HandInit == ASSUME Init PROVE HandInv
<1>1. ReleaseInv
  BY ReleaseInit
<1>2. TypeOK
  BY <1>1 DEF ReleaseInv
<1>3. Created = 1..Len(Preloaded) /\ \A e \in Created : row[e] = NewRow(Preloaded[e])
  BY DEF Init, Created
<1>4. Gated
  <2>1. \A s : NewRow(s).status = "pending_approval" => NewRow(s).approvalRequired
    BY DEF NewRow, InitialStatus
  <2> QED BY <1>3, <2>1 DEF Gated
<1>5. ReportAgent
  BY DEF Init, Idle, ReportAgent
<1>6. InHand
  <2>1. \A e \in Created : ~isTerminalStatus(row[e].status)
    BY <1>3, NewRowTyped, SpecsAssumption DEF isTerminalStatus
  <2>2. present = Created
    BY DEF Init
  <2>3. \A id, a : ~Ended(id, a)
    BY <2>1, <2>2 DEF Ended
  <2>4. \A e \in Created : row[e].status = "blocked" => row[e].dependsOn # {}
    BY <1>1 DEF ReleaseInv, WaitsFresh
  <2> QED BY <1>2, <2>3, <2>4, ResolvableRow DEF InHand
<1> QED BY <1>1, <1>4, <1>5, <1>6 DEF HandInv

\* When no request is in flight, no task waits for dependencies that have all
\* ended, however the reports, cancellations and releases of any number of
\* requests overlap: of the requests that end a task's last dependencies, the
\* one that reads the statuses last sees them all.
THEOREM NoneForgotten ==
    ASSUME GeneratedIDs, Flat, RunsOn, WaitersFirst, Outright
    PROVE  Spec => []NoneWaitsInVain
<1>1. Init => HandInv
  BY HandInit
<1>2. HandInv /\ [Next]_vars => HandInv'
  <2> SUFFICES ASSUME HandInv, [Next]_vars PROVE HandInv'
    OBVIOUS
  <2>1. ReleaseInv'
    BY ReleaseNext DEF HandInv
  <2>2. TypeOK'
    BY <2>1 DEF ReleaseInv
  <2>3. Gated' /\ ReportAgent'
    BY GatedNext, ReportAgentNext DEF HandInv
  <2>4. InHand'
    BY <2>2, InHandNext
  <2> QED BY <2>1, <2>3, <2>4 DEF HandInv
<1>3. HandInv => NoneWaitsInVain
  <2>1. \A p \in Procs, e \in Created : proc[p] = Idle => ~HandledBy(p, e)
    BY DEF HandledBy, Idle
  <2> QED BY <2>1 DEF HandInv, InHand, NoneWaitsInVain
<1> QED BY <1>1, <1>2, <1>3, PTL DEF Spec
-----------------------------------------------------------------------------
(***************************************************************************)
(* The store implements TaskLifecycle where neither overlapping releases   *)
(* nor the reclaim of a task with several retries can break its promise.   *)
(***************************************************************************)
\* No claim is ever reclaimed, or no task has more than one retry.
ReclaimSafe == Lease = 0 \/ \A s \in Asks : s.maxRetries <= 1

\* A retry that was chosen from an earlier read of the row is still in budget
\* when the guarded UPDATE matches: the row has the same claim as then.
RetryJudged ==
    \A p \in Procs, e \in Created :
        /\ proc[p].pc = "write" /\ proc[p].verdict = "retry"
        /\ row[e].taskID = proc[p].id
        /\ row[e].status = "running" /\ row[e].claimEpoch = proc[p].from[2]
        => row[e].retryCount < row[e].maxRetries

LifeInv == ReleaseInv /\ RetryJudged

LEMMA RetryNext ==
    ASSUME GeneratedIDs, LifeInv, [Next]_vars
    PROVE  RetryJudged'
<1>1. ReleaseInv /\ TypeOK /\ Judged /\ IDsOK /\ ClaimsHeld /\ RetryJudged
  BY DEF LifeInv, ReleaseInv
<1> SUFFICES ASSUME NEW p \in Procs, NEW e \in Created', proc'[p].pc = "write",
                    proc'[p].verdict = "retry", row'[e].taskID = proc'[p].id,
                    row'[e].status = "running", row'[e].claimEpoch = proc'[p].from[2]
             PROVE  row'[e].retryCount < row'[e].maxRetries
  BY DEF RetryJudged
<1>2. Proceeds(p) /\ proc[p] \in ProcRecord /\ n \in Nat
  BY <1>1, RequestShape DEF TypeOK
<1>3. CASE Judges(p)
  <2>1. PICK f \in WithID(proc[p].id), v \in {"done", "retry", "dead"} :
          /\ v = "retry" => row[f].retryCount < row[f].maxRetries
          /\ proc'[p] = [proc[p] EXCEPT !.pc = "write", !.verdict = v]
    BY <1>3 DEF Judges
  <2>2. proc'[p].verdict = v /\ proc'[p].id = proc[p].id
    BY <1>2, <2>1 DEF ProcRecord
  <2>3. row' = row /\ Created' = Created
    BY <1>3 DEF Judges, Created
  <2>4. f \in Created /\ row[f].taskID = proc[p].id
    BY <1>1 DEF WithID, TypeOK
  <2>5. f = e
    BY <1>1, <2>2, <2>3, <2>4 DEF IDsOK, UniqueIDs, GeneratedIDs
  <2> QED BY <2>1, <2>2, <2>3, <2>5
<1>4. CASE /\ proc[p].pc = "write" /\ proc'[p].verdict = proc[p].verdict
           /\ proc'[p].id = proc[p].id /\ proc'[p].from = proc[p].from
  <2>1. CASE Inserted
    <3>1. PICK s \in Specs :
              /\ s \in TaskSpec
              /\ Created' = Created \cup {n + 1} /\ n + 1 \notin Created
              /\ row'[n + 1] = NewRow(s) /\ hist'[n + 1] = NoHist
              /\ \A f \in Created : row'[f] = row[f] /\ hist'[f] = hist[f]
      BY <1>1, <2>1, InsertedRow
    <3>2. e # n + 1
      BY <3>1, NewRowTyped
    <3>3. e \in Created /\ row'[e] = row[e]
      BY <3>1, <3>2
    <3> QED BY <1>1, <1>4, <3>3 DEF RetryJudged
  <2>2. CASE Rewritten
    <3>1. e \in Created
      BY <2>2 DEF Rewritten, Created
    <3>2. row[e].claimEpoch \in Nat /\ row'[e].taskID = row[e].taskID
      BY <1>1, <3>1, OldRows DEF TypeOK, RowRecord
    <3>3. proc[p].from[1] = e
      BY <1>1, <1>4, <3>1, <3>2 DEF ClaimsHeld, IDsOK, UniqueIDs, GeneratedIDs
    <3>4. proc[p].from[2] \in Nat /\ proc[p].from[2] <= row[e].claimEpoch
      BY <1>1, <1>2, <1>4, <3>3 DEF ClaimsHeld, ProcRecord
    <3>5. row'[e].claimEpoch # row[e].claimEpoch + 1
      BY <1>4, <3>2, <3>4
    <3>6. (hist'[e] = hist[e] /\ Effect(e)) \/ TracedEffect(e)
      BY <1>1, <2>2, <3>1, RowsTyped DEF Rewritten
    <3>7. ~TracedEffect(e)
      <4>1. TracedEffect(e) => \/ row'[e].status = "done" \/ row'[e].status = "pending"
                               \/ row'[e].status = "failed"
        BY Zenon DEF TracedEffect, Becomes
      <4> QED BY <4>1
    <3>8. /\ row[e].status = "running" /\ row[e].claimEpoch = row'[e].claimEpoch
          /\ row'[e].retryCount = row[e].retryCount /\ row'[e].maxRetries = row[e].maxRetries
      BY <1>1, <3>1, <3>5, <3>6, <3>7, NoReuse DEF Effect, Becomes, SameTask
    <3> QED BY <1>1, <1>4, <3>1, <3>2, <3>8 DEF RetryJudged
  <2> QED BY <1>1, <2>1, <2>2, StatementShape
<1>5. ~TakesUp(p) /\ ~Receives(p)
  BY DEF TakesUp, Receives, Idle
<1>6. ~Lists(p)
  BY <1>2 DEF Lists, ProcRecord
<1>7. ~Weighs(p)
  BY <1>2 DEF Weighs, ProcRecord
<1>8. ~Applies(p)
  BY <1>2 DEF Applies, ProcRecord
<1>9. CASE GoesOn(p)
  BY <1>4, <1>9 DEF GoesOn
<1> QED BY <1>2, <1>3, <1>4, <1>5, <1>6, <1>7, <1>8, <1>9 DEF Proceeds, Idle

\* A row and its history have a life.
LEMMA LifeType ==
    ASSUME NEW r \in RowRecord, NEW h \in HistRecord
    PROVE  LifeOf(r, h) \in Lifecycle!Life
BY DEF LifeOf, Lifecycle!Life, RowRecord, HistRecord, Statuses, Lifecycle!Statuses

\* Each change of a row is a legal move of its life, or none.
LEMMA RowMoves ==
    ASSUME GeneratedIDs, OneAtATime \/ Independent, ReclaimSafe, LifeInv,
           NEW e \in Created, Rewritten
    PROVE  \/ LifeOf(row'[e], hist'[e]) = LifeOf(row[e], hist[e])
           \/ Lifecycle!Move(LifeOf(row[e], hist[e]), LifeOf(row'[e], hist'[e]))
<1>1. ReleaseInv /\ TypeOK /\ Judged /\ IDsOK /\ AsAsked /\ RetryJudged
  BY DEF LifeInv, ReleaseInv
<1>2. PICK r \in RowRecord : r = row[e]
  BY <1>1 DEF TypeOK
<1>3. PICK x : x = row'[e]
  OBVIOUS
<1>4. PICK h \in HistRecord : h = hist[e]
  BY <1>1 DEF TypeOK
<1>5. r.retryCount \in Nat /\ r.maxRetries \in Nat /\ r.claimEpoch \in Nat
  BY DEF RowRecord
<1>6. (hist'[e] = hist[e] /\ Effect(e)) \/ TracedEffect(e)
  BY <1>1, RowsTyped DEF Rewritten
<1>7. CASE hist'[e] = hist[e] /\ Effect(e)
  <2> USE DEF LifeOf, Becomes, SameTask, Lifecycle!Move, Lifecycle!SameTerms, Lifecycle!SameGate,
              Lifecycle!SameRuns, Lifecycle!SameDead
  <2>1. CASE x = r
    BY <1>2, <1>3, <1>7, <2>1
  <2>2. CASE Becomes(r, x, r.status, r.claimEpoch, r.retryCount, r.deadLetter, r.approved)
    BY <1>2, <1>3, <1>7, <2>2
  <2>3. CASE /\ r.status = "pending"
             /\ Becomes(r, x, "running", r.claimEpoch + 1, r.retryCount, r.deadLetter, r.approved)
    BY <1>2, <1>3, <1>7, <2>3 DEF Lifecycle!Start
  <2>4. CASE /\ Lease > 0 /\ r.status = "running"
             /\ Becomes(r, x, IF r.retryCount + 1 >= r.maxRetries THEN "failed" ELSE "pending",
                        r.claimEpoch, r.retryCount + 1,
                        r.retryCount + 1 + 1 >= r.maxRetries \/ r.deadLetter, r.approved)
    <3>1. r.maxRetries <= 1
      BY <1>1, <1>2, <2>4 DEF ReclaimSafe, AsAsked
    <3>2. Becomes(r, x, "failed", r.claimEpoch, r.retryCount + 1, TRUE, r.approved)
      <4>1. r.retryCount + 1 >= r.maxRetries /\ r.retryCount + 1 + 1 >= r.maxRetries
        BY <1>5, <3>1
      <4> QED BY <2>4, <4>1
    <3> QED BY <1>2, <1>3, <1>7, <2>4, <3>2 DEF Lifecycle!GiveUp
  <2>5. ASSUME NEW p \in Procs, Settles(p, r.taskID)
        PROVE  r.status = "blocked"
    BY <1>1, <1>2, <2>5, SettledWaits
  <2>6. CASE /\ r.status = "blocked"
             /\ Becomes(r, x, "pending", r.claimEpoch, r.retryCount, r.deadLetter, r.approved)
    BY <1>2, <1>3, <1>7, <2>6 DEF Lifecycle!Release
  <2>7. CASE /\ r.status = "blocked"
             /\ Becomes(r, x, "failed", r.claimEpoch, r.retryCount, TRUE, r.approved)
    BY <1>2, <1>3, <1>7, <2>7 DEF Lifecycle!FailUpstream
  <2>8. CASE /\ r.status \in {"pending", "running"}
             /\ Becomes(r, x, "cancelled", r.claimEpoch, r.retryCount, r.deadLetter, r.approved)
    BY <1>2, <1>3, <1>7, <2>8 DEF Lifecycle!Cancel
  <2>9. CASE /\ r.status = "pending_approval"
             /\ Becomes(r, x, "pending", r.claimEpoch, r.retryCount, r.deadLetter, TRUE)
    BY <1>2, <1>3, <1>7, <2>9 DEF Lifecycle!Approve
  <2>10. CASE /\ r.status = "pending_approval"
              /\ Becomes(r, x, "rejected", r.claimEpoch, r.retryCount, r.deadLetter, r.approved)
    BY <1>2, <1>3, <1>7, <2>10 DEF Lifecycle!Reject
  <2> HIDE DEF LifeOf, Becomes, SameTask, Lifecycle!Move, Lifecycle!SameTerms, Lifecycle!SameGate,
              Lifecycle!SameRuns, Lifecycle!SameDead
  <2> QED BY <1>1, <1>2, <1>3, <1>7, <2>1, <2>2, <2>3, <2>4, <2>5, <2>6, <2>7, <2>8, <2>9,
             <2>10, NoReuse DEF Effect
<1>8. CASE TracedEffect(e)
  <2> USE DEF LifeOf, Becomes, SameTask, Lifecycle!Move, Lifecycle!SameTerms, Lifecycle!SameGate,
              Lifecycle!SameRuns, Lifecycle!SameDead
  <2>1. CASE /\ r.status = "running" /\ hist'[e].base = h.base
             /\ Becomes(r, x, "done", r.claimEpoch, r.retryCount, r.deadLetter, r.approved)
    BY <1>2, <1>3, <1>4, <2>1 DEF Lifecycle!Finish
  <2>2. CASE /\ r.status = "running" /\ hist'[e].base = h.base /\ r.retryCount < r.maxRetries
             /\ Becomes(r, x, "pending", r.claimEpoch, r.retryCount + 1, r.deadLetter, r.approved)
    BY <1>2, <1>3, <1>4, <2>2 DEF Lifecycle!Retry
  <2>3. CASE /\ r.status = "running" /\ hist'[e].base = h.base
             /\ Becomes(r, x, "failed", r.claimEpoch, r.retryCount, TRUE, r.approved)
    BY <1>2, <1>3, <1>4, <2>3 DEF Lifecycle!GiveUp
  <2>4. CASE /\ r.deadLetter /\ r.status = "failed" /\ hist'[e].base = r.claimEpoch
             /\ Becomes(r, x, "pending", r.claimEpoch, 0, FALSE, r.approved)
    <3>1. r.deadLetter = TRUE
      BY <2>4 DEF RowRecord
    <3> QED BY <1>2, <1>3, <1>4, <2>4, <3>1 DEF Lifecycle!Requeue
  <2> HIDE DEF LifeOf, Becomes, SameTask, Lifecycle!Move, Lifecycle!SameTerms, Lifecycle!SameGate,
              Lifecycle!SameRuns, Lifecycle!SameDead
  <2>5. \A y : /\ [h EXCEPT !.from = y].base = h.base
               /\ [h EXCEPT !.base = y, !.requeued = TRUE].base = y
    BY DEF HistRecord
  <2>6. ASSUME NEW p \in Procs, proc[p].pc = "write", e \in Guard(proc[p])
        PROVE  /\ r.status = "running"
               /\ proc[p].verdict = "retry" => r.retryCount < r.maxRetries
    BY <1>1, <1>2, <2>6 DEF Guard, WithID, RetryJudged
  <2>7. CASE /\ r.deadLetter /\ r.status = "failed"
             /\ hist'[e] = [h EXCEPT !.base = r.claimEpoch, !.requeued = TRUE]
             /\ Becomes(r, x, "pending", r.claimEpoch, 0, FALSE, r.approved)
    BY <2>4, <2>5, <2>7
  <2>8. ASSUME NEW p \in Procs, proc[p].pc = "write", e \in Guard(proc[p]),
               hist'[e] = [h EXCEPT !.from = proc[p].from],
               \/ /\ proc[p].verdict = "done"
                  /\ Becomes(r, x, "done", r.claimEpoch, r.retryCount, r.deadLetter, r.approved)
               \/ /\ proc[p].verdict = "retry"
                  /\ Becomes(r, x, "pending", r.claimEpoch, r.retryCount + 1, r.deadLetter,
                             r.approved)
               \/ /\ proc[p].verdict = "dead"
                  /\ Becomes(r, x, "failed", r.claimEpoch, r.retryCount, TRUE, r.approved)
        PROVE  \/ LifeOf(row'[e], hist'[e]) = LifeOf(row[e], hist[e])
               \/ Lifecycle!Move(LifeOf(row[e], hist[e]), LifeOf(row'[e], hist'[e]))
    <3>1. hist'[e].base = h.base /\ r.status = "running"
      BY <2>5, <2>6, <2>8
    <3> QED BY <2>1, <2>2, <2>3, <2>6, <2>8, <3>1
  <2> QED BY <1>2, <1>3, <1>4, <1>8, <2>7, <2>8, Zenon DEF TracedEffect
<1> QED BY <1>6, <1>7, <1>8

\* A row CreateTask inserts has a fresh life.
LEMMA NewIsFresh ==
    ASSUME NEW s \in Specs
    PROVE  Lifecycle!Fresh(LifeOf(NewRow(s), NoHist))
BY SpecsAssumption, ApprovalAssumption
DEF Lifecycle!Fresh, LifeOf, NewRow, NoHist, InitialStatus, TaskSpec

LEMMA StepSimulation ==
    ASSUME GeneratedIDs, OneAtATime \/ Independent, ReclaimSafe, LifeInv, [Next]_vars, TypeOK'
    PROVE  [Lifecycle!Next]_<<n, [e \in Created |-> LifeOf(row[e], hist[e])]>>
<1> DEFINE life == [e \in Created |-> LifeOf(row[e], hist[e])]
<1>1. TypeOK /\ n \in Nat
  BY DEF LifeInv, ReleaseInv, TypeOK
<1>2. life' \in [1..n' -> Lifecycle!Life]
  BY LifeType DEF TypeOK, Created
<1>3. CASE Rewritten
  <2>1. n' = n
    BY <1>3 DEF Rewritten
  <2>2. \A e \in 1..n : \/ LifeOf(row'[e], hist'[e]) = LifeOf(row[e], hist[e])
                        \/ Lifecycle!Move(LifeOf(row[e], hist[e]), LifeOf(row'[e], hist'[e]))
    BY <1>3, RowMoves DEF Created
  <2>3. \A e \in 1..n : life'[e] = life[e] \/ Lifecycle!Move(life[e], life'[e])
    BY <2>1, <2>2 DEF Created
  <2> HIDE DEF life
  <2>4. Lifecycle!Change
    BY <1>2, <2>1, <2>3 DEF Lifecycle!Change, life
  <2> QED BY <2>4 DEF Lifecycle!Next
<1>4. CASE Inserted
  <2>1. PICK s \in Specs :
              /\ Created' = Created \cup {n + 1} /\ n + 1 \notin Created
              /\ row'[n + 1] = NewRow(s) /\ hist'[n + 1] = NoHist
              /\ \A f \in Created : row'[f] = row[f] /\ hist'[f] = hist[f]
    BY <1>1, <1>4, InsertedRow
  <2>2. n' = n + 1
    BY <1>4 DEF Inserted
  <2>3. \A i \in 1..n : life'[i] = life[i]
    BY <1>1, <2>1, <2>2 DEF Created
  <2>4. life'[n + 1] = LifeOf(NewRow(s), NoHist)
    BY <2>1
  <2>5. Lifecycle!Fresh(life'[n + 1])
    BY <2>4, NewIsFresh
  <2> HIDE DEF life
  <2>6. life' \in [1..(n + 1) -> Lifecycle!Life]
    BY <1>2, <2>2
  <2>7. Lifecycle!Create
    BY <2>2, <2>3, <2>5, <2>6 DEF Lifecycle!Create, life
  <2> QED BY <2>7 DEF Lifecycle!Next
<1> QED BY <1>1, <1>3, <1>4, StatementShape

\* The SQL store implements TaskLifecycle: each statement of each request is
\* one legal move of each row or none, for requests that overlap and are cut
\* off anywhere, where no task has dependencies (or requests come one at a
\* time) and no task with two retries or more is reclaimed.
THEOREM Refinement ==
    ASSUME GeneratedIDs, OneAtATime \/ Independent, ReclaimSafe, Preloaded = <<>>
    PROVE  Spec => LifecycleKept
<1>1. Init => Lifecycle!Init
  BY DEF Init, Lifecycle!Init, Created
<1>2. Init => LifeInv
  BY ReleaseInit DEF LifeInv, RetryJudged, Init, Idle
<1>3. LifeInv /\ [Next]_vars => LifeInv' /\ TypeOK'
  BY ReleaseNext, RetryNext DEF LifeInv, ReleaseInv
<1>4. LifeInv /\ [Next]_vars /\ TypeOK' =>
        [Lifecycle!Next]_<<n, [e \in Created |-> LifeOf(row[e], hist[e])]>>
  BY StepSimulation
<1> QED BY <1>1, <1>2, <1>3, <1>4, PTL DEF Spec, LifecycleKept, Lifecycle!Spec
=============================================================================
