------------------------- MODULE TaskDeliveryProofs -------------------------
(***************************************************************************)
(* Theorems about TaskDelivery, for any agents, workers, tasks and bounds. *)
(* The store inside it is the store of MemoryTaskStore, whose theorems     *)
(* carry over.                                                             *)
(***************************************************************************)
EXTENDS TaskDelivery, TLAPS

SP == INSTANCE MemoryTaskStoreProofs

Created == 1..n
-----------------------------------------------------------------------------
(***************************************************************************)
(* The claims in the hands of one agent: p is the claim its dispatch loop  *)
(* has pulled, q its channel and wk what its workers execute.              *)
(***************************************************************************)
HeldIn(p, q, wk) == ({p} \cup {q[i] : i \in DOMAIN q} \cup {wk[w] : w \in Workers}) \ {NoClaim}

\* Each claim is in one place.
ApartIn(p, q, wk) ==
    /\ \A i, j \in DOMAIN q : q[i] = q[j] => i = j
    /\ \A i \in DOMAIN q : q[i] # p /\ \A w \in Workers : q[i] # wk[w]
    /\ \A w \in Workers : wk[w] = p => p = NoClaim
    /\ \A v, w \in Workers : wk[v] = wk[w] => v = w \/ wk[v] = NoClaim

Hands == [Workers -> Claims \cup {NoClaim}]

LEMMA RealClaims == NoClaim \notin Claims
BY DEF NoClaim, Claims

LEMMA PullHands ==
    ASSUME NEW q \in Seq(Claims), NEW wk \in Hands, NEW c \in Claims,
           ApartIn(NoClaim, q, wk), c \notin HeldIn(NoClaim, q, wk)
    PROVE  ApartIn(c, q, wk) /\ HeldIn(c, q, wk) = HeldIn(NoClaim, q, wk) \cup {c}
<1>1. c # NoClaim
  BY RealClaims
<1>2. HeldIn(c, q, wk) = HeldIn(NoClaim, q, wk) \cup {c}
  BY <1>1 DEF HeldIn
<1>3. \A i \in DOMAIN q : q[i] # c
  <2>1. \A i \in DOMAIN q : q[i] \in Claims
    OBVIOUS
  <2> QED BY <2>1, RealClaims DEF HeldIn
<1>4. \A w \in Workers : wk[w] # c
  BY <1>1 DEF HeldIn
<1> QED BY <1>2, <1>3, <1>4 DEF ApartIn

LEMMA QueueHands ==
    ASSUME NEW p \in Claims, NEW q \in Seq(Claims), NEW wk \in Hands, ApartIn(p, q, wk)
    PROVE  /\ ApartIn(NoClaim, Append(q, p), wk)
           /\ HeldIn(NoClaim, Append(q, p), wk) = HeldIn(p, q, wk)
<1> DEFINE r == Append(q, p)
<1>1. /\ r \in Seq(Claims) /\ Len(r) = Len(q) + 1 /\ DOMAIN r = 1..(Len(q) + 1)
      /\ DOMAIN q = 1..Len(q) /\ Len(q) \in Nat
      /\ r[Len(q) + 1] = p /\ \A i \in DOMAIN q : r[i] = q[i]
  OBVIOUS
<1> HIDE DEF r
<1>2. \A i \in DOMAIN r : i \in DOMAIN q \/ i = Len(q) + 1
  BY <1>1
<1>3. \A i \in DOMAIN r : r[i] # NoClaim
  BY <1>1, RealClaims
<1>4. \A w \in Workers : wk[w] # p
  BY RealClaims DEF ApartIn
<1>5. \A i, j \in DOMAIN r : r[i] = r[j] => i = j
  BY <1>1, <1>2 DEF ApartIn
<1>6. \A i \in DOMAIN r : \A w \in Workers : r[i] # wk[w]
  BY <1>1, <1>2, <1>4 DEF ApartIn
<1>7. {r[i] : i \in DOMAIN r} = {p} \cup {q[i] : i \in DOMAIN q}
  <2>1. Len(q) + 1 \in DOMAIN r /\ DOMAIN q \subseteq DOMAIN r
    BY <1>1
  <2> QED BY <1>1, <1>2, <2>1
<1>8. HeldIn(NoClaim, r, wk) = HeldIn(p, q, wk)
  BY <1>7 DEF HeldIn
<1>9. ApartIn(NoClaim, r, wk)
  BY <1>3, <1>5, <1>6 DEF ApartIn
<1> QED BY <1>8, <1>9 DEF r

LEMMA TailFacts ==
    ASSUME NEW q \in Seq(Claims), q # <<>>
    PROVE  /\ Tail(q) \in Seq(Claims) /\ Len(Tail(q)) = Len(q) - 1 /\ Len(q) >= 1
           /\ Len(q) \in Nat /\ DOMAIN q = 1..Len(q) /\ DOMAIN Tail(q) = 1..(Len(q) - 1)
           /\ Head(q) = q[1] /\ Head(q) \in Claims
           /\ \A i \in DOMAIN Tail(q) : i + 1 \in DOMAIN q /\ Tail(q)[i] = q[i + 1]
OBVIOUS

LEMMA RefuseHands ==
    ASSUME NEW p \in Claims \cup {NoClaim}, NEW q \in Seq(Claims), q # <<>>, NEW wk \in Hands,
           ApartIn(p, q, wk)
    PROVE  /\ ApartIn(p, Tail(q), wk)
           /\ HeldIn(p, Tail(q), wk) = HeldIn(p, q, wk) \ {Head(q)}
           /\ Head(q) \in HeldIn(p, q, wk)
           /\ Head(q) # p /\ \A w \in Workers : wk[w] # Head(q)
<1> DEFINE r == Tail(q)
<1>1. /\ r \in Seq(Claims) /\ Len(q) >= 1
      /\ Len(q) \in Nat /\ DOMAIN q = 1..Len(q) /\ DOMAIN r = 1..(Len(q) - 1)
      /\ Head(q) = q[1] /\ Head(q) \in Claims
      /\ \A i \in DOMAIN r : i + 1 \in DOMAIN q /\ r[i] = q[i + 1]
  BY TailFacts
<1> HIDE DEF r
<1>2. \A j \in DOMAIN q : j = 1 \/ (j - 1 \in DOMAIN r /\ r[j - 1] = q[j])
  BY <1>1
<1>3. Head(q) # p /\ \A w \in Workers : wk[w] # Head(q)
  BY <1>1 DEF ApartIn
<1>4. \A i \in DOMAIN r : r[i] # Head(q)
  <2> SUFFICES ASSUME NEW i \in DOMAIN r, r[i] = Head(q) PROVE FALSE
    OBVIOUS
  <2>1. i + 1 \in DOMAIN q /\ q[i + 1] = q[1] /\ i \in Nat /\ i >= 1 /\ 1 \in DOMAIN q
    BY <1>1
  <2>2. i + 1 = 1
    BY <2>1 DEF ApartIn
  <2> QED BY <2>1, <2>2
<1>5. ApartIn(p, r, wk)
  <2>1. \A i, j \in DOMAIN r : r[i] = r[j] => i = j
    <3> SUFFICES ASSUME NEW i \in DOMAIN r, NEW j \in DOMAIN r, r[i] = r[j] PROVE i = j
      OBVIOUS
    <3>1. i + 1 = j + 1 /\ i \in Nat /\ j \in Nat
      BY <1>1 DEF ApartIn
    <3> QED BY <3>1
  <2> QED BY <1>1, <2>1 DEF ApartIn
<1>6. {q[i] : i \in DOMAIN q} = {r[i] : i \in DOMAIN r} \cup {Head(q)}
  <2>1. 1 \in DOMAIN q
    BY <1>1
  <2> QED BY <1>1, <1>2, <2>1
<1>7. Head(q) # NoClaim
  BY <1>1, RealClaims
<1>8. HeldIn(p, r, wk) = HeldIn(p, q, wk) \ {Head(q)} /\ Head(q) \in HeldIn(p, q, wk)
  BY <1>3, <1>4, <1>6, <1>7 DEF HeldIn
<1> QED BY <1>3, <1>5, <1>8 DEF r

LEMMA EndHands ==
    ASSUME NEW p \in Claims \cup {NoClaim}, NEW q \in Seq(Claims), NEW wk \in Hands,
           NEW v \in Workers, wk[v] # NoClaim, ApartIn(p, q, wk)
    PROVE  /\ ApartIn(p, q, [wk EXCEPT ![v] = NoClaim])
           /\ HeldIn(p, q, [wk EXCEPT ![v] = NoClaim]) = HeldIn(p, q, wk) \ {wk[v]}
           /\ wk[v] \in HeldIn(p, q, wk)
<1> DEFINE x == [wk EXCEPT ![v] = NoClaim]
<1>1. x[v] = NoClaim /\ \A w \in Workers : w # v => x[w] = wk[w]
  BY DEF Hands
<1> HIDE DEF x
<1>2. \A i \in DOMAIN q : q[i] # NoClaim
  BY RealClaims
<1>3. ApartIn(p, q, x)
  BY <1>1, <1>2 DEF ApartIn
<1>4. p # wk[v] /\ (\A i \in DOMAIN q : q[i] # wk[v]) /\ \A w \in Workers : w # v => wk[w] # wk[v]
  BY DEF ApartIn
<1>5. HeldIn(p, q, x) = HeldIn(p, q, wk) \ {wk[v]}
  BY <1>1, <1>4 DEF HeldIn
<1> QED BY <1>3, <1>5 DEF x, HeldIn

LEMMA StartHands ==
    ASSUME NEW p \in Claims \cup {NoClaim}, NEW q \in Seq(Claims), q # <<>>, NEW wk \in Hands,
           NEW v \in Workers, wk[v] = NoClaim, ApartIn(p, q, wk)
    PROVE  /\ ApartIn(p, Tail(q), [wk EXCEPT ![v] = Head(q)])
           /\ HeldIn(p, Tail(q), [wk EXCEPT ![v] = Head(q)]) = HeldIn(p, q, wk)
<1> DEFINE x == [wk EXCEPT ![v] = Head(q)]
<1>1. /\ ApartIn(p, Tail(q), wk)
      /\ HeldIn(p, Tail(q), wk) = HeldIn(p, q, wk) \ {Head(q)}
      /\ Head(q) \in HeldIn(p, q, wk)
      /\ Head(q) # p /\ \A w \in Workers : wk[w] # Head(q)
  BY RefuseHands
<1>2. Tail(q) \in Seq(Claims) /\ Head(q) \in Claims
  BY TailFacts
<1>3. x[v] = Head(q) /\ \A w \in Workers : w # v => x[w] = wk[w]
  BY DEF Hands
<1> HIDE DEF x
<1>4. PICK r : r = Tail(q)
  OBVIOUS
<1>5. PICK c : c = Head(q)
  OBVIOUS
<1>6. c # NoClaim /\ \A i \in DOMAIN r : r[i] # NoClaim
  BY <1>2, <1>4, <1>5, RealClaims
<1>7. \A i \in DOMAIN r : r[i] # c
  BY <1>1, <1>4, <1>5, <1>6 DEF HeldIn
<1>8. ApartIn(p, r, x)
  BY <1>1, <1>3, <1>4, <1>5, <1>6, <1>7 DEF ApartIn
<1>9. HeldIn(p, r, x) = HeldIn(p, r, wk) \cup {c}
  BY <1>3, <1>5, <1>6 DEF HeldIn
<1> QED BY <1>1, <1>4, <1>5, <1>8, <1>9 DEF x

LEMMA NoHands ==
    /\ ApartIn(NoClaim, <<>>, [w \in Workers |-> NoClaim])
    /\ HeldIn(NoClaim, <<>>, [w \in Workers |-> NoClaim]) = {}
BY DEF ApartIn, HeldIn
-----------------------------------------------------------------------------
(***************************************************************************)
(* The store.  Store (in the model) and SP (with its theorems) are two     *)
(* instances of one module over the same variables.                        *)
(***************************************************************************)
LEMMA StoreFacts ==
    /\ Specs \subseteq SP!TaskSpec
    /\ \A s \in Specs : s.approvalRequired => s.dependsOn = {}
    /\ MaxTasks \in Nat /\ MaxClaims \in Nat /\ Lease \in Nat
    /\ NoKey \notin Keys /\ SP!NoAgent \notin Agents /\ SP!NoID \notin TaskIDs
BY StoreAssumption
DEF SP!TaskSpec, Store!TaskSpec, SP!NoAgent, Store!NoAgent, SP!NoID, Store!NoID

LEMMA SameRelease ==
    ASSUME NEW t, NEW al, NEW a
    PROVE  Store!releaseDeps(t, al, a) <=> SP!releaseDeps(t, al, a)
BY Zenon DEF Store!releaseDeps, SP!releaseDeps, Store!IsReleasePass, SP!IsReleasePass,
   Store!TasksOf, SP!TasksOf, Store!LookupIn, SP!LookupIn, Store!Created, SP!Created,
   Store!Missing, SP!Missing, Store!AllDepsTerminal, SP!AllDepsTerminal,
   Store!AnyDepFailed, SP!AnyDepFailed, Store!isTerminalStatus, SP!isTerminalStatus,
   Store!Released, SP!Released, Store!FailedUpstream, SP!FailedUpstream,
   Store!Unclaimed, SP!Unclaimed, Store!NoAgent, SP!NoAgent

LEMMA SameRecords ==
    /\ Store!StaleTasks = SP!StaleTasks
    /\ \A a : Store!TasksOf(a) = SP!TasksOf(a)
    /\ Store!Created = Created /\ SP!Created = Created
BY DEF Store!StaleTasks, SP!StaleTasks, Store!TasksOf, SP!TasksOf, Store!Created, SP!Created,
   Created

LEMMA SameInit == Store!Init <=> SP!Init
BY DEF Store!Init, SP!Init, Store!NoID, SP!NoID

LEMMA SameCreate == ASSUME NEW s PROVE Store!CreateTask(s) <=> SP!CreateTask(s)
BY Zenon DEF Store!CreateTask, SP!CreateTask, Store!addTaskLocked, SP!addTaskLocked,
   Store!NewTask, SP!NewTask, Store!InitialStatus, SP!InitialStatus, Store!IdempotentHit,
   SP!IdempotentHit, Store!Created, SP!Created, Store!NoAgent, SP!NoAgent, Store!NoID, SP!NoID,
   Store!NoHist, SP!NoHist

LEMMA SameClaim == ASSUME NEW a PROVE Store!ClaimTask(a) <=> SP!ClaimTask(a)
BY Zenon DEF Store!ClaimTask, SP!ClaimTask, Store!TasksOf, SP!TasksOf, Store!Claimed, SP!Claimed

LEMMA SameTimes ==
    /\ \A a : Store!Heartbeat(a) <=> SP!Heartbeat(a)
    /\ \A a : Store!HeartbeatLapses(a) <=> SP!HeartbeatLapses(a)
    /\ \A e : Store!LeaseExpires(e) <=> SP!LeaseExpires(e)
BY Zenon DEF Store!Heartbeat, SP!Heartbeat, Store!HeartbeatLapses, SP!HeartbeatLapses,
   Store!LeaseExpires, SP!LeaseExpires

LEMMA SameReclaim == Store!ReclaimStaleTasks <=> SP!ReclaimStaleTasks
BY Zenon DEF Store!ReclaimStaleTasks, SP!ReclaimStaleTasks, Store!StaleTasks, SP!StaleTasks,
   Store!Reclaimed, SP!Reclaimed, Store!Unclaimed, SP!Unclaimed, Store!NoAgent, SP!NoAgent,
   Store!Created, SP!Created

LEMMA SameReport ==
    ASSUME NEW c, NEW k, NEW success
    PROVE  Store!SubmitResult(c, k, success) <=> SP!SubmitResult(c, k, success)
BY ZenonT(60) DEF Store!SubmitResult, SP!SubmitResult, Store!Accepts, SP!Accepts,
   Store!validTaskTransition, SP!validTaskTransition, Store!Reported, SP!Reported,
   Store!releaseDeps, SP!releaseDeps, Store!IsReleasePass, SP!IsReleasePass,
   Store!TasksOf, SP!TasksOf, Store!LookupIn, SP!LookupIn, Store!Created, SP!Created,
   Store!Missing, SP!Missing, Store!AllDepsTerminal, SP!AllDepsTerminal,
   Store!AnyDepFailed, SP!AnyDepFailed, Store!isTerminalStatus, SP!isTerminalStatus,
   Store!Released, SP!Released, Store!FailedUpstream, SP!FailedUpstream,
   Store!Unclaimed, SP!Unclaimed, Store!NoAgent, SP!NoAgent

LEMMA SameCancel == ASSUME NEW id PROVE Store!CancelTask(id) <=> SP!CancelTask(id)
BY SameRelease, Zenon DEF Store!CancelTask, SP!CancelTask

LEMMA SameRequeue ==
    ASSUME NEW id PROVE Store!RetryDeadLetterTask(id) <=> SP!RetryDeadLetterTask(id)
BY Zenon DEF Store!RetryDeadLetterTask, SP!RetryDeadLetterTask, Store!Requeued, SP!Requeued,
   Store!Unclaimed, SP!Unclaimed, Store!NoAgent, SP!NoAgent
-----------------------------------------------------------------------------
(***************************************************************************)
(* What the operations of the store do to a record, as far as claims are   *)
(* concerned.                                                              *)
(***************************************************************************)
\* A record keeps its task, its agent and its current claim.
Kept(e) ==
    /\ task'[e].taskID = task[e].taskID /\ task'[e].agentID = task[e].agentID
    /\ task'[e].claimEpoch = task[e].claimEpoch
Stays(e) == Kept(e) /\ task'[e].status = task[e].status

\* Its status changes, other than to running, and it was neither done nor cancelled.
Leaves(e) ==
    /\ Kept(e) /\ task'[e].status # "running"
    /\ task[e].status \notin {"done", "cancelled"}

\* Its run is not ended by the change, nor is it done by it.
Waits(e) ==
    /\ Leaves(e) /\ task[e].status # "running" /\ task'[e].status # "done"

\* It is cancelled.
Cancels(e) == Leaves(e) /\ task'[e].status = "cancelled"

\* A report of claim k for the task of record c ends its run.
Ends(e, c, k, success) ==
    /\ Leaves(e) /\ k = task[e].claimEpoch
    /\ task[c].taskID = task[e].taskID /\ task[c].agentID = task[e].agentID
    /\ task'[e].status = "done" => success

\* The records operations make of a record.
LEMMA RecordFacts ==
    ASSUME NEW r \in SP!TaskRecord
    PROVE  /\ SP!Released(r).status = "pending" /\ SP!FailedUpstream(r).status = "failed"
           /\ SP!Requeued(r).status = "pending"
           /\ SP!Reclaimed(r).status \in {"pending", "failed"}
           /\ \A x \in BOOLEAN : /\ SP!Reported(r, x).status \in {"done", "pending", "failed"}
                                 /\ SP!Reported(r, x).status = "done" => x
           /\ \A y \in {SP!Released(r), SP!FailedUpstream(r), SP!Requeued(r), SP!Reclaimed(r),
                        SP!Reported(r, TRUE), SP!Reported(r, FALSE)} :
                 y.taskID = r.taskID /\ y.agentID = r.agentID /\ y.claimEpoch = r.claimEpoch
<1>1. SP!Unclaimed(r) \in SP!TaskRecord /\ SP!Unclaimed(r).taskID = r.taskID
      /\ SP!Unclaimed(r).agentID = r.agentID /\ SP!Unclaimed(r).claimEpoch = r.claimEpoch
      /\ SP!Unclaimed(r).retryCount = r.retryCount
  BY DEF SP!Unclaimed, SP!TaskRecord
<1>2. PICK u : u = SP!Unclaimed(r)
  OBVIOUS
<1>3. SP!Reported(r, TRUE) = [r EXCEPT !.status = "done"]
  BY DEF SP!Reported
<1>4. \/ SP!Reported(r, FALSE) = [u EXCEPT !.retryCount = @ + 1, !.status = "pending"]
      \/ SP!Reported(r, FALSE) = [r EXCEPT !.status = "failed", !.deadLetter = TRUE]
  BY <1>2 DEF SP!Reported
<1>5. \/ SP!Reclaimed(r) = [u EXCEPT !.retryCount = @ + 1, !.status = "failed", !.deadLetter = TRUE]
      \/ SP!Reclaimed(r) = [u EXCEPT !.retryCount = @ + 1, !.status = "pending"]
  BY <1>2 DEF SP!Reclaimed
<1>6. /\ SP!Released(r) = [u EXCEPT !.status = "pending"]
      /\ SP!FailedUpstream(r) = [u EXCEPT !.status = "failed", !.deadLetter = TRUE]
      /\ SP!Requeued(r) = [u EXCEPT !.deadLetter = FALSE, !.status = "pending", !.retryCount = 0]
  BY <1>2 DEF SP!Released, SP!FailedUpstream, SP!Requeued
<1>7. u \in SP!TaskRecord /\ u.taskID = r.taskID /\ u.agentID = r.agentID
      /\ u.claimEpoch = r.claimEpoch
  BY <1>1, <1>2
<1> DEFINE Same(y) == y.taskID = r.taskID /\ y.agentID = r.agentID /\ y.claimEpoch = r.claimEpoch
<1>8. /\ SP!Released(r).status = "pending" /\ Same(SP!Released(r))
      /\ SP!FailedUpstream(r).status = "failed" /\ Same(SP!FailedUpstream(r))
      /\ SP!Requeued(r).status = "pending" /\ Same(SP!Requeued(r))
  BY <1>6, <1>7 DEF SP!TaskRecord
<1>9. SP!Reclaimed(r).status \in {"pending", "failed"} /\ Same(SP!Reclaimed(r))
  BY <1>5, <1>7 DEF SP!TaskRecord
<1>10. SP!Reported(r, TRUE).status = "done" /\ Same(SP!Reported(r, TRUE))
  BY <1>3 DEF SP!TaskRecord
<1>11. SP!Reported(r, FALSE).status \in {"pending", "failed"} /\ Same(SP!Reported(r, FALSE))
  BY <1>4, <1>7 DEF SP!TaskRecord
<1>12. \A x \in BOOLEAN : /\ SP!Reported(r, x).status \in {"done", "pending", "failed"}
                          /\ SP!Reported(r, x).status = "done" => x
  BY <1>10, <1>11
<1> QED BY <1>8, <1>9, <1>10, <1>11, <1>12

LEMMA TypeFacts ==
    ASSUME SP!TypeOK
    PROVE  /\ n \in Nat /\ n <= MaxTasks /\ listed \subseteq Created
           /\ task \in [Created -> SP!TaskRecord]
           /\ tasksByID \in [TaskIDs -> Created \cup {0}] /\ 0 \notin Created
           /\ \A e \in Created : /\ e \in Nat /\ task[e] \in SP!TaskRecord
                                 /\ task[e].taskID \in TaskIDs /\ task[e].agentID \in Agents
                                 /\ task[e].claimEpoch \in Nat
BY StoreFacts DEF SP!TypeOK, SP!Created, Created, SP!TaskRecord

LEMMA ReleaseEffect ==
    ASSUME SP!TypeOK, NEW t \in [Created -> SP!TaskRecord], NEW al \in SUBSET TaskIDs,
           NEW a \in Agents, SP!releaseDeps(t, al, a), NEW e \in Created
    PROVE  \/ task'[e] = t[e]
           \/ /\ t[e].status = "blocked" /\ task'[e].status \in {"pending", "failed"}
              /\ task'[e].taskID = t[e].taskID /\ task'[e].agentID = t[e].agentID
              /\ task'[e].claimEpoch = t[e].claimEpoch
<1>1. t \in [SP!Created -> SP!TaskRecord] /\ e \in SP!Created
  BY SameRecords
<1>2. \/ task'[e] = t[e]
      \/ t[e].status = "blocked" /\ task'[e] = SP!Released(t[e])
      \/ t[e].status = "blocked" /\ task'[e] = SP!FailedUpstream(t[e])
  BY <1>1, StoreFacts, SP!ReleaseShape
<1>3. t[e] \in SP!TaskRecord
  OBVIOUS
<1> QED BY <1>2, <1>3, RecordFacts

\* SubmitResult: records are ended by a report of their current claim, or wait
\* for a record that was.
LEMMA ReportEffect ==
    ASSUME SP!TypeOK, NEW c \in Created, NEW k, NEW success \in BOOLEAN,
           SP!SubmitResult(c, k, success), NEW e \in Created
    PROVE  Stays(e) \/ Waits(e) \/ Ends(e, c, k, success)
<1> DEFINE same == {f \in SP!TasksOf(task[c].agentID) : task[f].taskID = task[c].taskID}
           refusing == {f \in same : ~SP!Accepts(task[f], k, success)}
           taken == {f \in same : \A g \in refusing : f < g}
           t == [f \in SP!Created |-> IF f \in taken THEN SP!Reported(task[f], success)
                                                     ELSE task[f]]
           al == alerted \cup {task[f].taskID : f \in {g \in taken : t[g].deadLetter}}
<1>1. IF refusing = {} THEN SP!releaseDeps(t, al, task[c].agentID)
                       ELSE task' = t /\ alerted' = al
  BY DEF SP!SubmitResult
<1>2. task[e] \in SP!TaskRecord /\ task[c].agentID \in Agents
      /\ \A f \in Created : task[f] \in SP!TaskRecord /\ task[f].taskID \in TaskIDs
  BY TypeFacts
<1>3. SP!Created = Created /\ same \subseteq Created
  BY SameRecords, TypeFacts DEF SP!TasksOf
<1>4. t \in [Created -> SP!TaskRecord]
  <2>1. \A f \in Created : SP!Reported(task[f], success) \in SP!TaskRecord
    BY <1>2, StoreFacts, SP!RecordOps
  <2> QED BY <1>2, <1>3, <2>1
<1>5. al \in SUBSET TaskIDs
  BY <1>2, <1>3 DEF SP!TypeOK
<1>6. t[e] = IF e \in taken THEN SP!Reported(task[e], success) ELSE task[e]
  BY <1>3
<1>7. e \in taken => /\ SP!Accepts(task[e], k, success)
                     /\ task[c].taskID = task[e].taskID /\ task[c].agentID = task[e].agentID
  <2>1. SUFFICES ASSUME e \in taken PROVE SP!Accepts(task[e], k, success)
    BY DEF SP!TasksOf
  <2>2. e \in Nat
    BY TypeFacts
  <2> QED BY <2>1, <2>2
<1> HIDE DEF same, refusing, taken, t, al
<1>8. \/ task'[e] = t[e]
      \/ /\ t[e].status = "blocked" /\ task'[e].status \in {"pending", "failed"}
         /\ task'[e].taskID = t[e].taskID /\ task'[e].agentID = t[e].agentID
         /\ task'[e].claimEpoch = t[e].claimEpoch
  <2>1. CASE refusing = {}
    BY <1>1, <1>2, <1>4, <1>5, <2>1, ReleaseEffect
  <2> QED BY <1>1, <2>1
<1>9. CASE e \notin taken
  BY <1>6, <1>8, <1>9 DEF Stays, Waits, Leaves, Kept
<1>10. CASE e \in taken
  <2>1. PICK y : y = SP!Reported(task[e], success)
    OBVIOUS
  <2>2. /\ y.status \in {"done", "pending", "failed"} /\ (y.status = "done" => success)
        /\ y.taskID = task[e].taskID /\ y.agentID = task[e].agentID
        /\ y.claimEpoch = task[e].claimEpoch
    BY <1>2, <2>1, RecordFacts
  <2>3. t[e] = y /\ task'[e] = y
    BY <1>6, <1>8, <1>10, <2>1, <2>2
  <2>4. k = task[e].claimEpoch /\ SP!validTaskTransition(task[e].status, y.status)
    BY <1>7, <1>10, <2>1 DEF SP!Accepts
  <2>5. task[e].status \notin {"done", "cancelled"}
    BY <2>4 DEF SP!validTaskTransition
  <2> QED BY <1>7, <1>10, <2>2, <2>3, <2>4, <2>5 DEF Ends, Leaves, Kept
<1> QED BY <1>9, <1>10

LEMMA CancelEffect ==
    ASSUME SP!TypeOK, NEW id \in TaskIDs, SP!CancelTask(id), NEW e \in Created
    PROVE  Stays(e) \/ Waits(e) \/ Cancels(e)
<1>1. PICK x : x = tasksByID[id]
  OBVIOUS
<1>2. /\ x \in Created /\ task[x].status \in {"pending", "running"}
      /\ SP!releaseDeps([task EXCEPT ![x].status = "cancelled"], alerted, task[x].agentID)
  BY <1>1, TypeFacts DEF SP!CancelTask
<1>3. PICK t : t = [task EXCEPT ![x].status = "cancelled"]
  OBVIOUS
<1>4. [task[x] EXCEPT !.status = "cancelled"] \in SP!TaskRecord
  BY <1>2, TypeFacts DEF SP!TaskRecord, SP!Statuses
<1>5. /\ t \in [Created -> SP!TaskRecord] /\ (e # x => t[e] = task[e])
      /\ t[x] = [task[x] EXCEPT !.status = "cancelled"]
  BY <1>2, <1>3, <1>4, TypeFacts
<1>6. t[x].status = "cancelled" /\ t[x].taskID = task[x].taskID
      /\ t[x].agentID = task[x].agentID /\ t[x].claimEpoch = task[x].claimEpoch
  BY <1>2, <1>5, TypeFacts DEF SP!TaskRecord
<1>7. \/ task'[e] = t[e]
      \/ /\ t[e].status = "blocked" /\ task'[e].status \in {"pending", "failed"}
         /\ task'[e].taskID = t[e].taskID /\ task'[e].agentID = t[e].agentID
         /\ task'[e].claimEpoch = t[e].claimEpoch
  <2>1. alerted \in SUBSET TaskIDs /\ task[x].agentID \in Agents
    BY <1>2, TypeFacts DEF SP!TypeOK
  <2>2. SP!releaseDeps(t, alerted, task[x].agentID)
    BY <1>2, <1>3
  <2> QED BY <1>5, <2>1, <2>2, ReleaseEffect
<1>8. CASE e = x
  BY <1>2, <1>6, <1>7, <1>8 DEF Cancels, Leaves, Kept
<1>9. CASE e # x
  BY <1>5, <1>7, <1>9 DEF Stays, Waits, Leaves, Kept
<1> QED BY <1>8, <1>9

LEMMA ReclaimEffect ==
    ASSUME SP!TypeOK, SP!ReclaimStaleTasks, NEW e \in Created
    PROVE  /\ e \in SP!StaleTasks => /\ Leaves(e) /\ task'[e].status # "done"
                                     /\ task[e].status = "running"
           /\ e \notin SP!StaleTasks => Stays(e)
<1>1. task'[e] = IF e \in SP!StaleTasks THEN SP!Reclaimed(task[e]) ELSE task[e]
  BY SameRecords DEF SP!ReclaimStaleTasks
<1>2. task[e] \in SP!TaskRecord
  BY TypeFacts
<1>3. /\ SP!Reclaimed(task[e]).status \in {"pending", "failed"}
      /\ SP!Reclaimed(task[e]).taskID = task[e].taskID
      /\ SP!Reclaimed(task[e]).agentID = task[e].agentID
      /\ SP!Reclaimed(task[e]).claimEpoch = task[e].claimEpoch
  BY <1>2, RecordFacts
<1>4. e \in SP!StaleTasks => task[e].status = "running"
  BY DEF SP!StaleTasks
<1> QED BY <1>1, <1>3, <1>4 DEF Stays, Leaves, Kept

LEMMA RequeueEffect ==
    ASSUME SP!TypeOK, NEW id \in TaskIDs, SP!RetryDeadLetterTask(id), NEW e \in Created
    PROVE  Stays(e) \/ Waits(e)
<1>1. PICK x : x = tasksByID[id]
  OBVIOUS
<1>2. x \in Created /\ task[x].status = "failed" /\ task' = [task EXCEPT ![x] = SP!Requeued(@)]
  BY <1>1, TypeFacts DEF SP!RetryDeadLetterTask
<1>3. task[x] \in SP!TaskRecord
  BY <1>2, TypeFacts
<1>4. /\ SP!Requeued(task[x]).status = "pending"
      /\ SP!Requeued(task[x]).taskID = task[x].taskID
      /\ SP!Requeued(task[x]).agentID = task[x].agentID
      /\ SP!Requeued(task[x]).claimEpoch = task[x].claimEpoch
  BY <1>3, RecordFacts
<1>5. task'[x] = SP!Requeued(task[x]) /\ (e # x => task'[e] = task[e])
  BY <1>2, TypeFacts
<1> QED BY <1>2, <1>4, <1>5 DEF Stays, Waits, Leaves, Kept

LEMMA TimesEffect ==
    ASSUME SP!TypeOK, NEW e \in Created,
           \/ \E a \in Agents : SP!Heartbeat(a) \/ SP!HeartbeatLapses(a)
           \/ \E f \in listed : SP!LeaseExpires(f)
    PROVE  Stays(e)
<1>1. CASE \E a \in Agents : SP!Heartbeat(a) \/ SP!HeartbeatLapses(a)
  BY <1>1 DEF SP!Heartbeat, SP!HeartbeatLapses, Stays, Kept
<1>2. CASE \E f \in listed : SP!LeaseExpires(f)
  <2>1. PICK f \in listed : SP!LeaseExpires(f)
    BY <1>2
  <2>2. f \in Created /\ task[f] \in SP!TaskRecord /\ task \in [Created -> SP!TaskRecord]
    BY TypeFacts
  <2>3. task' = [task EXCEPT ![f].leaseOld = TRUE]
    BY <2>1 DEF SP!LeaseExpires
  <2>4. /\ task'[f] = [task[f] EXCEPT !.leaseOld = TRUE]
        /\ e # f => task'[e] = task[e]
    BY <2>2, <2>3
  <2> QED BY <2>2, <2>4 DEF SP!TaskRecord, Stays, Kept
<1> QED BY <1>1, <1>2

LEMMA ClaimEffect ==
    ASSUME SP!TypeOK, NEW a \in Agents, SP!ClaimTask(a)
    PROVE  \E e \in listed :
              /\ e \in Created /\ task[e].agentID = a /\ task[e].status = "pending"
              /\ task[e].claimEpoch < MaxClaims
              /\ task'[e].taskID = task[e].taskID /\ task'[e].agentID = a
              /\ task'[e].claimEpoch = task[e].claimEpoch + 1 /\ task'[e].status = "running"
              /\ \A f \in Created : f # e => task'[f] = task[f]
              /\ UNCHANGED <<n, listed>>
<1>1. PICK e \in SP!TasksOf(a) :
        /\ task[e].status = "pending" /\ task[e].claimEpoch < MaxClaims
        /\ task' = [task EXCEPT ![e] = SP!Claimed(@, a)]
        /\ UNCHANGED <<n, listed>>
  BY DEF SP!ClaimTask
<1>2. e \in listed /\ e \in Created /\ task[e].agentID = a /\ task[e] \in SP!TaskRecord
  BY TypeFacts DEF SP!TasksOf
<1>3. task'[e] = SP!Claimed(task[e], a) /\ \A f \in Created : f # e => task'[f] = task[f]
  BY <1>1, <1>2, TypeFacts
<1>4. /\ SP!Claimed(task[e], a).taskID = task[e].taskID
      /\ SP!Claimed(task[e], a).agentID = task[e].agentID
      /\ SP!Claimed(task[e], a).claimEpoch = task[e].claimEpoch + 1
      /\ SP!Claimed(task[e], a).status = "running"
  BY <1>2 DEF SP!Claimed, SP!TaskRecord
<1> QED BY <1>1, <1>2, <1>3, <1>4

LEMMA CreateEffect ==
    ASSUME SP!TypeOK, NEW s \in Specs, SP!CreateTask(s)
    PROVE  /\ n' = n + 1 /\ Created' = Created \cup {n + 1} /\ n + 1 \notin Created
           /\ listed' = listed \cup {n + 1}
           /\ \A e \in Created : task'[e] = task[e]
           /\ task'[n + 1].taskID \in CallerIDs
              \/ \A e \in Created : task[e].taskID # task'[n + 1].taskID
           /\ task'[n + 1].claimEpoch = 0
           /\ task'[n + 1].status \notin {"running", "done", "cancelled"}
<1>1. /\ n' = n + 1 /\ listed' = listed \cup {n + 1}
      /\ task' = [e \in 1..(n + 1) |-> IF e \in Created THEN task[e] ELSE SP!NewTask(s)]
      /\ s.taskID \in CallerIDs \/ \A e \in Created : task[e].taskID # s.taskID
  BY SameRecords DEF SP!CreateTask, SP!addTaskLocked
<1>2. n \in Nat
  BY TypeFacts
<1>3. Created' = Created \cup {n + 1} /\ n + 1 \notin Created
  BY <1>1, <1>2 DEF Created
<1>4. task'[n + 1] = SP!NewTask(s) /\ \A e \in Created : task'[e] = task[e]
  BY <1>1, <1>2, <1>3 DEF Created
<1>5. /\ SP!NewTask(s).taskID = s.taskID /\ SP!NewTask(s).claimEpoch = 0
      /\ SP!NewTask(s).status \notin {"running", "done", "cancelled"}
  BY DEF SP!NewTask, SP!InitialStatus
<1> QED BY <1>1, <1>3, <1>4, <1>5
-----------------------------------------------------------------------------
(***************************************************************************)
(* The inductive invariant.                                                *)
(***************************************************************************)
\* A claim the store has given out.
Known(c) == c[1] \in Created /\ c[2] \in 1..task[c[1]].claimEpoch

EpochsOK ==
    \A e \in Created : /\ task[e].claimEpoch <= MaxClaims
                       /\ task[e].status = "running" => task[e].claimEpoch >= 1

\* An ID the store generated belongs to one record.
UniqueIDs ==
    \A e, f \in Created : task[e].taskID = task[f].taskID /\ e # f =>
        task[e].taskID \in CallerIDs

\* Nobody works on, reports or drops what was not claimed, and an agent holds
\* claims of its own tasks only.
ClaimsKnown ==
    /\ \A a \in Agents : \A c \in Held(a) : Known(c) /\ task[c[1]].agentID = a
    /\ \A m \in reports : Known(m.claim)
    /\ \A c \in history.discarded : Known(c)

\* Each claim is in one place at its agent, and is not reported before it has
\* left the agent.
Apart ==
    \A a \in Agents : /\ ApartIn(pulled[a], taskCh[a], worker[a])
                      /\ \A m \in reports : m.claim \notin Held(a)

\* HeldIsCurrent, and more: a claim that was not reclaimed stays the last claim
\* of its task, also if the task was cancelled.
Current ==
    \A a \in Agents : \A c \in Held(a) :
        \/ IDOf(c) \in CallerIDs
        \/ c \in history.reclaimed
        \/ c = CurrentClaim(c[1]) /\ task[c[1]].status \in {"running", "cancelled"}

\* A good report is that of a good run.
SentRan == \A m \in reports : m.success => m.claim \in history.ran

\* A handle is marked only if its task is cancelled at the control plane.
Marked ==
    \A a \in Agents, id \in TaskIDs : running[a][id].cancelled =>
        id \in CallerIDs \/ \E e \in Created : task[e].taskID = id /\ task[e].status = "cancelled"

DInv ==
    /\ TypeOK /\ SP!TypeOK /\ EpochsOK /\ UniqueIDs
    /\ ClaimsKnown /\ Apart /\ Current /\ SentRan /\ Marked
    /\ DoneWasRun /\ DroppedWasCancelled /\ CancelReaches

LEMMA HeldHands == ASSUME NEW a PROVE Held(a) = HeldIn(pulled[a], taskCh[a], worker[a])
BY DEF Held, HeldIn

\* An agent's hands, in their types.
LEMMA HandTypes ==
    ASSUME TypeOK, NEW a \in Agents
    PROVE  /\ pulled[a] \in Claims \cup {NoClaim} /\ taskCh[a] \in Seq(Claims)
           /\ worker[a] \in Hands /\ Held(a) \subseteq Claims
<1>1. pulled[a] \in Claims \cup {NoClaim} /\ taskCh[a] \in Seq(Claims) /\ worker[a] \in Hands
  BY DEF TypeOK, Hands
<1>2. PICK p, q, wk : p = pulled[a] /\ q = taskCh[a] /\ wk = worker[a]
  OBVIOUS
<1>3. \A i \in DOMAIN q : q[i] \in Claims
  BY <1>1, <1>2
<1>4. HeldIn(p, q, wk) \subseteq Claims
  BY <1>1, <1>2, <1>3 DEF HeldIn, Hands
<1> QED BY <1>1, <1>2, <1>4, HeldHands

\* Two claims of one generated ID are of one record.
LEMMA OneRecord ==
    ASSUME DInv, NEW a \in Agents, NEW c \in Held(a), NEW d \in Held(a), IDOf(c) = IDOf(d),
           IDOf(c) \notin CallerIDs, \A x \in history.reclaimed : x[1] # c[1]
    PROVE  c = d
<1>1. c[1] \in Created /\ d[1] \in Created
  BY DEF DInv, ClaimsKnown, Known
<1>2. c[1] = d[1]
  BY <1>1 DEF DInv, UniqueIDs, IDOf
<1>3. c \notin history.reclaimed /\ d \notin history.reclaimed
  BY <1>2
<1>4. c = CurrentClaim(c[1]) /\ d = CurrentClaim(d[1])
  BY <1>3 DEF DInv, Current
<1> QED BY <1>2, <1>4

\* Steps of the agents alone.
LEMMA AgentKeeps ==
    ASSUME DInv, UNCHANGED storeVars, TypeOK',
           \A b \in Agents : /\ Held(b)' \subseteq Held(b)
                             /\ ApartIn(pulled[b], taskCh[b], worker[b])',
           \A m \in reports' : m \in reports \/ \E b \in Agents :
              /\ m.claim \in Held(b) /\ m.claim \notin Held(b)'
              /\ m.success => m.claim \in history'.ran,
           history.ran \subseteq history'.ran, history'.reclaimed = history.reclaimed,
           \A c \in history'.discarded : c \in history.discarded \/
              (Known(c) /\ (task[c[1]].status = "cancelled" \/ IDOf(c) \in CallerIDs)),
           Marked', CancelReaches'
    PROVE  DInv'
<1>0. /\ task' = task /\ n' = n /\ Created' = Created
      /\ UNCHANGED <<listed, tasksByID, idempotency, silent, alerted, shown, hist>>
  BY DEF storeVars, Created
<1>1. \A c : Known(c)' = Known(c) /\ IDOf(c)' = IDOf(c)
  BY <1>0 DEF Known, IDOf
<1>2. \A e : CurrentClaim(e)' = CurrentClaim(e)
  BY <1>0 DEF CurrentClaim
<1>3. SP!TypeOK'
  <2>1. UNCHANGED SP!vars
    BY <1>0 DEF SP!vars
  <2>2. SP!TypeOK /\ [SP!Next]_SP!vars => SP!TypeOK'
    BY StoreFacts, SP!NextType
  <2> QED BY <2>1, <2>2 DEF DInv
<1>4. EpochsOK' /\ UniqueIDs'
  BY <1>0 DEF DInv, EpochsOK, UniqueIDs
<1>5. ClaimsKnown'
  <2>1. ASSUME NEW a \in Agents, NEW c \in Held(a)'
        PROVE  Known(c)' /\ task'[c[1]].agentID = a
    BY <1>0, <1>1, <2>1 DEF DInv, ClaimsKnown
  <2>2. \A m \in reports' : Known(m.claim)'
    BY <1>1 DEF DInv, ClaimsKnown
  <2>3. \A c \in history'.discarded : Known(c)'
    BY <1>1 DEF DInv, ClaimsKnown
  <2> QED BY <2>1, <2>2, <2>3 DEF ClaimsKnown
<1>6. Apart'
  <2>1. ASSUME NEW a \in Agents, NEW m \in reports' PROVE m.claim \notin Held(a)'
    <3>1. CASE m \in reports
      BY <3>1 DEF DInv, Apart
    <3>2. CASE m \notin reports
      <4>1. PICK b \in Agents : m.claim \in Held(b) /\ m.claim \notin Held(b)'
        BY <3>2
      <4>2. task[m.claim[1]].agentID = b
        BY <4>1 DEF DInv, ClaimsKnown
      <4>3. m.claim \in Held(a) => a = b
        BY <4>2 DEF DInv, ClaimsKnown
      <4> QED BY <4>1, <4>3
    <3> QED BY <3>1, <3>2
  <2> QED BY <2>1 DEF Apart
<1>7. Current'
  <2> SUFFICES ASSUME NEW a \in Agents, NEW c \in Held(a)'
               PROVE  \/ IDOf(c)' \in CallerIDs
                      \/ c \in history'.reclaimed
                      \/ c = CurrentClaim(c[1])' /\ task'[c[1]].status \in {"running", "cancelled"}
    BY DEF Current
  <2> QED BY <1>0, <1>1, <1>2 DEF DInv, Current
<1>8. SentRan'
  BY DEF DInv, SentRan
<1>9. DoneWasRun'
  BY <1>0, <1>2 DEF DInv, DoneWasRun
<1>10. DroppedWasCancelled'
  BY <1>0, <1>1 DEF DInv, DroppedWasCancelled
<1> QED BY <1>3, <1>4, <1>5, <1>6, <1>7, <1>8, <1>9, <1>10 DEF DInv

\* Steps of the store alone, other than claims and new tasks.
LEMMA StoreKeeps ==
    ASSUME DInv, SP!TypeOK', TypeOK', UNCHANGED agentVars, n' = n, reports' \subseteq reports,
           history'.ran = history.ran, history'.discarded = history.discarded,
           history.reclaimed \subseteq history'.reclaimed,
           \A e \in Created : Stays(e) \/ Leaves(e),
           \A e \in Created : task[e].status = "running" /\ ~Stays(e) =>
              \/ task'[e].status = "cancelled" \/ task[e].taskID \in CallerIDs
              \/ CurrentClaim(e) \in history'.reclaimed
              \/ \A a \in Agents : CurrentClaim(e) \notin Held(a),
           \A e \in Created : task'[e].status = "done" /\ ~Stays(e) =>
              CurrentClaim(e) \in history.ran \/ task[e].taskID \in CallerIDs
    PROVE  DInv'
<1>0. /\ pulled' = pulled /\ taskCh' = taskCh /\ worker' = worker /\ running' = running
      /\ Created' = Created
  BY DEF agentVars, Created
<1>1. \A e \in Created : Kept(e)
  BY DEF Stays, Leaves
<1>2. \A c : Known(c) => Known(c)' /\ IDOf(c)' = IDOf(c) /\ CurrentClaim(c[1])' = CurrentClaim(c[1])
                         /\ task'[c[1]].agentID = task[c[1]].agentID
  BY <1>0, <1>1 DEF Known, IDOf, CurrentClaim, Kept
<1>3. \A a : Held(a)' = Held(a)
  BY <1>0 DEF Held
<1>4. EpochsOK' /\ UniqueIDs'
  <2>1. EpochsOK'
    BY <1>0, <1>1 DEF DInv, EpochsOK, Stays, Leaves, Kept
  <2>2. UniqueIDs'
    BY <1>0, <1>1 DEF DInv, UniqueIDs, Kept
  <2> QED BY <2>1, <2>2
<1>5. ClaimsKnown'
  <2>1. \A a \in Agents : \A c \in Held(a)' : Known(c)' /\ task'[c[1]].agentID = a
    BY <1>2, <1>3 DEF DInv, ClaimsKnown
  <2>2. (\A m \in reports' : Known(m.claim)') /\ \A c \in history'.discarded : Known(c)'
    BY <1>2 DEF DInv, ClaimsKnown
  <2> QED BY <2>1, <2>2 DEF ClaimsKnown
<1>6. Apart'
  BY <1>0, <1>3 DEF DInv, Apart
<1>7. Current'
  <2> SUFFICES ASSUME NEW a \in Agents, NEW c \in Held(a)
               PROVE  \/ IDOf(c)' \in CallerIDs
                      \/ c \in history'.reclaimed
                      \/ c = CurrentClaim(c[1])' /\ task'[c[1]].status \in {"running", "cancelled"}
    BY <1>3 DEF Current
  <2>1. Known(c) /\ c[1] \in Created
    BY DEF DInv, ClaimsKnown, Known
  <2>2. \/ IDOf(c) \in CallerIDs
        \/ c \in history.reclaimed
        \/ c = CurrentClaim(c[1]) /\ task[c[1]].status \in {"running", "cancelled"}
    BY DEF DInv, Current
  <2>3. CASE c = CurrentClaim(c[1]) /\ task[c[1]].status \in {"running", "cancelled"}
    <3>1. CASE Stays(c[1])
      BY <1>2, <2>1, <2>3, <3>1 DEF Stays
    <3>2. CASE ~Stays(c[1])
      <4>1. task[c[1]].status = "running"
        BY <2>1, <2>3, <3>2 DEF Leaves
      <4>2. \/ task'[c[1]].status = "cancelled" \/ task[c[1]].taskID \in CallerIDs
            \/ CurrentClaim(c[1]) \in history'.reclaimed
        BY <2>1, <2>3, <3>2, <4>1
      <4> QED BY <1>2, <2>1, <2>3, <4>2 DEF IDOf
    <3> QED BY <3>1, <3>2
  <2> QED BY <1>2, <2>1, <2>2, <2>3
<1>8. SentRan'
  BY DEF DInv, SentRan
<1>9. DoneWasRun'
  <2> SUFFICES ASSUME NEW e \in Created, task'[e].status = "done"
               PROVE  CurrentClaim(e)' \in history'.ran \/ task'[e].taskID \in CallerIDs
    BY <1>0 DEF DoneWasRun, Created
  <2>1. CurrentClaim(e)' = CurrentClaim(e) /\ task'[e].taskID = task[e].taskID
    BY <1>1 DEF Kept, CurrentClaim
  <2>2. CASE Stays(e)
    BY <2>1, <2>2 DEF DInv, DoneWasRun, Stays, Created
  <2> QED BY <2>1, <2>2
<1>10. DroppedWasCancelled'
  <2> SUFFICES ASSUME NEW c \in history.discarded
               PROVE  task'[c[1]].status = "cancelled" \/ IDOf(c)' \in CallerIDs
    BY DEF DroppedWasCancelled
  <2>1. Known(c) /\ c[1] \in Created
    BY DEF DInv, ClaimsKnown, Known
  <2>2. task[c[1]].status = "cancelled" => task'[c[1]].status = "cancelled"
    BY <2>1 DEF Stays, Leaves
  <2> QED BY <1>2, <2>1, <2>2 DEF DInv, DroppedWasCancelled
<1>11. Marked'
  <2>1. \A e \in Created : task[e].status = "cancelled" =>
           task'[e].status = "cancelled" /\ task'[e].taskID = task[e].taskID
    BY <1>1 DEF Stays, Leaves, Kept
  <2> QED BY <1>0, <2>1 DEF DInv, Marked
<1>12. CancelReaches'
  <2> SUFFICES ASSUME NEW a \in Agents, NEW w \in Workers, worker[a][w] # NoClaim,
                      \A d \in history'.reclaimed : d[1] # worker[a][w][1]
               PROVE  \/ running[a][IDOf(worker[a][w])'].worker = w
                      \/ IDOf(worker[a][w])' \in CallerIDs
    BY <1>0 DEF CancelReaches, IDOf
  <2>1. worker[a][w] \in Held(a)
    BY DEF Held
  <2>2. Known(worker[a][w])
    BY <2>1 DEF DInv, ClaimsKnown
  <2>3. IDOf(worker[a][w])' = IDOf(worker[a][w])
    BY <1>0, <1>1, <2>2 DEF IDOf, Known, Kept
  <2>4. \/ running[a][IDOf(worker[a][w])].worker = w \/ IDOf(worker[a][w]) \in CallerIDs
    BY DEF DInv, CancelReaches
  <2> QED BY <2>3, <2>4
<1> QED BY <1>4, <1>5, <1>6, <1>7, <1>8, <1>9, <1>10, <1>11, <1>12 DEF DInv
-----------------------------------------------------------------------------
(***************************************************************************)
(* Every step of the delivery is a step of the store or leaves it alone.   *)
(***************************************************************************)
LEMMA StoreStep ==
    ASSUME DInv, [Next]_vars
    PROVE  [SP!Next]_SP!vars
<1>1. ASSUME UNCHANGED storeVars PROVE UNCHANGED SP!vars
  BY <1>1 DEF storeVars, SP!vars
<1>2. ASSUME NEW a \in Agents, PullTasks(a) PROVE SP!Next
  <2>1. SP!ClaimTask(a)
    BY <1>2, SameClaim DEF PullTasks
  <2> QED BY <2>1 DEF SP!Next
<1>3. ASSUME NEW m \in reports, ReportResult(m) PROVE SP!Next
  <2>1. PICK c, k, success : c = m.claim[1] /\ k = m.claim[2] /\ success = m.success
    OBVIOUS
  <2>2. SP!SubmitResult(c, k, success)
    BY <1>3, <2>1, SameReport DEF ReportResult
  <2>3. c \in SP!Created /\ k \in 1..task[c].claimEpoch /\ success \in BOOLEAN
    BY <2>1, SameRecords DEF DInv, TypeOK, ClaimsKnown, Known
  <2> QED BY <2>2, <2>3 DEF SP!Next
<1>4. ASSUME NEW id \in TaskIDs, CancelOverdue(id) PROVE SP!Next \/ UNCHANGED SP!vars
  <2>1. SP!CancelTask(id) \/ UNCHANGED storeVars
    BY <1>4, SameCancel DEF CancelOverdue
  <2> QED BY <1>1, <2>1 DEF SP!Next
<1>5. ASSUME Reclaim PROVE SP!Next
  <2>1. SP!ReclaimStaleTasks
    BY <1>5, SameReclaim DEF Reclaim
  <2> QED BY <2>1 DEF SP!Next
<1>6. ASSUME StoreAlone PROVE SP!Next
  <2>1. CASE \E s \in Specs : Store!CreateTask(s)
    BY <2>1, SameCreate DEF SP!Next
  <2>2. CASE \E a \in Agents : Store!Heartbeat(a) \/ Store!HeartbeatLapses(a)
    BY <2>2, SameTimes DEF SP!Next
  <2>3. CASE \E e \in listed : Store!LeaseExpires(e)
    BY <2>3, SameTimes DEF SP!Next
  <2>4. CASE \E id \in TaskIDs : Store!CancelTask(id) \/ Store!RetryDeadLetterTask(id)
    BY <2>4, SameCancel, SameRequeue DEF SP!Next
  <2> QED BY <1>6, <2>1, <2>2, <2>3, <2>4 DEF StoreAlone
<1>7. ASSUME NEW a \in Agents,
             \/ drainTasks(a) \/ RefuseWork(a) \/ cancelLoop(a) \/ Restart(a)
             \/ \E w \in Workers : \/ StartWork(a, w) \/ WorkerPanics(a, w)
                                   \/ \E success \in BOOLEAN : EndWork(a, w, success)
      PROVE  UNCHANGED SP!vars
  BY <1>1, <1>7 DEF drainTasks, RefuseWork, cancelLoop, Restart, StartWork, WorkerPanics, EndWork
<1>8. ASSUME \/ \E m \in reports : LoseReport(m)
             \/ \E e \in listed : TimeoutPasses(e)
             \/ ScanTimeouts \/ UNCHANGED vars
      PROVE  UNCHANGED SP!vars
  BY <1>1, <1>8 DEF LoseReport, TimeoutPasses, ScanTimeouts, vars
<1>9. \A id \in sweep : id \in TaskIDs
  BY DEF DInv, TypeOK
<1> QED BY <1>2, <1>3, <1>4, <1>5, <1>6, <1>7, <1>8, <1>9, Zenon DEF Next

LEMMA StoreTyped ==
    ASSUME DInv, [Next]_vars
    PROVE  SP!TypeOK'
<1>1. SP!TypeOK /\ [SP!Next]_SP!vars => SP!TypeOK'
  BY StoreFacts, SP!NextType
<1> QED BY <1>1, StoreStep DEF DInv
-----------------------------------------------------------------------------
(***************************************************************************)
(* The steps of the agents.                                                *)
(***************************************************************************)
\* The hands of one agent change.
LEMMA OneAgent ==
    ASSUME DInv, NEW a \in Agents,
           \A b \in Agents \ {a} : /\ pulled'[b] = pulled[b] /\ taskCh'[b] = taskCh[b]
                                   /\ worker'[b] = worker[b],
           ApartIn(pulled'[a], taskCh'[a], worker'[a]),
           HeldIn(pulled'[a], taskCh'[a], worker'[a]) \subseteq Held(a)
    PROVE  \A b \in Agents : /\ Held(b)' \subseteq Held(b)
                             /\ ApartIn(pulled[b], taskCh[b], worker[b])'
<1>1. ASSUME NEW b \in Agents PROVE Held(b)' = HeldIn(pulled'[b], taskCh'[b], worker'[b])
  BY DEF Held, HeldIn
<1>2. ASSUME NEW b \in Agents \ {a}
      PROVE  Held(b)' \subseteq Held(b) /\ ApartIn(pulled'[b], taskCh'[b], worker'[b])
  <2>1. Held(b)' = Held(b)
    BY <1>1, HeldHands
  <2>2. ApartIn(pulled[b], taskCh[b], worker[b])
    BY DEF DInv, Apart
  <2> QED BY <2>1, <2>2
<1>3. ASSUME NEW b \in Agents
      PROVE  Held(b)' \subseteq Held(b) /\ ApartIn(pulled'[b], taskCh'[b], worker'[b])
  BY <1>1, <1>2
<1> QED BY <1>3 DEF ApartIn

\* The handles stay as they are, and no worker takes up a claim.
LEMMA SameHandles ==
    ASSUME DInv, UNCHANGED storeVars, UNCHANGED running, history'.reclaimed = history.reclaimed,
           \A b \in Agents, w \in Workers : worker'[b][w] \in {worker[b][w], NoClaim}
    PROVE  Marked' /\ CancelReaches'
<1>1. task' = task /\ n' = n /\ Created' = Created /\ \A c : IDOf(c)' = IDOf(c)
  BY DEF storeVars, Created, IDOf
<1>2. Marked'
  BY <1>1 DEF DInv, Marked
<1>3. CancelReaches'
  <2> SUFFICES ASSUME NEW b \in Agents, NEW w \in Workers, worker'[b][w] # NoClaim,
                      \A d \in history.reclaimed : d[1] # worker'[b][w][1]
               PROVE  \/ running[b][IDOf(worker[b][w])].worker = w
                      \/ IDOf(worker[b][w]) \in CallerIDs
    <3>1. \A b \in Agents, w \in Workers : worker'[b][w] # NoClaim =>
             IDOf(worker[b][w])' = IDOf(worker[b][w])
      BY <1>1 DEF IDOf
    <3> QED BY <3>1 DEF CancelReaches
  <2> QED BY DEF DInv, CancelReaches
<1> QED BY <1>2, <1>3

LEMMA DrainKeeps ==
    ASSUME DInv, NEW a \in Agents, drainTasks(a)
    PROVE  DInv'
<1>1. PICK p, q, wk : p = pulled[a] /\ q = taskCh[a] /\ wk = worker[a]
  OBVIOUS
<1>2. p \in Claims /\ q \in Seq(Claims) /\ wk \in Hands /\ ApartIn(p, q, wk)
  BY <1>1, HandTypes DEF DInv, Apart, drainTasks
<1>3. /\ pulled' = [pulled EXCEPT ![a] = NoClaim]
      /\ taskCh' = [taskCh EXCEPT ![a] = Append(q, p)] /\ Len(q) < QueueCap
      /\ UNCHANGED <<storeVars, monitorVars, worker, running, reports, history>>
  BY <1>1 DEF drainTasks
<1>4. pulled'[a] = NoClaim /\ taskCh'[a] = Append(q, p) /\ worker'[a] = wk
      /\ \A b \in Agents \ {a} : /\ pulled'[b] = pulled[b] /\ taskCh'[b] = taskCh[b]
                                 /\ worker'[b] = worker[b]
  BY <1>1, <1>3 DEF DInv, TypeOK
<1>5. \A b \in Agents : /\ Held(b)' \subseteq Held(b)
                        /\ ApartIn(pulled[b], taskCh[b], worker[b])'
  <2>1. ApartIn(pulled'[a], taskCh'[a], worker'[a])
        /\ HeldIn(pulled'[a], taskCh'[a], worker'[a]) = Held(a)
    BY <1>1, <1>2, <1>4, QueueHands, HeldHands
  <2> QED BY <1>4, <2>1, OneAgent
<1>6. TypeOK'
  <2>1. Append(q, p) \in Seq(Claims) /\ Len(Append(q, p)) <= QueueCap
    BY <1>2, <1>3, AgentAssumption
  <2>2. taskCh' \in [Agents -> Seq(Claims)] /\ \A b \in Agents : Len(taskCh'[b]) <= QueueCap
    BY <1>3, <1>4, <2>1 DEF DInv, TypeOK
  <2>3. pulled' \in [Agents -> Claims \cup {NoClaim}]
    BY <1>3 DEF DInv, TypeOK
  <2> QED BY <1>3, <2>2, <2>3 DEF DInv, TypeOK, storeVars, monitorVars
<1>7. Marked' /\ CancelReaches'
  BY <1>3, SameHandles
<1>8. UNCHANGED storeVars /\ history' = history /\ reports' = reports
  BY <1>3
<1> QED BY <1>5, <1>6, <1>7, <1>8, AgentKeeps

LEMMA RefuseKeeps ==
    ASSUME DInv, NEW a \in Agents, RefuseWork(a)
    PROVE  DInv'
<1>1. PICK p, q, wk : p = pulled[a] /\ q = taskCh[a] /\ wk = worker[a]
  OBVIOUS
<1>2. p \in Claims \cup {NoClaim} /\ q \in Seq(Claims) /\ wk \in Hands /\ ApartIn(p, q, wk)
      /\ q # <<>>
  BY <1>1, HandTypes DEF DInv, Apart, RefuseWork
<1>3. /\ taskCh' = [taskCh EXCEPT ![a] = Tail(q)]
      /\ reports' = reports \cup {[claim |-> Head(q), success |-> FALSE]}
      /\ UNCHANGED <<storeVars, monitorVars, pulled, worker, running, history>>
  BY <1>1 DEF RefuseWork
<1>4. pulled'[a] = p /\ taskCh'[a] = Tail(q) /\ worker'[a] = wk
      /\ \A b \in Agents \ {a} : /\ pulled'[b] = pulled[b] /\ taskCh'[b] = taskCh[b]
                                 /\ worker'[b] = worker[b]
  BY <1>1, <1>3 DEF DInv, TypeOK
<1>5. /\ ApartIn(p, Tail(q), wk) /\ HeldIn(p, Tail(q), wk) = Held(a) \ {Head(q)}
      /\ Head(q) \in Held(a)
  BY <1>1, <1>2, RefuseHands, HeldHands
<1>6. \A b \in Agents : /\ Held(b)' \subseteq Held(b)
                        /\ ApartIn(pulled[b], taskCh[b], worker[b])'
  BY <1>4, <1>5, OneAgent
<1>7. Head(q) \notin Held(a)'
  <2>1. Held(a)' = HeldIn(pulled'[a], taskCh'[a], worker'[a])
    BY DEF Held, HeldIn
  <2> QED BY <1>4, <1>5, <2>1
<1>8. TypeOK'
  <2>1. Tail(q) \in Seq(Claims) /\ Len(Tail(q)) <= QueueCap /\ Head(q) \in Claims
    <3>1. Len(q) <= QueueCap
      BY <1>1 DEF DInv, TypeOK
    <3> QED BY <1>2, <3>1, TailFacts, AgentAssumption
  <2>2. taskCh' \in [Agents -> Seq(Claims)] /\ \A b \in Agents : Len(taskCh'[b]) <= QueueCap
    BY <1>3, <1>4, <2>1 DEF DInv, TypeOK
  <2>3. reports' \subseteq [claim : Claims, success : BOOLEAN]
    <3>1. [claim |-> Head(q), success |-> FALSE] \in [claim : Claims, success : BOOLEAN]
      BY <2>1
    <3>2. reports \subseteq [claim : Claims, success : BOOLEAN]
      BY DEF DInv, TypeOK
    <3> QED BY <1>3, <3>1, <3>2
  <2> QED BY <1>3, <2>2, <2>3 DEF DInv, TypeOK, storeVars, monitorVars
<1>9. Marked' /\ CancelReaches'
  BY <1>3, SameHandles
<1>10. \A m \in reports' : m \in reports \/ \E b \in Agents :
              /\ m.claim \in Held(b) /\ m.claim \notin Held(b)'
              /\ m.success => m.claim \in history'.ran
  BY <1>3, <1>5, <1>7
<1>11. UNCHANGED storeVars /\ history' = history
  BY <1>3
<1> QED BY <1>6, <1>8, <1>9, <1>10, <1>11, AgentKeeps

LEMMA StartKeeps ==
    ASSUME DInv, NEW a \in Agents, NEW w \in Workers, StartWork(a, w)
    PROVE  DInv'
<1>1. PICK p, q, wk, c : p = pulled[a] /\ q = taskCh[a] /\ wk = worker[a] /\ c = Head(q)
  OBVIOUS
<1>2. p \in Claims \cup {NoClaim} /\ q \in Seq(Claims) /\ wk \in Hands /\ ApartIn(p, q, wk)
      /\ q # <<>> /\ wk[w] = NoClaim
  BY <1>1, HandTypes DEF DInv, Apart, StartWork
<1>3. /\ taskCh' = [taskCh EXCEPT ![a] = Tail(q)]
      /\ worker' = [worker EXCEPT ![a][w] = c]
      /\ running' = [running EXCEPT ![a][IDOf(c)] = [worker |-> w, cancelled |-> FALSE]]
      /\ UNCHANGED <<storeVars, monitorVars, pulled, reports, history>>
  BY <1>1 DEF StartWork
<1>4. pulled'[a] = p /\ taskCh'[a] = Tail(q) /\ worker'[a] = [wk EXCEPT ![w] = c]
      /\ \A b \in Agents \ {a} : /\ pulled'[b] = pulled[b] /\ taskCh'[b] = taskCh[b]
                                 /\ worker'[b] = worker[b] /\ running'[b] = running[b]
  BY <1>1, <1>3 DEF DInv, TypeOK
<1>5. /\ Head(q) \in Held(a) /\ \A v \in Workers : wk[v] # Head(q)
  BY <1>1, <1>2, RefuseHands, HeldHands
<1>6. \A b \in Agents : /\ Held(b)' \subseteq Held(b)
                        /\ ApartIn(pulled[b], taskCh[b], worker[b])'
  <2>1. /\ ApartIn(p, Tail(q), [wk EXCEPT ![w] = c])
        /\ HeldIn(p, Tail(q), [wk EXCEPT ![w] = c]) = Held(a)
    BY <1>1, <1>2, StartHands, HeldHands
  <2> QED BY <1>4, <2>1, OneAgent
<1>7. c[1] \in Created /\ IDOf(c) \in TaskIDs
  BY <1>1, <1>5, TypeFacts DEF DInv, ClaimsKnown, Known, IDOf
<1>8. TypeOK'
  <2>1. Tail(q) \in Seq(Claims) /\ Len(Tail(q)) <= QueueCap /\ c \in Claims
    <3>1. Len(q) <= QueueCap
      BY <1>1 DEF DInv, TypeOK
    <3> QED BY <1>1, <1>2, <3>1, TailFacts, AgentAssumption
  <2>2. taskCh' \in [Agents -> Seq(Claims)] /\ \A b \in Agents : Len(taskCh'[b]) <= QueueCap
    BY <1>3, <1>4, <2>1 DEF DInv, TypeOK
  <2>3. worker' \in [Agents -> [Workers -> Claims \cup {NoClaim}]]
    BY <1>3, <2>1 DEF DInv, TypeOK
  <2>4. running' \in [Agents -> [TaskIDs -> Handle]]
    <3>1. [worker |-> w, cancelled |-> FALSE] \in Handle
      BY DEF Handle
    <3> QED BY <1>3, <1>7, <3>1 DEF DInv, TypeOK
  <2> QED BY <1>3, <2>2, <2>3, <2>4 DEF DInv, TypeOK, storeVars, monitorVars
<1>9. /\ running'[a][IDOf(c)] = [worker |-> w, cancelled |-> FALSE]
      /\ \A id \in TaskIDs : id # IDOf(c) => running'[a][id] = running[a][id]
  BY <1>3, <1>7 DEF DInv, TypeOK
<1>10. task' = task /\ n' = n /\ Created' = Created /\ \A d : IDOf(d)' = IDOf(d)
  BY <1>3 DEF storeVars, Created, IDOf
<1>11. Marked'
  <2> SUFFICES ASSUME NEW b \in Agents, NEW id \in TaskIDs, running'[b][id].cancelled
               PROVE  \/ id \in CallerIDs
                      \/ \E e \in Created : task[e].taskID = id /\ task[e].status = "cancelled"
    BY <1>10 DEF Marked
  <2>1. running'[b][id] = running[b][id]
    BY <1>4, <1>9
  <2> QED BY <2>1 DEF DInv, Marked
<1>12. CancelReaches'
  <2> SUFFICES ASSUME NEW b \in Agents, NEW v \in Workers, worker'[b][v] # NoClaim,
                      \A d \in history.reclaimed : d[1] # worker'[b][v][1]
               PROVE  \/ running'[b][IDOf(worker'[b][v])].worker = v
                      \/ IDOf(worker'[b][v]) \in CallerIDs
    <3>1. \A b \in Agents, v \in Workers : IDOf(worker[b][v])' = IDOf(worker'[b][v])
      BY <1>10 DEF IDOf
    <3> QED BY <1>3, <3>1 DEF CancelReaches
  <2>1. CASE b # a
    BY <1>4, <2>1 DEF DInv, CancelReaches
  <2>2. CASE b = a /\ v = w
    <3>1. worker'[a][w] = c
      BY <1>2, <1>4 DEF Hands
    <3> QED BY <1>9, <2>2, <3>1
  <2>3. CASE b = a /\ v # w
    <3>1. worker'[b][v] = worker[a][v] /\ worker[a][v] \in Held(a)
      <4>1. worker'[b][v] = wk[v]
        BY <1>2, <1>4, <2>3 DEF Hands
      <4> QED BY <1>1, <2>3, <4>1 DEF Held
    <3>2. PICK d : d = worker[a][v]
      OBVIOUS
    <3>3. running[a][IDOf(d)].worker = v \/ IDOf(d) \in CallerIDs
      BY <2>3, <3>1, <3>2 DEF DInv, CancelReaches
    <3>4. CASE IDOf(d) = IDOf(c) /\ IDOf(d) \notin CallerIDs
      <4>1. d = c
        BY <1>1, <1>5, <2>3, <3>1, <3>2, <3>4, OneRecord
      <4> QED BY <1>1, <1>5, <3>2, <4>1
    <3>5. CASE IDOf(d) # IDOf(c)
      <4>1. IDOf(d) \in TaskIDs
        BY <3>1, <3>2, TypeFacts DEF DInv, ClaimsKnown, Known, IDOf
      <4> QED BY <1>9, <2>3, <3>1, <3>2, <3>3, <3>5, <4>1
    <3> QED BY <3>1, <3>2, <3>4, <3>5
  <2> QED BY <2>1, <2>2, <2>3
<1>13. UNCHANGED storeVars /\ history' = history /\ reports' = reports
  BY <1>3
<1> QED BY <1>6, <1>8, <1>11, <1>12, <1>13, AgentKeeps

\* A worker puts down its claim.
LEMMA PutDown ==
    ASSUME DInv, NEW a \in Agents, NEW w \in Workers, worker[a][w] # NoClaim,
           worker' = [worker EXCEPT ![a][w] = NoClaim], UNCHANGED <<pulled, taskCh>>
    PROVE  /\ \A b \in Agents : /\ Held(b)' \subseteq Held(b)
                                /\ ApartIn(pulled[b], taskCh[b], worker[b])'
           /\ worker[a][w] \in Held(a) /\ worker[a][w] \notin Held(a)'
           /\ worker' \in [Agents -> [Workers -> Claims \cup {NoClaim}]]
           /\ \A b \in Agents, v \in Workers :
                 worker'[b][v] = IF b = a /\ v = w THEN NoClaim ELSE worker[b][v]
<1>1. PICK p, q, wk : p = pulled[a] /\ q = taskCh[a] /\ wk = worker[a]
  OBVIOUS
<1>2. p \in Claims \cup {NoClaim} /\ q \in Seq(Claims) /\ wk \in Hands /\ ApartIn(p, q, wk)
  BY <1>1, HandTypes DEF DInv, Apart
<1>3. pulled'[a] = p /\ taskCh'[a] = q /\ worker'[a] = [wk EXCEPT ![w] = NoClaim]
      /\ \A b \in Agents \ {a} : /\ pulled'[b] = pulled[b] /\ taskCh'[b] = taskCh[b]
                                 /\ worker'[b] = worker[b]
  BY <1>1 DEF DInv, TypeOK
<1>4. /\ ApartIn(p, q, [wk EXCEPT ![w] = NoClaim])
      /\ HeldIn(p, q, [wk EXCEPT ![w] = NoClaim]) = Held(a) \ {wk[w]}
      /\ wk[w] \in Held(a)
  <2>1. wk[w] # NoClaim /\ Held(a) = HeldIn(p, q, wk)
    BY <1>1, HeldHands
  <2>2. /\ ApartIn(p, q, [wk EXCEPT ![w] = NoClaim])
        /\ HeldIn(p, q, [wk EXCEPT ![w] = NoClaim]) = HeldIn(p, q, wk) \ {wk[w]}
        /\ wk[w] \in HeldIn(p, q, wk)
    BY <1>2, <2>1, EndHands, Zenon
  <2> QED BY <2>1, <2>2
<1>5. Held(a)' = HeldIn(pulled'[a], taskCh'[a], worker'[a])
  BY DEF Held, HeldIn
<1>6. \A b \in Agents : /\ Held(b)' \subseteq Held(b)
                        /\ ApartIn(pulled[b], taskCh[b], worker[b])'
  BY <1>3, <1>4, OneAgent
<1>7. /\ worker' \in [Agents -> [Workers -> Claims \cup {NoClaim}]]
      /\ \A b \in Agents, v \in Workers :
            worker'[b][v] = IF b = a /\ v = w THEN NoClaim ELSE worker[b][v]
  BY DEF DInv, TypeOK
<1>8. worker[a][w] \in Held(a) /\ worker[a][w] \notin Held(a)'
  BY <1>1, <1>3, <1>4, <1>5
<1> QED BY <1>6, <1>7, <1>8

LEMMA PanicKeeps ==
    ASSUME DInv, NEW a \in Agents, NEW w \in Workers, WorkerPanics(a, w)
    PROVE  DInv'
<1>1. /\ worker[a][w] # NoClaim /\ worker' = [worker EXCEPT ![a][w] = NoClaim]
      /\ UNCHANGED <<pulled, taskCh>> /\ UNCHANGED storeVars /\ UNCHANGED monitorVars
      /\ UNCHANGED running /\ reports' = reports /\ history' = history
  BY DEF WorkerPanics
<1>2. /\ \A b \in Agents : /\ Held(b)' \subseteq Held(b)
                           /\ ApartIn(pulled[b], taskCh[b], worker[b])'
      /\ worker' \in [Agents -> [Workers -> Claims \cup {NoClaim}]]
      /\ \A b \in Agents, v \in Workers :
            worker'[b][v] = IF b = a /\ v = w THEN NoClaim ELSE worker[b][v]
  BY <1>1, PutDown
<1>3. TypeOK'
  BY <1>1, <1>2 DEF DInv, TypeOK, storeVars, monitorVars
<1>4. Marked' /\ CancelReaches'
  BY <1>1, <1>2, SameHandles
<1> QED BY <1>1, <1>2, <1>3, <1>4, AgentKeeps

LEMMA EndKeeps ==
    ASSUME DInv, NEW a \in Agents, NEW w \in Workers, NEW success \in BOOLEAN,
           EndWork(a, w, success)
    PROVE  DInv'
<1>1. PICK c, cancelled : c = worker[a][w] /\ cancelled = running[a][IDOf(c)].cancelled
  OBVIOUS
<1>2. /\ c # NoClaim /\ worker' = [worker EXCEPT ![a][w] = NoClaim]
      /\ running' = [running EXCEPT ![a][IDOf(c)] = NoHandle]
      /\ reports' = IF cancelled THEN reports
                    ELSE reports \cup {[claim |-> c, success |-> success]}
      /\ history' = [history EXCEPT
                       !.ran = IF success THEN @ \cup {c} ELSE @,
                       !.discarded = IF cancelled THEN @ \cup {c} ELSE @]
      /\ UNCHANGED storeVars /\ UNCHANGED monitorVars /\ UNCHANGED <<pulled, taskCh>>
  BY <1>1 DEF EndWork
<1>3. /\ \A b \in Agents : /\ Held(b)' \subseteq Held(b)
                           /\ ApartIn(pulled[b], taskCh[b], worker[b])'
      /\ c \in Held(a) /\ c \notin Held(a)'
      /\ worker' \in [Agents -> [Workers -> Claims \cup {NoClaim}]]
      /\ \A b \in Agents, v \in Workers :
            worker'[b][v] = IF b = a /\ v = w THEN NoClaim ELSE worker[b][v]
  BY <1>1, <1>2, PutDown
<1>4. c \in Claims /\ Known(c) /\ c[1] \in Created /\ IDOf(c) \in TaskIDs
  BY <1>3, HandTypes, TypeFacts DEF DInv, ClaimsKnown, Known, IDOf
<1>5. /\ history'.reclaimed = history.reclaimed
      /\ history'.ran = IF success THEN history.ran \cup {c} ELSE history.ran
      /\ history'.discarded = IF cancelled THEN history.discarded \cup {c} ELSE history.discarded
  BY <1>2 DEF DInv, TypeOK
<1>6. TypeOK'
  <2>1. running' \in [Agents -> [TaskIDs -> Handle]]
    <3>1. NoHandle \in Handle
      BY DEF Handle, NoHandle
    <3> QED BY <1>2, <1>4, <3>1 DEF DInv, TypeOK
  <2>2. reports' \subseteq [claim : Claims, success : BOOLEAN]
    <3>1. [claim |-> c, success |-> success] \in [claim : Claims, success : BOOLEAN]
      BY <1>4
    <3>2. reports \subseteq [claim : Claims, success : BOOLEAN]
      BY DEF DInv, TypeOK
    <3> QED BY <1>2, <3>1, <3>2
  <2>3. history' \in [reclaimed : SUBSET Claims, ran : SUBSET Claims,
                      discarded : SUBSET Claims]
    BY <1>2, <1>4 DEF DInv, TypeOK
  <2> QED BY <1>2, <1>3, <2>1, <2>2, <2>3 DEF DInv, TypeOK, storeVars, monitorVars
<1>7. /\ running'[a][IDOf(c)] = NoHandle
      /\ \A id \in TaskIDs : id # IDOf(c) => running'[a][id] = running[a][id]
      /\ \A b \in Agents \ {a} : running'[b] = running[b]
  BY <1>2, <1>4 DEF DInv, TypeOK
<1>8. task' = task /\ n' = n /\ Created' = Created /\ \A d : IDOf(d)' = IDOf(d)
  BY <1>2 DEF storeVars, Created, IDOf
<1>9. Marked'
  <2> SUFFICES ASSUME NEW b \in Agents, NEW id \in TaskIDs, running'[b][id].cancelled
               PROVE  \/ id \in CallerIDs
                      \/ \E e \in Created : task[e].taskID = id /\ task[e].status = "cancelled"
    BY <1>8 DEF Marked
  <2>1. running'[b][id] = running[b][id]
    BY <1>7 DEF NoHandle
  <2> QED BY <2>1 DEF DInv, Marked
<1>10. CancelReaches'
  <2> SUFFICES ASSUME NEW b \in Agents, NEW v \in Workers, worker'[b][v] # NoClaim,
                      \A d \in history.reclaimed : d[1] # worker'[b][v][1]
               PROVE  \/ running'[b][IDOf(worker'[b][v])].worker = v
                      \/ IDOf(worker'[b][v]) \in CallerIDs
    <3>1. \A b \in Agents, v \in Workers : IDOf(worker[b][v])' = IDOf(worker'[b][v])
      BY <1>8 DEF IDOf
    <3> QED BY <1>5, <3>1 DEF CancelReaches
  <2>1. worker'[b][v] = worker[b][v] /\ ~(b = a /\ v = w)
    BY <1>3
  <2>2. PICK d : d = worker[b][v]
    OBVIOUS
  <2>3. running[b][IDOf(d)].worker = v \/ IDOf(d) \in CallerIDs
    BY <2>1, <2>2 DEF DInv, CancelReaches
  <2>4. CASE b # a
    BY <1>7, <2>1, <2>2, <2>3, <2>4
  <2>5. CASE b = a
    <3>1. d \in Held(a)
      BY <2>1, <2>2, <2>5 DEF Held
    <3>2. CASE IDOf(d) = IDOf(c) /\ IDOf(d) \notin CallerIDs
      <4>1. d = c
        BY <1>3, <2>1, <2>2, <3>1, <3>2, OneRecord
      <4>2. v = w
        BY <1>1, <1>2, <2>2, <2>5, <4>1 DEF DInv, Apart, ApartIn
      <4> QED BY <2>1, <2>5, <4>2
    <3>3. CASE IDOf(d) # IDOf(c)
      <4>1. IDOf(d) \in TaskIDs
        BY <3>1, TypeFacts DEF DInv, ClaimsKnown, Known, IDOf
      <4> QED BY <1>7, <2>1, <2>2, <2>3, <2>5, <3>3, <4>1
    <3> QED BY <2>1, <2>2, <3>2, <3>3
  <2> QED BY <2>4, <2>5
<1>11. cancelled => task[c[1]].status = "cancelled" \/ IDOf(c) \in CallerIDs
  <2> SUFFICES ASSUME cancelled, IDOf(c) \notin CallerIDs PROVE task[c[1]].status = "cancelled"
    OBVIOUS
  <2>1. PICK e \in Created : task[e].taskID = IDOf(c) /\ task[e].status = "cancelled"
    BY <1>1, <1>4 DEF DInv, Marked
  <2>2. e = c[1]
    BY <1>4, <2>1 DEF DInv, UniqueIDs, IDOf
  <2> QED BY <2>1, <2>2
<1>12. \A m \in reports' : m \in reports \/ \E b \in Agents :
              /\ m.claim \in Held(b) /\ m.claim \notin Held(b)'
              /\ m.success => m.claim \in history'.ran
  <2> SUFFICES ASSUME NEW m \in reports', m \notin reports
               PROVE  /\ m.claim \in Held(a) /\ m.claim \notin Held(a)'
                      /\ m.success => m.claim \in history'.ran
    OBVIOUS
  <2>1. m = [claim |-> c, success |-> success]
    BY <1>2
  <2>2. m.claim = c /\ m.success = success
    BY <2>1
  <2> QED BY <1>3, <1>5, <2>2
<1>13. history.ran \subseteq history'.ran /\ history'.reclaimed = history.reclaimed
       /\ UNCHANGED storeVars
  BY <1>2, <1>5
<1>14. \A x \in history'.discarded : x \in history.discarded \/
              (Known(x) /\ (task[x[1]].status = "cancelled" \/ IDOf(x) \in CallerIDs))
  BY <1>4, <1>5, <1>11
<1> QED BY <1>3, <1>6, <1>9, <1>10, <1>12, <1>13, <1>14, AgentKeeps

LEMMA CancelLoopKeeps ==
    ASSUME DInv, NEW a \in Agents, cancelLoop(a)
    PROVE  DInv'
<1> DEFINE hit == {id \in CancelledTaskIDs(a) :
                     running[a][id] # NoHandle /\ ~running[a][id].cancelled}
           mine == [id \in TaskIDs |-> IF id \in hit
                                       THEN [running[a][id] EXCEPT !.cancelled = TRUE]
                                       ELSE running[a][id]]
<1>1. /\ running' = [running EXCEPT ![a] = mine]
      /\ UNCHANGED storeVars /\ UNCHANGED monitorVars
      /\ UNCHANGED <<pulled, taskCh, worker>> /\ reports' = reports /\ history' = history
  BY DEF cancelLoop
<1>2. \A id \in hit : \E e \in Created : task[e].taskID = id /\ task[e].status = "cancelled"
  BY SameRecords, TypeFacts DEF CancelledTaskIDs, DInv, SP!TasksOf
<1>3. running \in [Agents -> [TaskIDs -> Handle]]
  BY DEF DInv, TypeOK
<1>4. \A id \in TaskIDs : /\ mine[id] \in Handle /\ mine[id].worker = running[a][id].worker
                          /\ mine[id].cancelled => running[a][id].cancelled \/ id \in hit
  <2> SUFFICES ASSUME NEW id \in TaskIDs
               PROVE  /\ mine[id] \in Handle /\ mine[id].worker = running[a][id].worker
                      /\ mine[id].cancelled => running[a][id].cancelled \/ id \in hit
    OBVIOUS
  <2>1. PICK h : h = running[a][id]
    OBVIOUS
  <2>2. h \in Handle
    BY <1>3, <2>1
  <2>3. mine[id] = IF id \in hit THEN [h EXCEPT !.cancelled = TRUE] ELSE h
    BY <2>1
  <2> HIDE DEF hit, mine
  <2> QED BY <2>1, <2>2, <2>3 DEF Handle
<1>5. mine \in [TaskIDs -> Handle]
  <2>1. mine = [id \in TaskIDs |-> mine[id]]
    OBVIOUS
  <2> HIDE DEF mine
  <2> QED BY <1>4, <2>1
<1> HIDE DEF hit, mine
<1>6. /\ running' \in [Agents -> [TaskIDs -> Handle]] /\ running'[a] = mine
      /\ \A b \in Agents \ {a} : running'[b] = running[b]
  BY <1>1, <1>3, <1>5
<1>7. TypeOK'
  BY <1>1, <1>6 DEF DInv, TypeOK, storeVars, monitorVars
<1>8. task' = task /\ n' = n /\ Created' = Created /\ \A d : IDOf(d)' = IDOf(d)
  BY <1>1 DEF storeVars, Created, IDOf
<1>9. Marked'
  <2> SUFFICES ASSUME NEW b \in Agents, NEW id \in TaskIDs, running'[b][id].cancelled
               PROVE  \/ id \in CallerIDs
                      \/ \E e \in Created : task[e].taskID = id /\ task[e].status = "cancelled"
    BY <1>8 DEF Marked
  <2>1. running[b][id].cancelled \/ id \in hit
    BY <1>4, <1>6
  <2> QED BY <1>2, <2>1 DEF DInv, Marked
<1>10. CancelReaches'
  <2> SUFFICES ASSUME NEW b \in Agents, NEW v \in Workers, worker[b][v] # NoClaim,
                      \A d \in history.reclaimed : d[1] # worker[b][v][1]
               PROVE  \/ running'[b][IDOf(worker[b][v])].worker = v
                      \/ IDOf(worker[b][v]) \in CallerIDs
    <3>1. \A b \in Agents, v \in Workers : IDOf(worker[b][v])' = IDOf(worker[b][v])
      BY <1>1, <1>8 DEF IDOf
    <3> QED BY <1>1, <3>1 DEF CancelReaches
  <2>1. PICK d : d = worker[b][v]
    OBVIOUS
  <2>2. running[b][IDOf(d)].worker = v \/ IDOf(d) \in CallerIDs
    BY <2>1 DEF DInv, CancelReaches
  <2>3. d \in Held(b)
    BY <2>1 DEF Held
  <2>4. IDOf(d) \in TaskIDs
    BY <2>3, TypeFacts DEF DInv, ClaimsKnown, Known, IDOf
  <2>5. running'[b][IDOf(d)].worker = running[b][IDOf(d)].worker
    BY <1>4, <1>6, <2>4
  <2> QED BY <2>1, <2>2, <2>5
<1>11. \A b \in Agents : /\ Held(b)' \subseteq Held(b)
                         /\ ApartIn(pulled[b], taskCh[b], worker[b])'
  BY <1>1 DEF DInv, Apart, Held
<1> QED BY <1>1, <1>7, <1>9, <1>10, <1>11, AgentKeeps

LEMMA RestartKeeps ==
    ASSUME DInv, NEW a \in Agents, Restart(a)
    PROVE  DInv'
<1> DEFINE idle == [w \in Workers |-> NoClaim]
           none == [id \in TaskIDs |-> NoHandle]
<1>1. /\ pulled' = [pulled EXCEPT ![a] = NoClaim]
      /\ taskCh' = [taskCh EXCEPT ![a] = <<>>]
      /\ worker' = [worker EXCEPT ![a] = idle]
      /\ running' = [running EXCEPT ![a] = none]
      /\ UNCHANGED storeVars /\ UNCHANGED monitorVars /\ reports' = reports /\ history' = history
  BY DEF Restart
<1>2. /\ idle \in [Workers -> Claims \cup {NoClaim}] /\ none \in [TaskIDs -> Handle]
      /\ (\A w \in Workers : idle[w] = NoClaim) /\ \A id \in TaskIDs : ~none[id].cancelled
      /\ ApartIn(NoClaim, <<>>, idle) /\ HeldIn(NoClaim, <<>>, idle) = {}
  BY NoHands DEF Handle, NoHandle
<1> HIDE DEF idle, none
<1>3. /\ pulled'[a] = NoClaim /\ taskCh'[a] = <<>> /\ worker'[a] = idle /\ running'[a] = none
      /\ \A b \in Agents \ {a} : /\ pulled'[b] = pulled[b] /\ taskCh'[b] = taskCh[b]
                                 /\ worker'[b] = worker[b] /\ running'[b] = running[b]
  BY <1>1 DEF DInv, TypeOK
<1>4. \A b \in Agents : /\ Held(b)' \subseteq Held(b)
                        /\ ApartIn(pulled[b], taskCh[b], worker[b])'
  BY <1>2, <1>3, OneAgent
<1>5. TypeOK'
  <2>1. taskCh' \in [Agents -> Seq(Claims)]
    <3>1. <<>> \in Seq(Claims)
      OBVIOUS
    <3> QED BY <1>1, <3>1 DEF DInv, TypeOK
  <2>2. \A b \in Agents : Len(taskCh'[b]) <= QueueCap
    BY <1>3, AgentAssumption DEF DInv, TypeOK
  <2>3. /\ pulled' \in [Agents -> Claims \cup {NoClaim}]
        /\ worker' \in [Agents -> [Workers -> Claims \cup {NoClaim}]]
        /\ running' \in [Agents -> [TaskIDs -> Handle]]
    BY <1>1, <1>2 DEF DInv, TypeOK
  <2> QED BY <1>1, <2>1, <2>2, <2>3 DEF DInv, TypeOK, storeVars, monitorVars
<1>6. task' = task /\ n' = n /\ Created' = Created /\ \A d : IDOf(d)' = IDOf(d)
  BY <1>1 DEF storeVars, Created, IDOf
<1>7. Marked'
  <2> SUFFICES ASSUME NEW b \in Agents, NEW id \in TaskIDs, running'[b][id].cancelled
               PROVE  \/ id \in CallerIDs
                      \/ \E e \in Created : task[e].taskID = id /\ task[e].status = "cancelled"
    BY <1>6 DEF Marked
  <2>1. running'[b][id] = running[b][id]
    BY <1>2, <1>3
  <2> QED BY <2>1 DEF DInv, Marked
<1>8. CancelReaches'
  <2> SUFFICES ASSUME NEW b \in Agents, NEW v \in Workers, worker'[b][v] # NoClaim,
                      \A d \in history.reclaimed : d[1] # worker'[b][v][1]
               PROVE  \/ running'[b][IDOf(worker'[b][v])].worker = v
                      \/ IDOf(worker'[b][v]) \in CallerIDs
    <3>1. \A b \in Agents, v \in Workers : IDOf(worker[b][v])' = IDOf(worker'[b][v])
      BY <1>6 DEF IDOf
    <3> QED BY <1>1, <3>1 DEF CancelReaches
  <2>1. b # a
    BY <1>2, <1>3
  <2> QED BY <1>3, <2>1 DEF DInv, CancelReaches
<1> QED BY <1>1, <1>4, <1>5, <1>7, <1>8, AgentKeeps

LEMMA QuietKeeps ==
    ASSUME DInv,
           \/ \E m \in reports : LoseReport(m)
           \/ \E e \in listed : TimeoutPasses(e)
           \/ ScanTimeouts \/ UNCHANGED vars
    PROVE  DInv'
<1>1. /\ UNCHANGED storeVars /\ UNCHANGED <<pulled, taskCh, worker>> /\ UNCHANGED running
      /\ reports' \subseteq reports /\ history' = history
  BY DEF LoseReport, TimeoutPasses, ScanTimeouts, vars, agentVars
<1>2. TypeOK'
  <2>1. overdue \subseteq 1..n /\ listed \subseteq 1..n /\ sweep \subseteq TaskIDs
    BY TypeFacts DEF DInv, TypeOK, Created
  <2>2. OverdueIDs \subseteq TaskIDs
    BY TypeFacts DEF DInv, OverdueIDs
  <2>3. overdue' \subseteq 1..n /\ sweep' \subseteq TaskIDs
    <3>1. CASE \E m \in reports : LoseReport(m)
      BY <2>1, <3>1 DEF LoseReport, monitorVars
    <3>2. CASE \E e \in listed : TimeoutPasses(e)
      BY <2>1, <3>2 DEF TimeoutPasses
    <3>3. CASE ScanTimeouts
      BY <2>1, <2>2, <3>3 DEF ScanTimeouts
    <3>4. CASE UNCHANGED vars
      BY <2>1, <3>4 DEF vars, monitorVars
    <3> QED BY <3>1, <3>2, <3>3, <3>4
  <2> QED BY <1>1, <2>3 DEF DInv, TypeOK, storeVars
<1>3. Marked' /\ CancelReaches'
  BY <1>1, SameHandles
<1>4. \A b \in Agents : /\ Held(b)' \subseteq Held(b)
                        /\ ApartIn(pulled[b], taskCh[b], worker[b])'
  BY <1>1 DEF DInv, Apart, Held
<1> QED BY <1>1, <1>2, <1>3, <1>4, AgentKeeps
-----------------------------------------------------------------------------
(***************************************************************************)
(* The steps of the store.                                                 *)
(***************************************************************************)
LEMMA DeliveryTyped ==
    ASSUME DInv, n' = n, UNCHANGED agentVars, overdue' \subseteq overdue, sweep' \subseteq sweep,
           reports' \subseteq reports,
           history' \in [reclaimed : SUBSET Claims, ran : SUBSET Claims,
                         discarded : SUBSET Claims]
    PROVE  TypeOK'
BY DEF DInv, TypeOK, agentVars

\* Nothing happens to a run but that its task is cancelled.
LEMMA CalmKeeps ==
    ASSUME DInv, SP!TypeOK', UNCHANGED agentVars, n' = n, overdue' = overdue,
           sweep' \subseteq sweep, reports' = reports, history' = history,
           \A e \in Created : Stays(e) \/ Waits(e) \/ Cancels(e)
    PROVE  DInv'
<1>1. history' \in [reclaimed : SUBSET Claims, ran : SUBSET Claims, discarded : SUBSET Claims]
  BY DEF DInv, TypeOK
<1>2. TypeOK'
  BY <1>1, DeliveryTyped
<1>3. \A e \in Created : Stays(e) \/ Leaves(e)
  BY DEF Waits, Cancels
<1>4. \A e \in Created : /\ task[e].status = "running" /\ ~Stays(e) => task'[e].status = "cancelled"
                         /\ ~(task'[e].status = "done" /\ ~Stays(e))
  BY DEF Waits, Cancels
<1> QED BY <1>2, <1>3, <1>4, StoreKeeps

LEMMA ReportKeeps ==
    ASSUME DInv, SP!TypeOK', NEW m \in reports, ReportResult(m)
    PROVE  DInv'
<1>1. PICK c, k, success : c = m.claim[1] /\ k = m.claim[2] /\ success = m.success
  OBVIOUS
<1>2. /\ m.claim = <<c, k>> /\ m.claim \in Claims /\ success \in BOOLEAN
      /\ c \in Created /\ Known(m.claim)
  BY <1>1 DEF DInv, TypeOK, ClaimsKnown, Known, Claims
<1>3. SP!SubmitResult(c, k, success)
  BY <1>1, SameReport DEF ReportResult
<1>4. /\ n' = n /\ UNCHANGED agentVars /\ overdue' = overdue /\ sweep' = sweep
      /\ reports' \subseteq reports /\ history' = history
  BY <1>3 DEF SP!SubmitResult, ReportResult, monitorVars
<1>5. TypeOK'
  <2>1. history' \in [reclaimed : SUBSET Claims, ran : SUBSET Claims, discarded : SUBSET Claims]
    BY <1>4 DEF DInv, TypeOK
  <2> QED BY <1>4, <2>1, DeliveryTyped
<1>6. \A e \in Created : Stays(e) \/ Waits(e) \/ Ends(e, c, k, success)
  BY <1>2, <1>3, ReportEffect DEF DInv
<1>7. \A e \in Created : Stays(e) \/ Leaves(e)
  BY <1>6 DEF Waits, Ends
<1>8. ASSUME NEW e \in Created, Ends(e, c, k, success)
      PROVE  CurrentClaim(e) = m.claim \/ task[e].taskID \in CallerIDs
  <2>1. e = c \/ task[e].taskID \in CallerIDs
    BY <1>2, <1>8 DEF DInv, UniqueIDs, Ends
  <2> QED BY <1>2, <1>8, <2>1 DEF Ends, CurrentClaim
<1>9. ASSUME NEW e \in Created, task[e].status = "running", ~Stays(e)
      PROVE  task[e].taskID \in CallerIDs \/ \A a \in Agents : CurrentClaim(e) \notin Held(a)
  <2>1. Ends(e, c, k, success)
    BY <1>6, <1>9 DEF Waits
  <2> QED BY <1>8, <2>1 DEF DInv, Apart
<1>10. ASSUME NEW e \in Created, task'[e].status = "done", ~Stays(e)
       PROVE  CurrentClaim(e) \in history.ran \/ task[e].taskID \in CallerIDs
  <2>1. Ends(e, c, k, success)
    BY <1>6, <1>10 DEF Waits
  <2>2. m.success
    BY <1>1, <1>10, <2>1 DEF Ends
  <2> QED BY <1>8, <2>1, <2>2 DEF DInv, SentRan
<1> QED BY <1>4, <1>5, <1>7, <1>9, <1>10, StoreKeeps

LEMMA TimeoutCancelKeeps ==
    ASSUME DInv, SP!TypeOK', NEW id \in sweep, CancelOverdue(id)
    PROVE  DInv'
<1>1. /\ UNCHANGED agentVars /\ overdue' = overdue /\ reports' = reports /\ history' = history
      /\ sweep' \subseteq sweep /\ id \in TaskIDs
  BY DEF CancelOverdue, DInv, TypeOK
<1>2. SP!CancelTask(id) \/ UNCHANGED storeVars
  BY SameCancel DEF CancelOverdue
<1>3. n' = n
  BY <1>2 DEF SP!CancelTask, storeVars
<1>4. \A e \in Created : Stays(e) \/ Waits(e) \/ Cancels(e)
  <2>1. CASE SP!CancelTask(id)
    BY <1>1, <2>1, CancelEffect DEF DInv
  <2>2. CASE UNCHANGED storeVars
    BY <2>2 DEF storeVars, Stays, Kept
  <2> QED BY <1>2, <2>1, <2>2
<1> QED BY <1>1, <1>3, <1>4, CalmKeeps

LEMMA ReclaimKeeps ==
    ASSUME DInv, SP!TypeOK', Reclaim
    PROVE  DInv'
<1>1. SP!ReclaimStaleTasks
  BY SameReclaim DEF Reclaim
<1>2. PICK taken : taken = {CurrentClaim(e) : e \in SP!StaleTasks}
  OBVIOUS
<1>3. /\ n' = n /\ UNCHANGED agentVars /\ overdue' = overdue /\ sweep' = sweep
      /\ reports' = reports
      /\ history' = [history EXCEPT !.reclaimed = @ \cup taken]
  BY <1>1, <1>2, SameRecords DEF SP!ReclaimStaleTasks, Reclaim, monitorVars
<1>4. \A e \in SP!StaleTasks : e \in Created /\ task[e].status = "running"
  BY TypeFacts DEF DInv, SP!StaleTasks
<1>5. taken \subseteq Claims
  <2>1. ASSUME NEW e \in SP!StaleTasks PROVE CurrentClaim(e) \in Claims
    <3>1. e \in Created /\ task[e].claimEpoch \in Nat /\ task[e].claimEpoch >= 1
          /\ task[e].claimEpoch <= MaxClaims /\ n \in Nat /\ n <= MaxTasks
      BY <1>4, TypeFacts DEF DInv, EpochsOK
    <3>2. e \in 1..MaxTasks /\ task[e].claimEpoch \in 1..MaxClaims
      BY <3>1, StoreFacts DEF Created
    <3> QED BY <3>2 DEF CurrentClaim, Claims
  <2> QED BY <1>2, <2>1
<1>6. /\ history' \in [reclaimed : SUBSET Claims, ran : SUBSET Claims, discarded : SUBSET Claims]
      /\ history'.ran = history.ran /\ history'.discarded = history.discarded
      /\ history'.reclaimed = history.reclaimed \cup taken
  BY <1>3, <1>5 DEF DInv, TypeOK
<1>7. TypeOK'
  BY <1>3, <1>6, DeliveryTyped
<1>8. \A e \in Created :
         /\ e \in SP!StaleTasks => /\ Leaves(e) /\ task'[e].status # "done"
                                   /\ CurrentClaim(e) \in history'.reclaimed
         /\ e \notin SP!StaleTasks => Stays(e)
  BY <1>1, <1>2, <1>6, ReclaimEffect DEF DInv
<1>9. \A e \in Created : Stays(e) \/ Leaves(e)
  BY <1>8
<1>10. \A e \in Created : /\ task[e].status = "running" /\ ~Stays(e) =>
                                CurrentClaim(e) \in history'.reclaimed
                          /\ ~(task'[e].status = "done" /\ ~Stays(e))
  BY <1>8
<1>11. history.reclaimed \subseteq history'.reclaimed /\ reports' \subseteq reports
  BY <1>3, <1>6
<1> QED BY <1>3, <1>6, <1>7, <1>9, <1>10, <1>11, StoreKeeps

LEMMA CreateKeeps ==
    ASSUME DInv, SP!TypeOK', NEW s \in Specs, SP!CreateTask(s),
           UNCHANGED <<monitorVars, agentVars, reports, history>>
    PROVE  DInv'
<1>1. PICK x : x = n + 1
  OBVIOUS
<1>2. /\ n' = n + 1 /\ Created' = Created \cup {x} /\ x \notin Created
      /\ \A e \in Created : task'[e] = task[e]
      /\ task'[x].taskID \in CallerIDs
         \/ \A e \in Created : task[e].taskID # task'[x].taskID
      /\ task'[x].claimEpoch = 0
      /\ task'[x].status \notin {"running", "done", "cancelled"}
  BY <1>1, CreateEffect DEF DInv
<1>3. /\ pulled' = pulled /\ taskCh' = taskCh /\ worker' = worker /\ running' = running
      /\ overdue' = overdue /\ sweep' = sweep /\ reports' = reports /\ history' = history
  BY DEF agentVars, monitorVars
<1>4. \A c : Known(c) => /\ Known(c)' /\ IDOf(c)' = IDOf(c)
                         /\ CurrentClaim(c[1])' = CurrentClaim(c[1]) /\ c[1] \in Created
                         /\ task'[c[1]] = task[c[1]]
  BY <1>2 DEF Known, IDOf, CurrentClaim
<1>5. \A a : Held(a)' = Held(a)
  BY <1>3 DEF Held
<1>6. TypeOK'
  <2>1. 1..n \subseteq 1..n'
    BY <1>2, TypeFacts DEF DInv
  <2> QED BY <1>3, <2>1 DEF DInv, TypeOK
<1>7. EpochsOK' /\ UniqueIDs'
  <2>1. EpochsOK'
    BY <1>2, StoreFacts DEF DInv, EpochsOK
  <2>2. UniqueIDs'
    BY <1>2 DEF DInv, UniqueIDs
  <2> QED BY <2>1, <2>2
<1>8. ClaimsKnown'
  <2>1. \A a \in Agents : \A c \in Held(a)' : Known(c)' /\ task'[c[1]].agentID = a
    BY <1>4, <1>5 DEF DInv, ClaimsKnown
  <2>2. (\A m \in reports' : Known(m.claim)') /\ \A c \in history'.discarded : Known(c)'
    BY <1>3, <1>4 DEF DInv, ClaimsKnown
  <2> QED BY <2>1, <2>2 DEF ClaimsKnown
<1>9. Apart'
  BY <1>3, <1>5 DEF DInv, Apart
<1>10. Current'
  <2> SUFFICES ASSUME NEW a \in Agents, NEW c \in Held(a)
               PROVE  \/ IDOf(c)' \in CallerIDs
                      \/ c \in history'.reclaimed
                      \/ c = CurrentClaim(c[1])' /\ task'[c[1]].status \in {"running", "cancelled"}
    BY <1>5 DEF Current
  <2>1. Known(c)
    BY DEF DInv, ClaimsKnown
  <2> QED BY <1>3, <1>4, <2>1 DEF DInv, Current
<1>11. SentRan'
  BY <1>3 DEF DInv, SentRan
<1>12. DoneWasRun'
  <2> SUFFICES ASSUME NEW e \in Created', task'[e].status = "done"
               PROVE  CurrentClaim(e)' \in history'.ran \/ task'[e].taskID \in CallerIDs
    BY DEF DoneWasRun, Created
  <2>1. e \in Created /\ task'[e] = task[e]
    BY <1>2
  <2> QED BY <1>3, <2>1 DEF DInv, DoneWasRun, Created, CurrentClaim
<1>13. DroppedWasCancelled'
  <2> SUFFICES ASSUME NEW c \in history.discarded
               PROVE  task'[c[1]].status = "cancelled" \/ IDOf(c)' \in CallerIDs
    BY <1>3 DEF DroppedWasCancelled
  <2>1. Known(c)
    BY DEF DInv, ClaimsKnown
  <2> QED BY <1>4, <2>1 DEF DInv, DroppedWasCancelled
<1>14. Marked'
  BY <1>2, <1>3 DEF DInv, Marked
<1>15. CancelReaches'
  <2> SUFFICES ASSUME NEW a \in Agents, NEW w \in Workers, worker[a][w] # NoClaim,
                      \A d \in history.reclaimed : d[1] # worker[a][w][1]
               PROVE  \/ running[a][IDOf(worker[a][w])'].worker = w
                      \/ IDOf(worker[a][w])' \in CallerIDs
    BY <1>3 DEF CancelReaches, IDOf
  <2>1. worker[a][w] \in Held(a)
    BY DEF Held
  <2>2. Known(worker[a][w])
    BY <2>1 DEF DInv, ClaimsKnown
  <2>3. IDOf(worker[a][w])' = IDOf(worker[a][w])
    BY <1>2, <1>3, <2>2 DEF IDOf, Known
  <2>4. \/ running[a][IDOf(worker[a][w])].worker = w \/ IDOf(worker[a][w]) \in CallerIDs
    BY DEF DInv, CancelReaches
  <2> QED BY <2>3, <2>4
<1> QED BY <1>6, <1>7, <1>8, <1>9, <1>10, <1>11, <1>12, <1>13, <1>14, <1>15 DEF DInv

LEMMA PullKeeps ==
    ASSUME DInv, SP!TypeOK', NEW a \in Agents, PullTasks(a)
    PROVE  DInv'
<1>1. PICK e \in listed :
        /\ e \in Created /\ task[e].agentID = a /\ task[e].status = "pending"
        /\ task[e].claimEpoch < MaxClaims
        /\ task'[e].taskID = task[e].taskID /\ task'[e].agentID = a
        /\ task'[e].claimEpoch = task[e].claimEpoch + 1 /\ task'[e].status = "running"
        /\ \A f \in Created : f # e => task'[f] = task[f]
        /\ UNCHANGED <<n, listed>>
  BY SameClaim, ClaimEffect DEF PullTasks, DInv
<1>2. PICK c : c = <<e, task[e].claimEpoch + 1>>
  OBVIOUS
<1>3. /\ overdue' \subseteq overdue
      /\ pulled' = pulled \/ (pulled[a] = NoClaim /\ pulled' = [pulled EXCEPT ![a] = c])
      /\ UNCHANGED <<sweep, taskCh, worker, running, reports, history>>
  <2>1. PICK f \in listed : /\ task'[f] # task[f] /\ overdue' = overdue \ {f}
                            /\ \/ UNCHANGED pulled
                               \/ /\ pulled[a] = NoClaim
                                  /\ pulled' = [pulled EXCEPT ![a] = <<f, task'[f].claimEpoch>>]
    BY DEF PullTasks
  <2>2. f = e
    BY <1>1, <2>1, TypeFacts DEF DInv
  <2>3. <<f, task'[f].claimEpoch>> = c
    BY <1>1, <1>2, <2>2
  <2> QED BY <2>1, <2>3 DEF PullTasks
<1>4. /\ Created' = Created /\ n' = n /\ task[e].claimEpoch \in Nat /\ n \in Nat /\ n <= MaxTasks
      /\ \A f \in Created : task[f].claimEpoch \in Nat
  BY <1>1, TypeFacts DEF DInv, Created
<1>5. c \in Claims /\ c[1] = e /\ c[2] = task[e].claimEpoch + 1
  <2>1. e \in 1..MaxTasks /\ task[e].claimEpoch + 1 \in 1..MaxClaims
    BY <1>1, <1>4, StoreFacts DEF Created
  <2> QED BY <1>2, <2>1 DEF Claims
<1>6. ~Known(c) /\ Known(c)' /\ CurrentClaim(e)' = c
  BY <1>1, <1>2, <1>4, <1>5 DEF Known, CurrentClaim
<1>7. \A d : Known(d) => /\ d[1] \in Created /\ Known(d)' /\ IDOf(d)' = IDOf(d)
                         /\ task'[d[1]].agentID = task[d[1]].agentID
  <2> SUFFICES ASSUME NEW d, Known(d)
               PROVE  /\ d[1] \in Created /\ Known(d)' /\ IDOf(d)' = IDOf(d)
                      /\ task'[d[1]].agentID = task[d[1]].agentID
    OBVIOUS
  <2>1. d[1] \in Created /\ d[2] \in 1..task[d[1]].claimEpoch
    BY DEF Known
  <2>2. CASE d[1] = e
    <3>1. d[2] \in 1..(task[e].claimEpoch + 1)
      BY <1>4, <2>1, <2>2
    <3> QED BY <1>1, <1>4, <2>1, <2>2, <3>1 DEF Known, IDOf
  <2>3. CASE d[1] # e
    BY <1>1, <1>4, <2>1, <2>3 DEF Known, IDOf
  <2> QED BY <2>2, <2>3
<1>8. c \notin Held(a) /\ \A m \in reports : m.claim # c
  BY <1>6 DEF DInv, ClaimsKnown
<1>9. pulled' \in [Agents -> Claims \cup {NoClaim}]
      /\ (\A b \in Agents \ {a} : pulled'[b] = pulled[b]) /\ pulled'[a] \in {pulled[a], c}
  BY <1>3, <1>5 DEF DInv, TypeOK
<1>10. \A b \in Agents : /\ Held(b)' \subseteq Held(b) \cup {c} /\ (c \in Held(b)' => b = a)
                         /\ ApartIn(pulled'[b], taskCh'[b], worker'[b])
  <2> SUFFICES ASSUME NEW b \in Agents
               PROVE  /\ Held(b)' \subseteq Held(b) \cup {c} /\ (c \in Held(b)' => b = a)
                      /\ ApartIn(pulled'[b], taskCh'[b], worker'[b])
    OBVIOUS
  <2>1. Held(b)' = HeldIn(pulled'[b], taskCh'[b], worker'[b])
    BY DEF Held, HeldIn
  <2>2. taskCh'[b] = taskCh[b] /\ worker'[b] = worker[b]
    BY <1>3
  <2>3. ApartIn(pulled[b], taskCh[b], worker[b]) /\ Held(b) = HeldIn(pulled[b], taskCh[b], worker[b])
    BY HeldHands DEF DInv, Apart
  <2>4. CASE pulled'[b] = pulled[b]
    <3>1. Held(b)' = Held(b)
      BY <2>1, <2>2, <2>3, <2>4
    <3>2. c \notin Held(b)
      BY <1>6 DEF DInv, ClaimsKnown
    <3> QED BY <2>2, <2>3, <2>4, <3>1, <3>2
  <2>5. CASE pulled'[b] # pulled[b]
    <3>1. b = a /\ pulled'[b] = c /\ pulled[a] = NoClaim
      BY <1>3, <1>9, <2>5
    <3>2. PICK q, wk : q = taskCh[a] /\ wk = worker[a]
      OBVIOUS
    <3>3. q \in Seq(Claims) /\ wk \in Hands /\ ApartIn(NoClaim, q, wk)
          /\ c \notin HeldIn(NoClaim, q, wk) /\ Held(a) = HeldIn(NoClaim, q, wk)
      BY <1>3, <1>8, <2>3, <3>1, <3>2, HandTypes DEF DInv
    <3>4. ApartIn(c, q, wk) /\ HeldIn(c, q, wk) = HeldIn(NoClaim, q, wk) \cup {c}
      BY <1>5, <3>3, PullHands, Zenon
    <3> QED BY <2>1, <2>2, <3>1, <3>2, <3>3, <3>4
  <2> QED BY <2>4, <2>5
<1>11. TypeOK'
  BY <1>3, <1>4, <1>9 DEF DInv, TypeOK
<1>12. EpochsOK' /\ UniqueIDs'
  <2>1. EpochsOK'
    <3>1. task[e].claimEpoch + 1 <= MaxClaims /\ task[e].claimEpoch + 1 >= 1
      BY <1>1, <1>4, StoreFacts
    <3> QED BY <1>1, <1>4, <3>1 DEF DInv, EpochsOK
  <2>2. \A f \in Created : task'[f].taskID = task[f].taskID
    BY <1>1
  <2>3. UniqueIDs'
    BY <1>4, <2>2 DEF DInv, UniqueIDs
  <2> QED BY <2>1, <2>3
<1>13. ClaimsKnown'
  <2>1. ASSUME NEW b \in Agents, NEW d \in Held(b)' PROVE Known(d)' /\ task'[d[1]].agentID = b
    <3>1. CASE d = c
      BY <1>1, <1>5, <1>6, <1>10, <2>1, <3>1
    <3>2. CASE d \in Held(b)
      BY <1>7, <3>2 DEF DInv, ClaimsKnown
    <3> QED BY <1>10, <2>1, <3>1, <3>2
  <2>2. (\A m \in reports' : Known(m.claim)') /\ \A d \in history'.discarded : Known(d)'
    BY <1>3, <1>7 DEF DInv, ClaimsKnown
  <2> QED BY <2>1, <2>2 DEF ClaimsKnown
<1>14. Apart'
  <2>1. \A b \in Agents : \A m \in reports' : m.claim \notin Held(b)'
    BY <1>3, <1>8, <1>10 DEF DInv, Apart
  <2>2. \A b \in Agents : ApartIn(pulled[b], taskCh[b], worker[b])'
    BY <1>10 DEF ApartIn
  <2> QED BY <2>1, <2>2 DEF Apart
<1>15. Current'
  <2> SUFFICES ASSUME NEW b \in Agents, NEW d \in Held(b)'
               PROVE  \/ IDOf(d)' \in CallerIDs
                      \/ d \in history'.reclaimed
                      \/ d = CurrentClaim(d[1])' /\ task'[d[1]].status \in {"running", "cancelled"}
    BY DEF Current
  <2>1. CASE d = c
    BY <1>1, <1>5, <1>6, <2>1
  <2>2. CASE d \in Held(b)
    <3>1. Known(d) /\ d[1] \in Created /\ IDOf(d)' = IDOf(d)
      BY <1>7, <2>2 DEF DInv, ClaimsKnown
    <3>2. d[1] # e => task'[d[1]] = task[d[1]] /\ CurrentClaim(d[1])' = CurrentClaim(d[1])
      BY <1>1, <3>1 DEF CurrentClaim
    <3>3. \/ IDOf(d) \in CallerIDs \/ d \in history.reclaimed
          \/ d = CurrentClaim(d[1]) /\ task[d[1]].status \in {"running", "cancelled"}
      BY <2>2 DEF DInv, Current
    <3> QED BY <1>1, <1>3, <3>1, <3>2, <3>3
  <2> QED BY <1>10, <2>1, <2>2
<1>16. SentRan'
  BY <1>3 DEF DInv, SentRan
<1>17. DoneWasRun'
  <2> SUFFICES ASSUME NEW f \in Created, task'[f].status = "done"
               PROVE  CurrentClaim(f)' \in history'.ran \/ task'[f].taskID \in CallerIDs
    BY <1>4 DEF DoneWasRun, Created
  <2>1. task'[f] = task[f] /\ CurrentClaim(f)' = CurrentClaim(f)
    BY <1>1 DEF CurrentClaim
  <2> QED BY <1>3, <2>1 DEF DInv, DoneWasRun, Created
<1>18. \A f \in Created : task[f].status = "cancelled" => task'[f] = task[f]
  BY <1>1
<1>19. DroppedWasCancelled'
  <2> SUFFICES ASSUME NEW d \in history.discarded
               PROVE  task'[d[1]].status = "cancelled" \/ IDOf(d)' \in CallerIDs
    BY <1>3 DEF DroppedWasCancelled
  <2>1. Known(d)
    BY DEF DInv, ClaimsKnown
  <2> QED BY <1>7, <1>18, <2>1 DEF DInv, DroppedWasCancelled
<1>20. Marked'
  BY <1>3, <1>4, <1>18 DEF DInv, Marked
<1>21. CancelReaches'
  <2> SUFFICES ASSUME NEW b \in Agents, NEW w \in Workers, worker[b][w] # NoClaim,
                      \A d \in history.reclaimed : d[1] # worker[b][w][1]
               PROVE  \/ running[b][IDOf(worker[b][w])'].worker = w
                      \/ IDOf(worker[b][w])' \in CallerIDs
    BY <1>3 DEF CancelReaches, IDOf
  <2>1. worker[b][w] \in Held(b)
    BY DEF Held
  <2>2. Known(worker[b][w])
    BY <2>1 DEF DInv, ClaimsKnown
  <2>3. IDOf(worker[b][w])' = IDOf(worker[b][w])
    <3>1. worker[b][w][1] \in Created
      BY <2>2 DEF Known
    <3> QED BY <1>1, <1>3, <3>1 DEF IDOf
  <2>4. \/ running[b][IDOf(worker[b][w])].worker = w \/ IDOf(worker[b][w]) \in CallerIDs
    BY DEF DInv, CancelReaches
  <2> QED BY <2>3, <2>4
<1> QED BY <1>11, <1>12, <1>13, <1>14, <1>15, <1>16, <1>17, <1>19, <1>20, <1>21 DEF DInv

LEMMA AloneKeeps ==
    ASSUME DInv, SP!TypeOK', StoreAlone
    PROVE  DInv'
<1>1. UNCHANGED <<monitorVars, agentVars, reports, history>>
  BY DEF StoreAlone
<1>2. CASE \E s \in Specs : Store!CreateTask(s)
  BY <1>1, <1>2, SameCreate, CreateKeeps
<1>3. CASE \/ \E a \in Agents : Store!Heartbeat(a) \/ Store!HeartbeatLapses(a)
           \/ \E e \in listed : Store!LeaseExpires(e)
  <2>1. \/ \E a \in Agents : SP!Heartbeat(a) \/ SP!HeartbeatLapses(a)
        \/ \E e \in listed : SP!LeaseExpires(e)
    BY <1>3, SameTimes
  <2>2. n' = n
    BY <2>1 DEF SP!Heartbeat, SP!HeartbeatLapses, SP!LeaseExpires
  <2>3. \A e \in Created : Stays(e)
    BY <2>1, TimesEffect DEF DInv
  <2> QED BY <1>1, <2>2, <2>3, CalmKeeps DEF monitorVars
<1>4. CASE \E id \in TaskIDs : Store!CancelTask(id) \/ Store!RetryDeadLetterTask(id)
  <2>1. PICK id \in TaskIDs : SP!CancelTask(id) \/ SP!RetryDeadLetterTask(id)
    BY <1>4, SameCancel, SameRequeue
  <2>2. n' = n
    BY <2>1 DEF SP!CancelTask, SP!RetryDeadLetterTask
  <2>3. \A e \in Created : Stays(e) \/ Waits(e) \/ Cancels(e)
    BY <2>1, CancelEffect, RequeueEffect DEF DInv
  <2> QED BY <1>1, <2>2, <2>3, CalmKeeps DEF monitorVars
<1> QED BY <1>2, <1>3, <1>4 DEF StoreAlone
-----------------------------------------------------------------------------
LEMMA DInvInit == Init => DInv
<1> SUFFICES ASSUME Init PROVE DInv
  OBVIOUS
<1>1. SP!Init /\ Store!Init
  BY SameInit DEF Init
<1>2. SP!TypeOK
  BY <1>1, StoreFacts, SP!InitType
<1>3. n = 0 /\ Created = {}
  BY <1>1 DEF SP!Init, Created
<1>4. \A a \in Agents : /\ pulled[a] = NoClaim /\ taskCh[a] = <<>>
                        /\ worker[a] = [w \in Workers |-> NoClaim]
                        /\ running[a] = [id \in TaskIDs |-> NoHandle]
  BY DEF Init
<1>5. \A a \in Agents : Held(a) = {} /\ ApartIn(pulled[a], taskCh[a], worker[a])
  BY <1>4, NoHands, HeldHands
<1>6. TypeOK
  <2>1. <<>> \in Seq(Claims) /\ Len(<<>>) <= QueueCap
    BY AgentAssumption
  <2>2. NoHandle \in Handle
    BY DEF NoHandle, Handle
  <2> QED BY <2>1, <2>2 DEF Init, TypeOK
<1>7. reports = {} /\ history.discarded = {}
  BY DEF Init
<1>8. Marked /\ CancelReaches
  <2>1. \A a \in Agents, id \in TaskIDs : ~running[a][id].cancelled
    BY <1>4 DEF NoHandle
  <2>2. \A a \in Agents, w \in Workers : worker[a][w] = NoClaim
    BY <1>4
  <2> QED BY <2>1, <2>2 DEF Marked, CancelReaches
<1> QED BY <1>2, <1>3, <1>5, <1>6, <1>7, <1>8
        DEF DInv, EpochsOK, UniqueIDs, ClaimsKnown, Apart, Current, SentRan, DoneWasRun,
            DroppedWasCancelled, Created

LEMMA DInvStep == DInv /\ [Next]_vars => DInv'
<1> SUFFICES ASSUME DInv, [Next]_vars PROVE DInv'
  OBVIOUS
<1>1. SP!TypeOK'
  BY StoreTyped
<1>2. ASSUME NEW a \in Agents,
             \/ PullTasks(a) \/ drainTasks(a) \/ RefuseWork(a) \/ cancelLoop(a) \/ Restart(a)
      PROVE  DInv'
  BY <1>1, <1>2, PullKeeps, DrainKeeps, RefuseKeeps, CancelLoopKeeps, RestartKeeps
<1>3. ASSUME NEW a \in Agents, NEW w \in Workers,
             \/ StartWork(a, w) \/ WorkerPanics(a, w)
             \/ \E success \in BOOLEAN : EndWork(a, w, success)
      PROVE  DInv'
  BY <1>3, StartKeeps, PanicKeeps, EndKeeps
<1>4. ASSUME \/ \E m \in reports : LoseReport(m)
             \/ \E e \in listed : TimeoutPasses(e)
             \/ ScanTimeouts \/ UNCHANGED vars
      PROVE  DInv'
  BY <1>4, QuietKeeps
<1>5. ASSUME NEW m \in reports, ReportResult(m) PROVE DInv'
  BY <1>1, <1>5, ReportKeeps
<1>6. ASSUME NEW id \in sweep, CancelOverdue(id) PROVE DInv'
  BY <1>1, <1>6, TimeoutCancelKeeps
<1>7. ASSUME Reclaim \/ StoreAlone PROVE DInv'
  BY <1>1, <1>7, ReclaimKeeps, AloneKeeps
<1> QED BY <1>2, <1>3, <1>4, <1>5, <1>6, <1>7, Zenon DEF Next

LEMMA DInvAlways == Spec => []DInv
BY DInvInit, DInvStep, PTL DEF Spec
-----------------------------------------------------------------------------
(***************************************************************************)
(* The theorems.                                                           *)
(***************************************************************************)
\* Every step of agents, network, monitor and callers keeps the types; in
\* particular no channel grows past its capacity (drainTasks).
THEOREM TypeCorrect == Spec => []TypeOK
<1>1. DInv => TypeOK
  BY DEF DInv
<1> QED BY <1>1, DInvAlways, PTL

\* However many agents and workers there are, and whatever is lost, repeated,
\* restarted or reclaimed: what an agent holds is the claim its task is running
\* by, or a claim that was reclaimed or cancelled, and each claim is in one
\* place (ClaimTask's ClaimEpoch).
THEOREM NoDoubleRun == Spec => []HeldIsCurrent
<1>1. DInv => HeldIsCurrent
  <2> SUFFICES ASSUME DInv, NEW a \in Agents
               PROVE  /\ \A c \in Held(a) :
                            \/ IDOf(c) \in CallerIDs
                            \/ c = CurrentClaim(c[1]) /\ task[c[1]].status = "running"
                            \/ c \in history.reclaimed
                            \/ task[c[1]].status = "cancelled"
                      /\ \A v, w \in Workers :
                            worker[a][v] = worker[a][w] => v = w \/ worker[a][v] = NoClaim
    BY DEF HeldIsCurrent
  <2>1. \A c \in Held(a) : \/ IDOf(c) \in CallerIDs
                           \/ c \in history.reclaimed
                           \/ c = CurrentClaim(c[1])
                              /\ task[c[1]].status \in {"running", "cancelled"}
    BY DEF DInv, Current
  <2>2. \A v, w \in Workers : worker[a][v] = worker[a][w] => v = w \/ worker[a][v] = NoClaim
    BY DEF DInv, Apart, ApartIn
  <2> QED BY <2>1, <2>2
<1> QED BY <1>1, DInvAlways, PTL

\* A task is done only if a worker ran its current claim to a good end: no
\* lost, repeated, late or refused report completes it (SubmitResult).
THEOREM DoneMeansRun == Spec => []DoneWasRun
<1>1. DInv => DoneWasRun
  BY DEF DInv
<1> QED BY <1>1, DInvAlways, PTL

\* The agent throws a result away only if the control plane has cancelled the
\* task (delRunning, PollCancels).
THEOREM DropsOnlyCancelled == Spec => []DroppedWasCancelled
<1>1. DInv => DroppedWasCancelled
  BY DEF DInv
<1> QED BY <1>1, DInvAlways, PTL

\* The handle a cancel signal looks up in a.running is that of the worker that
\* executes the task, as long as no claim of the task was reclaimed.
THEOREM CancelArrives == Spec => []CancelReaches
<1>1. DInv => CancelReaches
  BY DEF DInv
<1> QED BY <1>1, DInvAlways, PTL

\* The store behind the gRPC handlers takes steps of MemoryTaskStore only: the
\* agents report nothing they did not claim.  All that is proved of
\* MemoryTaskStore therefore holds of the composed system too.
THEOREM StoreKept == Spec => SP!Spec
<1>1. Init => SP!Init
  BY SameInit DEF Init
<1>2. DInv /\ [Next]_vars => [SP!Next]_SP!vars
  BY StoreStep
<1> QED BY <1>1, <1>2, DInvAlways, PTL DEF Spec, SP!Spec

\* So, with agents and network in the picture: a task is started at most
\* MaxRetries + 1 times between two requeues by hand, is done by the report of
\* its holder, and is a visible dead letter when it has failed.
THEOREM StorePromises ==
    Spec => [](SP!RunsBounded /\ SP!DoneByHolder /\ SP!DeadLetterVisible)
<1>1. SP!Spec => []SP!RunsBounded
  BY StoreFacts, SP!BoundedRuns
<1>2. SP!Spec => []SP!DoneByHolder
  BY StoreFacts, SP!HolderFinishes
<1>3. SP!Spec => []SP!DeadLetterVisible
  BY StoreFacts, SP!FailuresVisible
<1> QED BY <1>1, <1>2, <1>3, StoreKept, PTL
=============================================================================
