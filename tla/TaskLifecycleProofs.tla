------------------------ MODULE TaskLifecycleProofs ------------------------
(***************************************************************************)
(* The invariant of one task under the moves of TaskLifecycle.             *)
(***************************************************************************)
EXTENDS TaskLifecycle, TLAPS

\* A task as CreateTask leaves it is in order.
LEMMA FreshOK ==
    ASSUME NEW r \in Life, Fresh(r)
    PROVE  LifeOK(r)
BY DEF Life, Fresh, LifeOK, Accounted, Gated, Statuses

\* Every move keeps a task in order.
LEMMA MoveOK ==
    ASSUME NEW r \in Life, NEW s \in Life, LifeOK(r), Move(r, s)
    PROVE  LifeOK(s)
<1> USE DEF LifeOK, Accounted, Gated, Life, Statuses, Move, SameTerms, SameGate, SameRuns,
            SameDead
<1>1. CASE Start(r, s) BY <1>1 DEF Start
<1>2. CASE Finish(r, s) BY <1>2 DEF Finish
<1>3. CASE Retry(r, s) BY <1>3 DEF Retry
<1>4. CASE GiveUp(r, s) BY <1>4 DEF GiveUp
<1>5. CASE Cancel(r, s) BY <1>5 DEF Cancel
<1>6. CASE Approve(r, s) BY <1>6 DEF Approve
<1>7. CASE Reject(r, s) BY <1>7 DEF Reject
<1>8. CASE Release(r, s) BY <1>8 DEF Release
<1>9. CASE FailUpstream(r, s) BY <1>9 DEF FailUpstream
<1>10. CASE Requeue(r, s) BY <1>10 DEF Requeue
<1> QED BY <1>1, <1>2, <1>3, <1>4, <1>5, <1>6, <1>7, <1>8, <1>9, <1>10

\* In every store that keeps the promise, every task is in order all the time.
THEOREM LifecycleSafe == Spec => []AllOK
<1>1. Init => AllOK
  BY DEF Init, AllOK
<1>2. AllOK /\ [Next]_<<count, life>> => AllOK'
  <2> SUFFICES ASSUME AllOK, [Next]_<<count, life>> PROVE AllOK'
    OBVIOUS
  <2>1. CASE Create
    <3>1. count' \in Nat /\ life' \in [1..count' -> Life] /\ count' = count + 1
      BY <2>1 DEF Create, AllOK
    <3>2. LifeOK(life'[count + 1])
      BY <2>1, <3>1, FreshOK DEF Create, AllOK
    <3>3. ASSUME NEW i \in 1..count' PROVE LifeOK(life'[i])
      BY <2>1, <3>1, <3>2 DEF Create, AllOK
    <3> QED BY <3>1, <3>3 DEF AllOK
  <2>2. CASE Change
    <3>1. count' \in Nat /\ life' \in [1..count' -> Life] /\ count' = count
      BY <2>2 DEF Change, AllOK
    <3>2. ASSUME NEW i \in 1..count PROVE LifeOK(life'[i])
      <4>1. life[i] \in Life /\ life'[i] \in Life /\ LifeOK(life[i])
        BY <2>2 DEF Change, AllOK
      <4>2. life'[i] = life[i] \/ Move(life[i], life'[i])
        BY <2>2 DEF Change
      <4> QED BY <4>1, <4>2, MoveOK
    <3> QED BY <3>1, <3>2 DEF AllOK
  <2>3. CASE UNCHANGED <<count, life>>
    BY <2>3 DEF AllOK
  <2> QED BY <2>1, <2>2, <2>3 DEF Next
<1> QED BY <1>1, <1>2, PTL DEF Spec
=============================================================================
