------------------------- MODULE LeaderLeaseProofs -------------------------
(***************************************************************************)
(* Proofs about LeaderLease, for any number of replicas, any term, any     *)
(* clock offsets and any time.                                             *)
(***************************************************************************)
EXTENDS LeaderLease, TLAPS

\* The steps replica i may take.
Act(i) ==
    \/ RenewLeadership(i) \/ UpsertLease(i) \/ SelectLease(i) \/ SetLeader(i)
    \/ RenewFails(i)
    \/ scheduleLoop(i) \/ checkLeaderFence(i) \/ StepDown(i)
    \/ FireDueSchedules(i) \/ FireUnrecorded(i) \/ JobFails(i)

\* The minute of a time, and the time it starts, are natural numbers, and no
\* minute starts after a time within it (time.Truncate).
LEMMA MinuteFacts ==
    ASSUME NEW t \in Nat
    PROVE  Minute(t) \in Nat /\ MinuteStart(t) \in Nat /\ MinuteStart(t) <= t
  BY TimeAssumption, SMT DEF Minute, MinuteStart

\* Every step keeps every variable within its type.
LEMMA NextType == TypeOK /\ [Next]_vars => TypeOK'
  <1> SUFFICES ASSUME TypeOK, [Next]_vars PROVE TypeOK'
    OBVIOUS
  <1> USE TimeAssumption
  <1>1. ASSUME NEW i \in Instances PROVE Now(i) \in Nat
    BY DEF Now, TypeOK
  <1>2. CASE UNCHANGED vars
    BY <1>2 DEF vars, TypeOK
  <1>3. CASE Tick
    BY <1>3 DEF Tick, leaseVars, jobVars, TypeOK
  <1>4. ASSUME NEW i \in Instances, Act(i) PROVE TypeOK'
    <2>1. CASE RenewLeadership(i)
      BY <2>1, <1>1 DEF RenewLeadership, jobVars, TypeOK, RenewRecord
    <2>2. CASE UpsertLease(i)
      BY <2>2 DEF UpsertLease, jobVars, TypeOK, RenewRecord
    <2>3. CASE SelectLease(i)
      BY <2>3 DEF SelectLease, jobVars, TypeOK, RenewRecord
    <2>4. CASE SetLeader(i)
      BY <2>4 DEF SetLeader, jobVars, TypeOK, RenewRecord, Resting
    <2>5. CASE RenewFails(i)
      BY <2>5 DEF RenewFails, jobVars, TypeOK, RenewRecord
    <2>6. CASE scheduleLoop(i)
      BY <2>6, <1>1 DEF scheduleLoop, leaseVars, TypeOK, JobRecord
    <2>7. CASE checkLeaderFence(i)
      BY <2>7 DEF checkLeaderFence, leaseVars, TypeOK, JobRecord
    <2>8. CASE StepDown(i)
      BY <2>8 DEF StepDown, TypeOK, JobRecord, NoJob
    <2>9. CASE FireDueSchedules(i)
      <3>1. job[i].now \in Nat /\ Minute(job[i].now) \in Nat
        BY MinuteFacts DEF TypeOK, JobRecord
      <3>2. lastFired' \in Nat \cup {Never} /\ fired' \subseteq Nat /\ refired' \subseteq fired'
        BY <2>9, <3>1 DEF FireDueSchedules, Derive, TypeOK
      <3> QED
        BY <2>9, <3>2 DEF FireDueSchedules, leaseVars, TypeOK, JobRecord, NoJob
    <2>10. CASE FireUnrecorded(i)
      <3>1. job[i].now \in Nat /\ Minute(job[i].now) \in Nat
        BY MinuteFacts DEF TypeOK, JobRecord
      <3>2. fired' \subseteq Nat /\ refired' \subseteq fired'
        BY <2>10, <3>1 DEF FireUnrecorded, Derive, TypeOK
      <3> QED
        BY <2>10, <3>2 DEF FireUnrecorded, leaseVars, TypeOK, JobRecord, NoJob
    <2>11. CASE JobFails(i)
      BY <2>11 DEF JobFails, leaseVars, TypeOK, JobRecord, NoJob
    <2> QED
      BY <1>4, <2>1, <2>2, <2>3, <2>4, <2>5, <2>6, <2>7, <2>8, <2>9, <2>10, <2>11 DEF Act
  <1> QED
    BY <1>2, <1>3, <1>4 DEF Next, Act

\* Type correctness.
THEOREM TypeCorrect == Spec => []TypeOK
  <1>1. Init => TypeOK
    BY TimeAssumption DEF Init, TypeOK, RenewRecord, JobRecord, Resting, NoJob
  <1> QED
    BY <1>1, NextType, PTL DEF Spec
-----------------------------------------------------------------------------
(***************************************************************************)
(* At most one leader.                                                     *)
(***************************************************************************)
SameClocks == \A i, j \in Instances : Skew[i] = Skew[j]

\* While u lies in the future of replica i, i holds the lease until u at least.
Covers(i, u) == u > Now(i) => holder = i /\ expires >= u

\* What replica i believes, and what it has read and not yet believes, is
\* covered by the lease; and no term it knows of lies beyond the term its latest
\* RenewLeadership asks for, so that its own renewal never shortens a term.
LeaseOK(i) ==
    /\ renew[i].now <= Now(i)
    /\ isLeader[i] => /\ Covers(i, leaseUntil[i])
                      /\ leaseUntil[i] <= renew[i].now + TTL
    /\ renew[i].pc = "set" /\ renew[i].seenHolder = i =>
          /\ Covers(i, renew[i].seenExpires)
          /\ renew[i].seenExpires <= renew[i].now + TTL
    /\ holder = i => expires <= renew[i].now + TTL

LInv == TypeOK /\ \A i \in Instances : LeaseOK(i)

\* Every step keeps the beliefs of every replica covered.
LEMMA LInvStep == SameClocks /\ LInv /\ [Next]_vars => LInv'
  <1> SUFFICES ASSUME SameClocks, LInv, [Next]_vars, NEW k \in Instances
               PROVE  LeaseOK(k)'
    BY NextType DEF LInv
  <1> USE TimeAssumption, InstancesAssumption
  <1>0. TypeOK /\ TypeOK' /\ LeaseOK(k)
    BY NextType DEF LInv
  <1>1. clock \in Nat /\ Skew[k] \in Nat /\ renew[k].now \in Nat /\ TTL \in Nat
        /\ leaseUntil[k] \in Nat /\ expires \in Nat /\ renew[k].seenExpires \in Nat
    BY <1>0 DEF TypeOK, RenewRecord
  <1>2. CASE UNCHANGED vars
    BY <1>2, <1>0 DEF vars, LeaseOK, Covers, Now
  <1>3. CASE Tick
    BY <1>3, <1>0, <1>1 DEF Tick, leaseVars, LeaseOK, Covers, Now
  <1>4. ASSUME NEW i \in Instances, Act(i) PROVE LeaseOK(k)'
    <2>0. LeaseOK(i) /\ Skew[i] = Skew[k] /\ renew[i].now \in Nat
      BY <1>0 DEF LInv, SameClocks, TypeOK, RenewRecord
    <2>1. CASE RenewLeadership(i)
      BY <2>1, <1>0, <1>1 DEF RenewLeadership, LeaseOK, Covers, Now, TypeOK, RenewRecord
    <2>2. CASE UpsertLease(i)
      <3>1. CASE ~MayTake(i)
        BY <2>2, <3>1, <1>0, <1>1 DEF UpsertLease, LeaseOK, Covers, Now, TypeOK, RenewRecord
      <3>2. CASE MayTake(i) /\ i = k
        BY <2>2, <3>2, <1>0, <1>1 DEF UpsertLease, LeaseOK, Covers, Now, TypeOK, RenewRecord
      <3>3. CASE MayTake(i) /\ i # k
        <4>1. holder # k \/ expires < Now(k)
          BY <3>3, <2>0, <1>1 DEF MayTake, LeaseOK, Now
        <4>2. \A u \in Nat : Covers(k, u) => u <= Now(k)
          BY <4>1, <1>1 DEF Covers, Now
        <4>3. renew'[k] = renew[k] /\ Now(k)' = Now(k) /\ holder' # k
              /\ isLeader' = isLeader /\ leaseUntil' = leaseUntil
          BY <2>2, <3>3, <1>0 DEF UpsertLease, TypeOK, Now
        <4>4. \A u \in Nat : u <= Now(k) => Covers(k, u)'
          BY <4>3, <1>1 DEF Covers, Now
        <4> QED
          BY <4>2, <4>3, <4>4, <1>0, <1>1 DEF LeaseOK
      <3> QED
        BY <3>1, <3>2, <3>3
    <2>3. CASE SelectLease(i)
      BY <2>3, <1>0, <1>1 DEF SelectLease, LeaseOK, Covers, Now, TypeOK, RenewRecord
    <2>4. CASE SetLeader(i)
      BY <2>4, <1>0, <1>1 DEF SetLeader, LeaseOK, Covers, Now, TypeOK, RenewRecord, Resting
    <2>5. CASE RenewFails(i)
      BY <2>5, <1>0, <1>1 DEF RenewFails, LeaseOK, Covers, Now, TypeOK, RenewRecord
    <2>6. CASE StepDown(i)
      BY <2>6, <1>0, <1>1 DEF StepDown, LeaseOK, Covers, Now, TypeOK
    <2>7. CASE scheduleLoop(i) \/ checkLeaderFence(i) \/ FireDueSchedules(i)
               \/ FireUnrecorded(i) \/ JobFails(i)
      BY <2>7, <1>0 DEF scheduleLoop, checkLeaderFence, FireDueSchedules, FireUnrecorded,
                        JobFails, leaseVars, LeaseOK, Covers, Now
    <2> QED
      BY <1>4, <2>1, <2>2, <2>3, <2>4, <2>5, <2>6, <2>7 DEF Act
  <1> QED
    BY <1>2, <1>3, <1>4 DEF Next, Act

\* With clocks that agree there is never more than one leader.
THEOREM LeaderUnique == Spec => []OneLeader
  <1>1. CASE SameClocks
    <2>1. Init => LInv
      BY TimeAssumption, InstancesAssumption
      DEF Init, LInv, LeaseOK, Covers, Now, TypeOK, RenewRecord, JobRecord, Resting, NoJob
    <2>2. LInv /\ [Next]_vars => LInv'
      BY <1>1, LInvStep
    <2>3. LInv => OneLeader
      BY DEF LInv, LeaseOK, Covers, OneLeader, IsLeader
    <2> QED
      BY <2>1, <2>2, <2>3, PTL DEF Spec
  <1>2. CASE ~SameClocks
    <2>1. OneLeader
      BY <1>2 DEF SameClocks, OneLeader
    <2> QED
      BY <2>1, PTL
  <1> QED
    BY <1>1, <1>2
-----------------------------------------------------------------------------
(***************************************************************************)
(* At most one task for each minute.                                       *)
(***************************************************************************)
\* No minute that was fired starts after last_fired_at.
FInv == TypeOK /\ refired = {} /\ \A m \in fired : MinuteLen * m <= lastFired

\* A step fires a minute only if it starts after last_fired_at.
LEMMA FInvStep == ~UpdateMayFail /\ FInv /\ [Next]_vars => FInv'
  <1> SUFFICES ASSUME ~UpdateMayFail, FInv, [Next]_vars
               PROVE  refired' = {} /\ \A m \in fired' : MinuteLen * m <= lastFired'
    BY NextType DEF FInv
  <1> USE TimeAssumption
  <1>1. CASE UNCHANGED <<lastFired, fired, refired>>
    BY <1>1 DEF FInv
  <1>2. ASSUME NEW i \in Instances, FireDueSchedules(i)
        PROVE  refired' = {} /\ \A m \in fired' : MinuteLen * m <= lastFired'
    <2> DEFINE t == job[i].now
    <2>1. t \in Nat /\ Minute(t) \in Nat /\ MinuteStart(t) \in Nat /\ MinuteStart(t) <= t
      BY MinuteFacts DEF FInv, TypeOK, JobRecord
    <2>2. CASE ~IsDue(t)
      BY <1>2, <2>2 DEF FireDueSchedules, FInv
    <2>3. CASE IsDue(t)
      <3>1. /\ fired' = fired \cup {Minute(t)} /\ lastFired' = t
            /\ refired' = refired \cup ({Minute(t)} \cap fired)
        BY <1>2, <2>3 DEF FireDueSchedules, Derive
      <3>2. lastFired < MinuteStart(t) /\ lastFired \in Int
        BY <2>3 DEF IsDue, FInv, TypeOK, Never
      <3>3. Minute(t) \notin fired
        BY <3>2, <2>1 DEF FInv, MinuteStart
      <3>4. ASSUME NEW m \in fired PROVE MinuteLen * m <= t
        <4>1. m \in Nat /\ MinuteLen * m \in Int /\ MinuteLen * m <= lastFired
          BY DEF FInv, TypeOK
        <4> HIDE DEF t
        <4> QED
          BY <4>1, <3>2, <2>1
      <3>5. MinuteLen * Minute(t) <= t
        BY <2>1 DEF MinuteStart
      <3> QED
        BY <3>1, <3>3, <3>4, <3>5 DEF FInv
    <2> QED
      BY <2>2, <2>3
  <1>3. CASE Tick
    BY <1>3, <1>1 DEF Tick, jobVars
  <1>4. ASSUME NEW i \in Instances, Act(i), ~FireDueSchedules(i)
        PROVE  UNCHANGED <<lastFired, fired, refired>>
    BY <1>4 DEF Act, RenewLeadership, UpsertLease, SelectLease, SetLeader, RenewFails,
                scheduleLoop, checkLeaderFence, StepDown, FireUnrecorded, JobFails, jobVars
  <1>5. CASE UNCHANGED vars
    BY <1>5, <1>1 DEF vars
  <1> QED
    BY <1>1, <1>2, <1>3, <1>4, <1>5 DEF Next, Act

\* However the clocks differ and whoever has passed the fence, no minute is
\* fired twice, provided the UPDATE of last_fired_at does not fail on its own.
THEOREM SingleFiring == ~UpdateMayFail => (Spec => []FiredOnce)
  <1> SUFFICES ASSUME ~UpdateMayFail PROVE Spec => []FiredOnce
    OBVIOUS
  <1>1. Init => FInv
    BY TimeAssumption
    DEF Init, FInv, TypeOK, RenewRecord, JobRecord, Resting, NoJob
  <1>2. FInv /\ [Next]_vars => FInv'
    BY FInvStep
  <1>3. FInv => FiredOnce
    BY DEF FInv, FiredOnce
  <1> QED
    BY <1>1, <1>2, <1>3, PTL DEF Spec
=============================================================================
