---------------------------- MODULE LeaderLease ----------------------------
(***************************************************************************)
(* Who of several control-plane replicas runs the periodic jobs, and the   *)
(* job that must not run twice: RenewLeadership and IsLeader of            *)
(* internal/store/sqlstore/sql.go, checkLeaderFence and FireDueSchedules   *)
(* of sql_tasks.go, called by leaderLoop and scheduleLoop of               *)
(* internal/controlplane/server_tasks.go.                                  *)
(*                                                                         *)
(* One SQL statement, or one transaction, is one step.  Every replica      *)
(* reads its own clock, NOW() reads the database's: each is `clock` plus a *)
(* constant offset.  A replica that crashes or stalls simply takes no more *)
(* steps.  One cron template stands for all: templates do not interact.    *)
(***************************************************************************)
EXTENDS Integers

CONSTANTS
    Instances,      \* instanceID of each replica
    TTL,            \* LeaderTTLSec
    Skew,           \* how far the clock of each replica is ahead
    DBSkew,         \* how far the clock of NOW() is ahead
    MinuteLen,      \* the length of a minute
    DueMinutes,     \* the minutes the template's cron expression matches
    UpdateMayFail,  \* whether the UPDATE of last_fired_at may fail on its own
    MaxTime         \* bound: the last value of clock

ASSUME TimeAssumption ==
    /\ TTL \in Nat \ {0} /\ MinuteLen \in Nat \ {0}
    /\ Skew \in [Instances -> Nat] /\ DBSkew \in Nat /\ MaxTime \in Nat
    /\ DueMinutes \subseteq Nat /\ UpdateMayFail \in BOOLEAN

NoOne == "none"
ASSUME InstancesAssumption == NoOne \notin Instances

VARIABLES
    clock,
    holder,      \* table leader_lease: who holds the lease, NoOne before the first
    expires,     \* ... and until when
    isLeader,    \* s.isLeader of each replica
    leaseUntil,  \* s.leaseUntil of each replica
    renew,       \* the RenewLeadership call of each replica
    job,         \* the scheduleLoop iteration of each replica
    lastFired,   \* last_fired_at of the template
    fired,       \* history: the minutes a task has been derived for
    refired      \* history: the minutes more than one has been derived for

leaseVars == <<holder, expires, isLeader, leaseUntil, renew>>
jobVars == <<job, lastFired, fired, refired>>
vars == <<clock, holder, expires, isLeader, leaseUntil, renew, job, lastFired,
          fired, refired>>

Never == -1
Now(i) == clock + Skew[i]
Minute(t) == t \div MinuteLen
MinuteStart(t) == MinuteLen * Minute(t)

\* `now` is read at the start of the call, `seenHolder` and `seenExpires` by its
\* SELECT.
RenewRecord ==
    [pc : {"idle", "upsert", "select", "set"}, now : Nat,
     seenHolder : Instances \cup {NoOne}, seenExpires : Nat]
Resting(t) == [pc |-> "idle", now |-> t, seenHolder |-> NoOne, seenExpires |-> 0]
JobRecord == [pc : {"idle", "fence", "refused", "fire"}, now : Nat]
NoJob == [pc |-> "idle", now |-> 0]

\* The replica takes itself for the leader.
IsLeader(i) == isLeader[i] /\ leaseUntil[i] > Now(i)
-----------------------------------------------------------------------------
Init ==
    /\ clock = 0
    /\ holder = NoOne /\ expires = 0
    /\ isLeader = [i \in Instances |-> FALSE]
    /\ leaseUntil = [i \in Instances |-> 0]
    /\ renew = [i \in Instances |-> Resting(0)]
    /\ job = [i \in Instances |-> NoJob]
    /\ lastFired = Never
    /\ fired = {} /\ refired = {}

Tick ==
    /\ clock < MaxTime
    /\ clock' = clock + 1
    /\ UNCHANGED <<leaseVars, jobVars>>

(***************************************************************************)
(* RenewLeadership, called by leaderLoop.                                  *)
(***************************************************************************)
RenewLeadership(i) ==
    /\ renew[i].pc = "idle"
    /\ renew' = [renew EXCEPT ![i].pc = "upsert", ![i].now = Now(i)]
    /\ UNCHANGED <<clock, holder, expires, isLeader, leaseUntil, jobVars>>

\* Mutant: a lease is taken at the moment it runs out, one early.
MayTakeEarly(i) == holder \in {NoOne, i} \/ expires <= renew[i].now + 1

\* INSERT ... ON DUPLICATE KEY UPDATE takes the lease: there is no row, or the
\* lease has run out, or it is the replica's own.
MayTake(i) == holder \in {NoOne, i} \/ expires < renew[i].now

\* Mutant: the term is subtracted.
UpsertLeaseInPast(i) ==
    /\ renew[i].pc = "upsert"
    /\ holder' = IF MayTake(i) THEN i ELSE holder
    /\ expires' = IF MayTake(i) THEN renew[i].now - TTL ELSE expires
    /\ renew' = [renew EXCEPT ![i].pc = "select"]
    /\ UNCHANGED <<clock, isLeader, leaseUntil, jobVars>>

UpsertLease(i) ==
    /\ renew[i].pc = "upsert"
    /\ holder' = IF MayTake(i) THEN i ELSE holder
    /\ expires' = IF MayTake(i) THEN renew[i].now + TTL ELSE expires
    /\ renew' = [renew EXCEPT ![i].pc = "select"]
    /\ UNCHANGED <<clock, isLeader, leaseUntil, jobVars>>

SelectLease(i) ==
    /\ renew[i].pc = "select"
    /\ renew' = [renew EXCEPT ![i] = [pc |-> "set", now |-> renew[i].now,
                                         seenHolder |-> holder, seenExpires |-> expires]]
    /\ UNCHANGED <<clock, holder, expires, isLeader, leaseUntil, jobVars>>

SetLeader(i) ==
    LET r == renew[i]
    IN  /\ r.pc = "set"
        /\ isLeader' = [isLeader EXCEPT ![i] = r.seenHolder = i /\ r.seenExpires > r.now]
        /\ leaseUntil' = [leaseUntil EXCEPT ![i] = r.seenExpires]
        /\ renew' = [renew EXCEPT ![i] = Resting(r.now)]
        /\ UNCHANGED <<clock, holder, expires, jobVars>>

\* A statement fails.
RenewFails(i) ==
    /\ renew[i].pc \in {"upsert", "select"}
    /\ isLeader' = [isLeader EXCEPT ![i] = FALSE]
    /\ renew' = [renew EXCEPT ![i].pc = "idle"]
    /\ UNCHANGED <<clock, holder, expires, leaseUntil, jobVars>>
-----------------------------------------------------------------------------
(***************************************************************************)
(* One iteration of scheduleLoop.                                          *)
(***************************************************************************)
scheduleLoop(i) ==
    /\ job[i].pc = "idle" /\ IsLeader(i)
    /\ job' = [job EXCEPT ![i] = [pc |-> "fence", now |-> Now(i)]]
    /\ UNCHANGED <<clock, leaseVars, lastFired, fired, refired>>

\* checkLeaderFence asks the database ...
checkLeaderFence(i) ==
    LET fenced == holder = i /\ expires > clock + DBSkew
    IN  /\ job[i].pc = "fence"
        /\ job' = [job EXCEPT ![i].pc = IF fenced THEN "fire" ELSE "refused"]
        /\ UNCHANGED <<clock, leaseVars, lastFired, fired, refired>>

\* ... and a replica that is wrong about itself steps down.
StepDown(i) ==
    /\ job[i].pc = "refused"
    /\ isLeader' = [isLeader EXCEPT ![i] = @ /\ ~IsLeader(i)]
    /\ job' = [job EXCEPT ![i] = NoJob]
    /\ UNCHANGED <<clock, holder, expires, leaseUntil, renew, lastFired, fired, refired>>

\* Mutant: the template counts as fired only up to this very instant.
IsDueAnew(t) == Minute(t) \in DueMinutes /\ lastFired < t

\* The template is due at t and has not been fired in the minute of t.
IsDue(t) == Minute(t) \in DueMinutes /\ lastFired < MinuteStart(t)

\* A task is derived for minute m.
Derive(m) == fired' = fired \cup {m} /\ refired' = refired \cup ({m} \cap fired)

\* The transaction of FireDueSchedules: the template row is locked, so what it
\* reads of last_fired_at is current when it writes.
FireDueSchedules(i) ==
    LET t == job[i].now
    IN  /\ job[i].pc = "fire"
        /\ IF IsDue(t) THEN Derive(Minute(t)) /\ lastFired' = t
                       ELSE UNCHANGED <<fired, refired, lastFired>>
        /\ job' = [job EXCEPT ![i] = NoJob]
        /\ UNCHANGED <<clock, leaseVars>>

\* The UPDATE of last_fired_at fails: the loop goes on to the next template and
\* the transaction is committed.
FireUnrecorded(i) ==
    LET t == job[i].now
    IN  /\ UpdateMayFail
        /\ job[i].pc = "fire" /\ IsDue(t)
        /\ Derive(Minute(t))
        /\ job' = [job EXCEPT ![i] = NoJob]
        /\ UNCHANGED <<clock, leaseVars, lastFired>>

\* The fence query, the transaction or its commit fails: nothing is written.
JobFails(i) ==
    /\ job[i].pc \in {"fence", "fire"}
    /\ job' = [job EXCEPT ![i] = NoJob]
    /\ UNCHANGED <<clock, leaseVars, lastFired, fired, refired>>

Next ==
    \/ Tick
    \/ \E i \in Instances :
          \/ RenewLeadership(i) \/ UpsertLease(i) \/ SelectLease(i) \/ SetLeader(i)
          \/ RenewFails(i)
          \/ scheduleLoop(i) \/ checkLeaderFence(i) \/ StepDown(i)
          \/ FireDueSchedules(i) \/ FireUnrecorded(i) \/ JobFails(i)

Spec == Init /\ [][Next]_vars
-----------------------------------------------------------------------------
(***************************************************************************)
(* Properties.                                                             *)
(***************************************************************************)
\* Every variable holds a value of its kind.
TypeOK ==
    /\ clock \in Nat
    /\ holder \in Instances \cup {NoOne} /\ expires \in Nat
    /\ isLeader \in [Instances -> BOOLEAN]
    /\ leaseUntil \in [Instances -> Nat]
    /\ renew \in [Instances -> RenewRecord]
    /\ job \in [Instances -> JobRecord]
    /\ lastFired \in Nat \cup {Never}
    /\ fired \subseteq Nat /\ refired \subseteq fired

\* With clocks that agree, at most one replica takes itself for the leader,
\* however long the statements of RenewLeadership are delayed.
OneLeader ==
    (\A i, j \in Instances : Skew[i] = Skew[j]) =>
        \A i, j \in Instances : IsLeader(i) /\ IsLeader(j) => i = j

\* The template is fired at most once for each minute, whatever the clocks show
\* and however many replicas have passed the fence (scheduleLoop's comment,
\* "避免多副本重复派生定时实例"): last_fired_at, read under the row lock, decides.
FiredOnce == refired = {}
=============================================================================
