------------------------ MODULE ApprovalEngineProofs ------------------------
(***************************************************************************)
(* Theorems about ApprovalEngine, for any users, requests and flows, the   *)
(* flows with gaps, with approvers named twice and with any number of      *)
(* steps included.                                                         *)
(***************************************************************************)
EXTENDS ApprovalEngine, FiniteSetTheorems, SequenceTheorems, WellFoundedInduction, TLAPS

LEMMA CardInterval ==
    ASSUME NEW n \in Nat
    PROVE  IsFiniteSet(1..n) /\ Cardinality(1..n) = n
<1>1. IsFiniteSet(1..n) /\ Cardinality(1..n) = IF 1 > n THEN 0 ELSE n - 1 + 1
  BY FS_Interval, 1 \in Int, n \in Int, Zenon
<1> QED BY <1>1

\* What the first m naturals number is finite and has at most m elements.
LEMMA RangeBound ==
    ASSUME NEW m \in Nat, NEW T, NEW g \in [1..m -> T],
           \A t \in T : \E i \in 1..m : g[i] = t
    PROVE  IsFiniteSet(T) /\ Cardinality(T) \in Nat /\ Cardinality(T) <= m
<1>1. g \in Surjection(1..m, T)
  BY DEF Surjection
<1>2. IsFiniteSet(1..m) /\ Cardinality(1..m) = m
  BY CardInterval
<1>3. IsFiniteSet(T) /\ Cardinality(T) <= Cardinality(1..m)
  BY <1>1, <1>2, FS_Surjection
<1>4. Cardinality(T) \in Nat
  BY <1>3, FS_CardinalityType
<1> QED BY <1>2, <1>3, <1>4

\* A list without repetition that is as long as the list it draws from names all
\* of it: as many decisions as approvers are the decisions of all approvers.
LEMMA NamesAll ==
    ASSUME NEW m \in Nat, NEW n \in Nat, n <= m, NEW T,
           NEW g \in Injection(1..m, T), NEW a \in Surjection(1..n, T)
    PROVE  g \in Surjection(1..m, T)
<1>1. IsFiniteSet(T) /\ Cardinality(T) \in Nat /\ Cardinality(T) <= n
  <2>1. a \in [1..n -> T] /\ \A t \in T : \E i \in 1..n : a[i] = t
    BY Zenon DEF Surjection
  <2> QED BY <2>1, RangeBound
<1>2. Cardinality(1..m) = m
  BY CardInterval
<1>3. /\ Cardinality(1..m) <= Cardinality(T)
      /\ Cardinality(1..m) = Cardinality(T) <=> g \in Surjection(1..m, T)
  BY <1>1, FS_Injection
<1>4. Cardinality(1..m) = Cardinality(T)
  BY <1>1, <1>2, <1>3
<1> QED BY <1>3, <1>4

LEMMA AllDecided ==
    ASSUME NEW st, NEW rs, NEW m \in Nat, NEW n \in Nat, n <= m,
           DOMAIN st.approvers = 1..n, DOMAIN rs.decisions = 1..m,
           \A j \in 1..m : rs.decisions[j].user \in ToSet(st.approvers),
           \A i, j \in 1..m : rs.decisions[i].user = rs.decisions[j].user => i = j
    PROVE  ToSet(st.approvers) \subseteq Deciders(rs)
<1>1. PICK T : T = ToSet(st.approvers)
  OBVIOUS
<1>2. PICK g : g = [j \in 1..m |-> rs.decisions[j].user]
  OBVIOUS
<1>3. PICK a : a = [j \in 1..n |-> st.approvers[j]]
  OBVIOUS
<1>4. g \in [1..m -> T]
  BY <1>1, <1>2
<1>5. \A x, y \in 1..m : g[x] = g[y] => x = y
  BY <1>2
<1>6. a \in [1..n -> T] /\ \A t \in T : \E j \in 1..n : a[j] = t
  BY <1>1, <1>3 DEF ToSet
<1>7. \A x \in 1..m : g[x] \in Deciders(rs)
  BY <1>2 DEF Deciders
<1>8. \A t \in T : \E x \in 1..m : g[x] = t
  <2>1. g \in Injection(1..m, T)
    BY <1>4, <1>5 DEF Injection, IsInjective
  <2>2. a \in Surjection(1..n, T)
    BY <1>6 DEF Surjection
  <2>3. g \in Surjection(1..m, T)
    BY <2>1, <2>2, NamesAll
  <2> QED BY <2>3, Zenon DEF Surjection
<1>9. \A t \in T : t \in Deciders(rs)
  BY <1>7, <1>8
<1> QED BY <1>1, <1>9

\* A list without repetition is not exhausted by a shorter one: while there are
\* fewer decisions than approvers, some approver has not decided.
LEMMA OneIsLeft ==
    ASSUME NEW m \in Nat, NEW n \in Nat, m < n, NEW S,
           NEW g \in [1..m -> S], NEW a \in Injection(1..n, S)
    PROVE  \E i \in 1..n : \A j \in 1..m : a[i] # g[j]
<1> SUFFICES ASSUME \A i \in 1..n : \E j \in 1..m : a[i] = g[j]
             PROVE  FALSE
  OBVIOUS
<1>1. PICK T : T = {g[j] : j \in 1..m}
  OBVIOUS
<1>2. g \in [1..m -> T] /\ \A t \in T : \E j \in 1..m : g[j] = t
  BY <1>1
<1>3. a \in Injection(1..n, T)
  BY <1>1 DEF Injection, IsInjective
<1>4. IsFiniteSet(T) /\ Cardinality(T) \in Nat /\ Cardinality(T) <= m
  BY <1>2, RangeBound
<1>5. Cardinality(1..n) = n
  BY CardInterval
<1>6. Cardinality(1..n) <= Cardinality(T)
  BY <1>3, <1>4, FS_Injection
<1> QED BY <1>4, <1>5, <1>6

\* A set of natural numbers has a least element: the provers' induction.
LEMMA LeastNatural ==
    ASSUME NEW T, T \subseteq Nat, T # {}
    PROVE  \E x \in T : \A y \in T : x <= y
<1>1. IsWellFoundedOn(OpToRel(<, Nat), Nat)
  BY NatLessThanWellFounded, Zenon
<1>2. OpToRel(<, Nat) = {ss \in Nat \X Nat : ss[1] < ss[2]}
  BY DEF OpToRel
<1>3. PICK R : IsWellFoundedOn(R, Nat) /\ R = {ss \in Nat \X Nat : ss[1] < ss[2]}
  BY <1>1, <1>2, Zenon
<1>4. PICK x \in T : \A y \in T : <<y, x>> \notin R
  BY <1>3, WFMin
<1>5. \A y \in T : ~(y < x)
  BY <1>3, <1>4
<1> QED BY <1>5

\* Numbers each of which exceeds the one before it ascend throughout.
LEMMA Ascending ==
    ASSUME NEW m \in Nat, NEW g, \A i \in 1..m : g[i] \in Nat,
           \A i \in 1..m : i > 1 => g[i - 1] < g[i]
    PROVE  \A i, j \in 1..m : i < j => g[i] < g[j]
<1> DEFINE Bad == {j \in 1..m : \E i \in 1..m : i < j /\ ~(g[i] < g[j])}
<1> SUFFICES ASSUME Bad # {} PROVE FALSE
  OBVIOUS
<1>1. Bad \subseteq Nat
  OBVIOUS
<1> HIDE DEF Bad
<1>2. PICK j \in Bad : \A k \in Bad : j <= k
  BY <1>1, LeastNatural
<1>3. PICK i \in 1..m : i < j /\ ~(g[i] < g[j])
  BY DEF Bad
<1>4. j - 1 \in 1..m /\ j - 1 \notin Bad /\ j \in 1..m
  BY <1>2, <1>3 DEF Bad
<1> QED BY <1>3, <1>4 DEF Bad
-----------------------------------------------------------------------------
(***************************************************************************)
(* The inductive invariant: the types, what the steps of a request hold    *)
(* while its flow stays as it was, and what its timeline holds in any      *)
(* case.                                                                   *)
(***************************************************************************)
FlowType == [enabled : BOOLEAN, steps : Seq(FlowStep)]
RequestRecord == [status : Statuses, flowID : FlowIDs, currentStep : Nat,
                  steps : Seq(StepRecord)]
Entry == [action : {"submit", "approve", "reject", "step_advance", "cancel", "timeout"},
          user : Users \cup {NoUser}, step : Nat]

Types ==
    /\ flows \in [FlowIDs -> Definitions \cup {NoFlow}]
    /\ \A id \in FlowIDs : flows[id] # NoFlow => Validate(flows[id])
    /\ requests \in [Requests -> RequestRecord \cup {Absent}]
    /\ histories \in [Requests -> SUBSET Entry]
    /\ expired \subseteq Requests /\ overdue \subseteq Requests /\ steady \subseteq Requests

Agreed(rs) == \A j \in 1..Len(rs.decisions) : rs.decisions[j].action = "approve"

\* The record rs of flow step st, in a request whose current step and status are
\* cur and status: steps before cur were agreed to by all they ask, steps after it
\* are untouched, and the current one, while pending, waits for somebody.
StepOK(st, rs, cur, status) ==
    /\ rs.order = st.order
    /\ \A j \in 1..Len(rs.decisions) : rs.decisions[j].user \in ToSet(st.approvers)
    /\ st.mode = "sequential" =>
          \A j \in 1..Len(rs.decisions) : rs.decisions[j].user = st.approvers[j]
    /\ rs.order < cur =>
          /\ rs.status = "approved" /\ Agreed(rs) /\ Len(rs.decisions) > 0
          /\ st.mode # "anyof" => Len(rs.decisions) >= Len(st.approvers)
    /\ rs.order > cur => Len(rs.decisions) = 0
    /\ rs.order = cur /\ status = "pending" =>
          /\ Agreed(rs) /\ Len(rs.decisions) < Len(st.approvers)
          /\ st.mode = "anyof" => Len(rs.decisions) = 0
    /\ status # "rejected" => Agreed(rs)

FollowsFlow(req, f) ==
    /\ Len(req.steps) = Len(f.steps)
    /\ \A k \in 1..Len(req.steps) :
          StepOK(f.steps[k], req.steps[k], req.currentStep, req.status)
    /\ req.currentStep >= 1
    /\ req.status = "pending" => req.currentStep <= LastOrder(f)
    /\ req.status = "approved" => req.currentStep > LastOrder(f)

\* Nobody decides twice in a step, no two steps have the same order, and the
\* entries of the timeline that name a user are decisions of the request.
Sound(req, history) ==
    /\ \A k \in 1..Len(req.steps) :
          \A i, j \in 1..Len(req.steps[k].decisions) :
              req.steps[k].decisions[i].user = req.steps[k].decisions[j].user => i = j
    /\ \A k, l \in 1..Len(req.steps) : req.steps[k].order = req.steps[l].order => k = l
    /\ \A h \in history : h.user # NoUser =>
          /\ h.action \notin {"cancel", "timeout"}
          /\ \E k \in 1..Len(req.steps) : \E i \in 1..Len(req.steps[k].decisions) :
                h.step = req.steps[k].order /\ h.user = req.steps[k].decisions[i].user

Counted(req, history) ==
    /\ IsFiniteSet(history) /\ IsFiniteSet(Made(req))
    /\ Cardinality(history) = 1 + Cardinality(Made(req)) + Cardinality(Closing(history))
    /\ Cardinality(Closing(history)) <= 1
    /\ req.status = "pending" => Closing(history) = {}
    /\ req.status \in {"cancelled", "timeout"} => Closing(history) # {}
    /\ Closing(history) # {} => req.status \in {"cancelled", "timeout", "rejected"}

AInv ==
    /\ Types
    /\ \A r \in steady : /\ requests[r] # Absent /\ FlowOf(r) # NoFlow
                         /\ FollowsFlow(requests[r], FlowOf(r))
    /\ \A r \in Requests : requests[r] # Absent =>
          /\ Sound(requests[r], histories[r])
          /\ Counted(requests[r], histories[r])

\* What Validate makes sure of: orders ascend and nobody is left out of a step.
LEMMA FlowFacts ==
    ASSUME NEW f \in FlowType, Validate(f)
    PROVE  /\ Len(f.steps) \in Nat /\ Len(f.steps) > 0 /\ DOMAIN f.steps = 1..Len(f.steps)
           /\ \A i \in 1..Len(f.steps) :
                 /\ f.steps[i] \in FlowStep /\ f.steps[i].mode \in Modes
                 /\ f.steps[i].order \in Nat /\ f.steps[i].order >= 1
                 /\ f.steps[i].approvers \in Seq(Users)
                 /\ Len(f.steps[i].approvers) \in Nat /\ Len(f.steps[i].approvers) > 0
                 /\ DOMAIN f.steps[i].approvers = 1..Len(f.steps[i].approvers)
                 /\ f.steps[i].order <= LastOrder(f)
           /\ \A i, j \in 1..Len(f.steps) : i < j => f.steps[i].order < f.steps[j].order
           /\ LastOrder(f) \in Nat /\ LastOrder(f) >= 1
<1> DEFINE n == Len(f.steps)
<1>1. f.steps \in Seq(FlowStep) /\ f.steps # <<>>
  BY DEF FlowType, Validate
<1>2. n \in Nat /\ n > 0 /\ DOMAIN f.steps = 1..n
  BY <1>1, LenProperties, EmptySeq
<1>3. \A i \in 1..n : f.steps[i] \in FlowStep
  BY <1>1, <1>2, ElementOfSeq
<1>4. \A i \in 1..n : /\ f.steps[i].mode \in Modes /\ f.steps[i].order \in Nat
                      /\ f.steps[i].order >= 1 /\ f.steps[i].approvers # <<>>
                      /\ i > 1 => f.steps[i - 1].order < f.steps[i].order
  BY <1>2, <1>3 DEF FlowStep, Validate
<1>5. \A i \in 1..n : f.steps[i].approvers \in Seq(Users)
  BY <1>3 DEF FlowStep
<1>6. \A i \in 1..n : /\ Len(f.steps[i].approvers) \in Nat /\ Len(f.steps[i].approvers) > 0
                      /\ DOMAIN f.steps[i].approvers = 1..Len(f.steps[i].approvers)
  BY <1>4, <1>5, LenProperties, EmptySeq
<1>7. \A i, j \in 1..n : i < j => f.steps[i].order < f.steps[j].order
  <2> DEFINE g == [i \in 1..n |-> f.steps[i].order]
  <2> HIDE DEF n
  <2>1. \A i \in 1..n : g[i] \in Nat
    BY <1>4
  <2>2. \A i \in 1..n : i > 1 => g[i - 1] < g[i]
    BY <1>2, <1>4
  <2>a. \A i \in 1..n : g[i] = f.steps[i].order
    OBVIOUS
  <2> HIDE DEF g
  <2>3. \A i, j \in 1..n : i < j => g[i] < g[j]
    BY <1>2, <2>1, <2>2, Ascending
  <2> QED BY <2>3, <2>a
<1>8. n \in 1..n
  BY <1>2
<1>9. LastOrder(f) = f.steps[n].order
  BY DEF LastOrder
<1> HIDE DEF n
<1>10. \A i \in 1..n : f.steps[i].order <= LastOrder(f)
  <2> SUFFICES ASSUME NEW i \in 1..n PROVE f.steps[i].order <= LastOrder(f)
    OBVIOUS
  <2>1. i = n \/ i < n
    BY <1>2
  <2> QED BY <2>1, <1>4, <1>7, <1>8, <1>9
<1> QED BY <1>2, <1>3, <1>4, <1>5, <1>6, <1>7, <1>8, <1>9, <1>10 DEF n

\* The search for a step by its order.
LEMMA StepAt ==
    ASSUME NEW n \in Nat, NEW steps, DOMAIN steps = 1..n, NEW order
    PROVE  /\ StepByOrder(steps, order) # 0 =>
                 /\ StepByOrder(steps, order) \in 1..n
                 /\ steps[StepByOrder(steps, order)].order = order
           /\ (\E i \in 1..n : steps[i].order = order) => StepByOrder(steps, order) # 0
<1> DEFINE at == {i \in DOMAIN steps : steps[i].order = order}
<1>1. StepByOrder(steps, order) = IF at = {} THEN 0 ELSE CHOOSE i \in at : TRUE
  BY DEF StepByOrder
<1>2. at # {} => (CHOOSE i \in at : TRUE) \in at
  OBVIOUS
<1>3. \A i \in at : i \in 1..n /\ steps[i].order = order /\ i # 0
  OBVIOUS
<1>4. (\E i \in 1..n : steps[i].order = order) => at # {}
  OBVIOUS
<1> HIDE DEF at
<1> QED BY <1>1, <1>2, <1>3, <1>4

\* A record of a request and its steps.
LEMMA RequestFacts ==
    ASSUME NEW req \in RequestRecord
    PROVE  /\ req.steps \in Seq(StepRecord)
           /\ Len(req.steps) \in Nat /\ DOMAIN req.steps = 1..Len(req.steps)
           /\ req.currentStep \in Nat
           /\ req # Absent
           /\ \A k \in 1..Len(req.steps) :
                 /\ req.steps[k] \in StepRecord /\ req.steps[k].order \in Nat
                 /\ req.steps[k].decisions
                       \in Seq([user : Users, action : {"approve", "reject"}])
                 /\ Len(req.steps[k].decisions) \in Nat
                 /\ DOMAIN req.steps[k].decisions = 1..Len(req.steps[k].decisions)
                 /\ \A j \in 1..Len(req.steps[k].decisions) :
                       /\ req.steps[k].decisions[j].user \in Users
                       /\ req.steps[k].decisions[j].action \in {"approve", "reject"}
<1>1. req.steps \in Seq(StepRecord) /\ req.currentStep \in Nat
  BY DEF RequestRecord
<1>2. Len(req.steps) \in Nat /\ DOMAIN req.steps = 1..Len(req.steps)
  BY <1>1, LenProperties
<1>3. req # Absent
  BY DEF RequestRecord, Absent, Statuses
<1>4. \A k \in 1..Len(req.steps) : req.steps[k] \in StepRecord
  BY <1>1, ElementOfSeq
<1>5. ASSUME NEW k \in 1..Len(req.steps)
      PROVE  /\ req.steps[k].order \in Nat
             /\ req.steps[k].decisions \in Seq([user : Users, action : {"approve", "reject"}])
  BY <1>4 DEF StepRecord
<1>6. ASSUME NEW k \in 1..Len(req.steps)
      PROVE  /\ Len(req.steps[k].decisions) \in Nat
             /\ DOMAIN req.steps[k].decisions = 1..Len(req.steps[k].decisions)
  BY <1>5, LenProperties
<1>7. ASSUME NEW k \in 1..Len(req.steps), NEW j \in 1..Len(req.steps[k].decisions)
      PROVE  req.steps[k].decisions[j] \in [user : Users, action : {"approve", "reject"}]
  BY <1>5, ElementOfSeq
<1> QED BY <1>1, <1>2, <1>3, <1>4, <1>5, <1>6, <1>7

\* A sequence of steps with one of them replaced.
LEMMA Replaced ==
    ASSUME NEW steps \in Seq(StepRecord), NEW k \in 1..Len(steps), NEW rs \in StepRecord,
           NEW new, new = [steps EXCEPT ![k] = rs]
    PROVE  /\ new \in Seq(StepRecord) /\ Len(new) = Len(steps) /\ new[k] = rs
           /\ \A j \in 1..Len(steps) : j # k => new[j] = steps[j]
BY ExceptSeq

\* Everything a decision changes in a request, whichever way it goes: step k, of
\* the given order in a flow that ends with last, becomes rs and is judged v.
IsAdvanced(req, new, k, rs, order, last, v) ==
    /\ v \in {"open", "failed", "passed"}
    /\ new \in RequestRecord /\ new.flowID = req.flowID
    /\ Len(new.steps) = Len(req.steps)
    /\ new.steps[k].order = rs.order /\ new.steps[k].decisions = rs.decisions
    /\ \A j \in 1..Len(req.steps) : j # k =>
          /\ new.steps[j].order = req.steps[j].order
          /\ new.steps[j].decisions = req.steps[j].decisions
          /\ new.steps[j].status = req.steps[j].status
    /\ v = "open" => new.status = req.status /\ new.currentStep = req.currentStep
    /\ v = "failed" => new.status = "rejected" /\ new.currentStep = req.currentStep
    /\ v = "passed" =>
          /\ new.currentStep = order + 1 /\ new.steps[k].status = "approved"
          /\ new.status = IF order >= last THEN "approved" ELSE "pending"

LEMMA AdvancedIs ==
    ASSUME NEW req \in RequestRecord, NEW k \in 1..Len(req.steps), NEW rs \in StepRecord,
           NEW f, NEW i, f.steps[i].order \in Nat, LastOrder(f) \in Nat,
           NEW new, new = Advanced(req, f, i, k, rs),
           NEW v, v = evaluateStep(f.steps[i], rs)
    PROVE  IsAdvanced(req, new, k, rs, f.steps[i].order, LastOrder(f), v)
<1> DEFINE order == f.steps[i].order
           next == StepByOrder(req.steps, order + 1)
           set(status) == [rs EXCEPT !.status = status]
           steps(status) == [req.steps EXCEPT ![k] = set(status)]
           begun == [steps("approved") EXCEPT ![next].started = TRUE]
<1>v. v \in {"open", "failed", "passed"}
  BY DEF evaluateStep
<1>r. /\ req.steps \in Seq(StepRecord) /\ Len(req.steps) \in Nat
      /\ DOMAIN req.steps = 1..Len(req.steps) /\ req.currentStep \in Nat
  BY RequestFacts
<1>s. \A status \in Statuses :
         /\ set(status) \in StepRecord
         /\ set(status).order = rs.order /\ set(status).decisions = rs.decisions
         /\ set(status).status = status
  BY DEF StepRecord
<1> HIDE DEF set
<1>t. \A status \in Statuses :
         /\ steps(status) \in Seq(StepRecord) /\ Len(steps(status)) = Len(req.steps)
         /\ steps(status)[k] = set(status)
         /\ \A j \in 1..Len(req.steps) : j # k => steps(status)[j] = req.steps[j]
  BY <1>r, <1>s, Replaced
<1>a. "approved" \in Statuses /\ "rejected" \in Statuses /\ "pending" \in Statuses
  BY DEF Statuses
<1>b. next # 0 => next \in 1..Len(req.steps)
  BY <1>r, StepAt
<1> HIDE DEF steps, order, next
<1>1. CASE v = "open"
  <2>1. new = [req EXCEPT !.steps[k] = rs]
    BY <1>1, Zenon DEF Advanced
  <2> DEFINE ss == [req.steps EXCEPT ![k] = rs]
  <2>2. /\ ss \in Seq(StepRecord) /\ Len(ss) = Len(req.steps) /\ ss[k] = rs
        /\ \A j \in 1..Len(req.steps) : j # k => ss[j] = req.steps[j]
    BY <1>r, Replaced
  <2>3. new = [req EXCEPT !.steps = ss]
    BY <2>1
  <2> HIDE DEF ss
  <2>4. /\ new \in RequestRecord /\ new.flowID = req.flowID /\ new.steps = ss
        /\ new.status = req.status /\ new.currentStep = req.currentStep
    BY <2>2, <2>3 DEF RequestRecord
  <2> QED BY <1>1, <2>2, <2>4 DEF IsAdvanced
<1>2. CASE v = "failed"
  <2>1. new = [req EXCEPT !.steps = steps("rejected"), !.status = "rejected"]
    BY <1>2 DEF Advanced, steps, set
  <2>2. /\ new \in RequestRecord /\ new.flowID = req.flowID /\ new.steps = steps("rejected")
        /\ new.status = "rejected" /\ new.currentStep = req.currentStep
    BY <1>t, <1>a, <2>1 DEF RequestRecord
  <2> QED BY <1>2, <1>s, <1>t, <1>a, <2>2 DEF IsAdvanced
<1>3. CASE v = "passed"
  <2> DEFINE ss == IF order >= LastOrder(f) \/ next = 0 THEN steps("approved") ELSE begun
             stat == IF order >= LastOrder(f) THEN "approved" ELSE "pending"
  <2>1. new = [req EXCEPT !.status = stat, !.currentStep = order + 1, !.steps = ss]
    BY <1>3 DEF Advanced, steps, set, order, next
  <2>2. ASSUME next # 0
        PROVE  /\ begun \in Seq(StepRecord) /\ Len(begun) = Len(req.steps)
               /\ \A j \in 1..Len(req.steps) :
                     /\ begun[j].order = steps("approved")[j].order
                     /\ begun[j].decisions = steps("approved")[j].decisions
                     /\ begun[j].status = steps("approved")[j].status
    <3>1. next \in 1..Len(steps("approved")) /\ steps("approved") \in Seq(StepRecord)
      BY <1>a, <1>b, <1>t, <2>2
    <3>2. steps("approved")[next] \in StepRecord
      BY <3>1, ElementOfSeq
    <3> DEFINE ns == [steps("approved")[next] EXCEPT !.started = TRUE]
    <3>3. /\ ns \in StepRecord /\ ns.order = steps("approved")[next].order
          /\ ns.decisions = steps("approved")[next].decisions
          /\ ns.status = steps("approved")[next].status
      BY <3>2 DEF StepRecord
    <3>4. begun = [steps("approved") EXCEPT ![next] = ns]
      OBVIOUS
    <3> HIDE DEF ns, begun
    <3>5. /\ begun \in Seq(StepRecord) /\ Len(begun) = Len(steps("approved"))
          /\ begun[next] = ns
          /\ \A j \in 1..Len(steps("approved")) : j # next => begun[j] = steps("approved")[j]
      BY <3>1, <3>3, <3>4, Replaced
    <3>6. Len(steps("approved")) = Len(req.steps)
      BY <1>a, <1>t
    <3> QED BY <3>3, <3>5, <3>6
  <2>3. /\ ss \in Seq(StepRecord) /\ Len(ss) = Len(req.steps)
        /\ \A j \in 1..Len(req.steps) :
              /\ ss[j].order = steps("approved")[j].order
              /\ ss[j].decisions = steps("approved")[j].decisions
              /\ ss[j].status = steps("approved")[j].status
    <3> HIDE DEF begun
    <3>1. CASE ss = begun /\ next # 0
      BY <3>1, <2>2
    <3>2. CASE ss = steps("approved")
      BY <3>2, <1>a, <1>t
    <3> QED BY <3>1, <3>2
  <2>4. stat \in Statuses /\ order + 1 \in Nat
    BY <1>a DEF order
  <2> HIDE DEF ss, stat
  <2>5. /\ new \in RequestRecord /\ new.flowID = req.flowID /\ new.steps = ss
        /\ new.status = stat /\ new.currentStep = order + 1
    BY <2>1, <2>3, <2>4 DEF RequestRecord
  <2>6. /\ new.steps[k].order = rs.order /\ new.steps[k].decisions = rs.decisions
        /\ new.steps[k].status = "approved"
    BY <1>a, <1>s, <1>t, <2>3, <2>5
  <2>7. \A j \in 1..Len(req.steps) : j # k =>
           /\ new.steps[j].order = req.steps[j].order
           /\ new.steps[j].decisions = req.steps[j].decisions
           /\ new.steps[j].status = req.steps[j].status
    BY <1>a, <1>t, <2>3, <2>5
  <2> QED BY <1>3, <2>3, <2>5, <2>6, <2>7 DEF stat, order, IsAdvanced
<1> QED BY <1>v, <1>1, <1>2, <1>3

\* The step record with one more decision.
IsDecided(rs, ds, u, action) ==
    /\ ds \in StepRecord /\ ds.order = rs.order
    /\ Len(rs.decisions) \in Nat /\ Len(ds.decisions) = Len(rs.decisions) + 1
    /\ ds.decisions[Len(rs.decisions) + 1].user = u
    /\ ds.decisions[Len(rs.decisions) + 1].action = action
    /\ \A j \in 1..Len(rs.decisions) : ds.decisions[j] = rs.decisions[j]
    /\ DOMAIN ds.decisions = 1..Len(ds.decisions)

LEMMA DecidedStep ==
    ASSUME NEW rs \in StepRecord, NEW u \in Users, NEW action \in {"approve", "reject"},
           NEW ds, ds = [rs EXCEPT !.decisions = Append(@, [user |-> u, action |-> action])]
    PROVE  IsDecided(rs, ds, u, action)
<1> DEFINE D == [user : Users, action : {"approve", "reject"}]
           d == [user |-> u, action |-> action]
<1>1. rs.decisions \in Seq(D) /\ d \in D /\ d.user = u /\ d.action = action
  BY DEF StepRecord
<1> HIDE DEF d
<1>2. /\ Append(rs.decisions, d) \in Seq(D)
      /\ Len(Append(rs.decisions, d)) = Len(rs.decisions) + 1
      /\ \A j \in 1..Len(rs.decisions) : Append(rs.decisions, d)[j] = rs.decisions[j]
      /\ Append(rs.decisions, d)[Len(rs.decisions) + 1] = d
  BY <1>1, AppendProperties
<1>3. ds = [rs EXCEPT !.decisions = Append(rs.decisions, d)]
  BY DEF d
<1>4. ds.decisions = Append(rs.decisions, d) /\ ds.order = rs.order /\ ds \in StepRecord
  BY <1>2, <1>3 DEF StepRecord
<1>5. Len(rs.decisions) \in Nat /\ DOMAIN ds.decisions = 1..Len(ds.decisions)
  BY <1>1, <1>2, <1>4, LenProperties
<1> QED BY <1>1, <1>2, <1>4, <1>5 DEF IsDecided

\* What is known of a valid decision: the step of the flow and the step of the
\* request are the same.
LEMMA SameStep ==
    ASSUME NEW req \in RequestRecord, NEW f \in FlowType, Validate(f), FollowsFlow(req, f),
           StepByOrder(f.steps, req.currentStep) # 0,
           StepByOrder(req.steps, req.currentStep) # 0
    PROVE  StepByOrder(f.steps, req.currentStep) = StepByOrder(req.steps, req.currentStep)
<1> DEFINE i == StepByOrder(f.steps, req.currentStep)
           k == StepByOrder(req.steps, req.currentStep)
<1>1. i \in 1..Len(f.steps) /\ f.steps[i].order = req.currentStep
  BY FlowFacts, StepAt
<1>2. k \in 1..Len(req.steps) /\ req.steps[k].order = req.currentStep
  BY RequestFacts, StepAt
<1> HIDE DEF i, k
<1>3. k \in 1..Len(f.steps) /\ f.steps[k].order = req.currentStep
  BY <1>2 DEF FollowsFlow, StepOK
<1>4. /\ Len(f.steps) \in Nat
      /\ \A x, y \in 1..Len(f.steps) : x < y => f.steps[x].order < f.steps[y].order
      /\ \A x \in 1..Len(f.steps) : f.steps[x].order \in Nat
  BY FlowFacts
<1>5. i = k
  BY <1>1, <1>3, <1>4
<1> QED BY <1>5 DEF i, k

\* What evaluateStep says once one more decision is made, all earlier ones having
\* been agreements.
LEMMA Verdict ==
    ASSUME NEW st, Len(st.approvers) \in Nat,
           NEW rs \in StepRecord, NEW n \in Nat, Len(rs.decisions) = n + 1,
           DOMAIN rs.decisions = 1..(n + 1),
           NEW action \in {"approve", "reject"}, rs.decisions[n + 1].action = action,
           \A j \in 1..n : rs.decisions[j].action = "approve",
           st.mode = "anyof" => n = 0
    PROVE  /\ action = "approve" <=> Agreed(rs)
           /\ evaluateStep(st, rs) \in {"open", "failed", "passed"}
           /\ evaluateStep(st, rs) = "open" =>
                 action = "approve" /\ st.mode # "anyof" /\ n + 1 < Len(st.approvers)
           /\ evaluateStep(st, rs) = "passed" =>
                 action = "approve" /\ (st.mode # "anyof" => n + 1 >= Len(st.approvers))
<1>1. n + 1 \in 1..(n + 1) /\ \A j \in 1..(n + 1) : j = n + 1 \/ j \in 1..n
  OBVIOUS
<1>2. action = "approve" <=> Agreed(rs)
  BY <1>1 DEF Agreed
<1>3. "reject" \in Actions(rs) <=> action = "reject"
  BY <1>1 DEF Actions
<1>4. evaluateStep(st, rs) \in {"open", "failed", "passed"}
  BY DEF evaluateStep
<1>5. CASE st.mode = "anyof"
  <2>1. rs.decisions \in Seq([user : Users, action : {"approve", "reject"}])
    BY DEF StepRecord
  <2>2. Head(rs.decisions) = rs.decisions[1]
    BY <2>1
  <2>3. Head(rs.decisions).action = action
    BY <1>5, <2>2
  <2> QED BY <1>2, <1>4, <1>5, <2>3 DEF evaluateStep
<1>6. CASE st.mode # "anyof"
  <2>1. evaluateStep(st, rs) = IF "reject" \in Actions(rs) THEN "failed"
                               ELSE IF Len(rs.decisions) >= Len(st.approvers) THEN "passed"
                               ELSE "open"
    BY <1>6 DEF evaluateStep
  <2> QED BY <1>2, <1>3, <1>4, <1>6, <2>1
<1> QED BY <1>5, <1>6

\* The step decided on.
LEMMA CurrentStep ==
    ASSUME NEW st, Len(st.approvers) \in Nat,
           NEW ns, NEW cur \in Nat, st.order = cur, ns.order = cur,
           NEW n \in Nat, Len(ns.decisions) = n + 1,
           \A j \in 1..(n + 1) : ns.decisions[j].user \in ToSet(st.approvers),
           st.mode = "sequential" =>
               \A j \in 1..(n + 1) : ns.decisions[j].user = st.approvers[j],
           NEW ncur, NEW status,
           \/ /\ ncur = cur /\ status = "pending" /\ Agreed(ns)
              /\ st.mode # "anyof" /\ n + 1 < Len(st.approvers)
           \/ ncur = cur /\ status = "rejected"
           \/ /\ ncur = cur + 1 /\ ns.status = "approved" /\ Agreed(ns)
              /\ st.mode # "anyof" => n + 1 >= Len(st.approvers)
    PROVE  StepOK(st, ns, ncur, status)
<1>1. /\ \A j \in 1..Len(ns.decisions) : ns.decisions[j].user \in ToSet(st.approvers)
      /\ st.mode = "sequential" =>
            \A j \in 1..Len(ns.decisions) : ns.decisions[j].user = st.approvers[j]
  OBVIOUS
<1>2. CASE ncur = cur /\ status = "pending" /\ Agreed(ns)
           /\ st.mode # "anyof" /\ n + 1 < Len(st.approvers)
  BY <1>1, <1>2 DEF StepOK
<1>3. CASE ncur = cur /\ status = "rejected"
  BY <1>1, <1>3 DEF StepOK
<1>4. CASE ncur = cur + 1 /\ ns.status = "approved" /\ Agreed(ns)
           /\ (st.mode # "anyof" => n + 1 >= Len(st.approvers))
  BY <1>1, <1>4 DEF StepOK
<1> QED BY <1>2, <1>3, <1>4

\* The other steps.
LEMMA OtherStep ==
    ASSUME NEW st, Len(st.approvers) \in Nat, Len(st.approvers) > 0,
           NEW rs, NEW ns, NEW cur \in Nat, st.order \in Nat, st.order # cur,
           StepOK(st, rs, cur, "pending"),
           ns.order = rs.order, ns.decisions = rs.decisions, ns.status = rs.status,
           NEW ncur, ncur = cur \/ ncur = cur + 1, NEW status
    PROVE  StepOK(st, ns, ncur, status)
<1>1. rs.order = st.order /\ Agreed(rs)
  BY DEF StepOK
<1>2. Agreed(ns)
  BY <1>1 DEF Agreed
<1>3. /\ rs.order < ncur => rs.order < cur
      /\ rs.order > ncur => rs.order > cur
      /\ rs.order = ncur => rs.order > cur
  BY <1>1
<1>4. rs.order > cur => Len(rs.decisions) = 0
  BY DEF StepOK
<1>5. rs.order = ncur => Len(ns.decisions) = 0 /\ Len(ns.decisions) < Len(st.approvers)
  BY <1>3, <1>4
<1>6. rs.order < ncur =>
          /\ ns.status = "approved" /\ Len(ns.decisions) > 0
          /\ st.mode # "anyof" => Len(ns.decisions) >= Len(st.approvers)
  BY <1>3 DEF StepOK
<1>7. /\ \A j \in 1..Len(ns.decisions) : ns.decisions[j].user \in ToSet(st.approvers)
      /\ st.mode = "sequential" =>
            \A j \in 1..Len(ns.decisions) : ns.decisions[j].user = st.approvers[j]
  BY DEF StepOK
<1> QED BY <1>1, <1>2, <1>3, <1>4, <1>5, <1>6, <1>7 DEF StepOK

\* A decision keeps a request in step with its flow.
LEMMA DecisionFollows ==
    ASSUME NEW req \in RequestRecord, NEW f \in FlowType, Validate(f), FollowsFlow(req, f),
           req.status = "pending",
           NEW k \in 1..Len(req.steps), req.steps[k].order = req.currentStep,
           NEW u \in ToSet(f.steps[k].approvers),
           InTurn(f.steps[k], req.steps[k], u),
           NEW action \in {"approve", "reject"},
           NEW rs, IsDecided(req.steps[k], rs, u, action),
           NEW new, IsAdvanced(req, new, k, rs, f.steps[k].order, LastOrder(f),
                               evaluateStep(f.steps[k], rs))
    PROVE  FollowsFlow(new, f)
<1>1. PICK st : st = f.steps[k]
  OBVIOUS
<1>2. PICK old : old = req.steps[k]
  OBVIOUS
<1>3. PICK cur : cur = req.currentStep
  OBVIOUS
<1>4. PICK n : n = Len(old.decisions)
  OBVIOUS
<1>5. PICK v : v = evaluateStep(st, rs)
  OBVIOUS
<1>6. /\ Len(req.steps) = Len(f.steps) /\ k \in 1..Len(f.steps)
      /\ StepOK(st, old, cur, "pending") /\ cur \in Nat /\ st.order = cur /\ old.order = cur
      /\ cur <= LastOrder(f) /\ cur >= 1
  BY <1>1, <1>2, <1>3, RequestFacts DEF FollowsFlow, StepOK
<1>7. /\ LastOrder(f) \in Nat /\ Len(f.steps) \in Nat
      /\ Len(st.approvers) \in Nat /\ Len(st.approvers) > 0
      /\ \A x, y \in 1..Len(f.steps) : x < y => f.steps[x].order < f.steps[y].order
      /\ \A x \in 1..Len(f.steps) : f.steps[x].order \in Nat
      /\ \A x \in 1..Len(f.steps) : /\ Len(f.steps[x].approvers) \in Nat
                                    /\ Len(f.steps[x].approvers) > 0
  BY <1>1, <1>6, FlowFacts
<1>8. /\ rs \in StepRecord /\ rs.order = cur /\ n \in Nat /\ Len(rs.decisions) = n + 1
      /\ rs.decisions[n + 1].user = u /\ rs.decisions[n + 1].action = action
      /\ \A j \in 1..n : rs.decisions[j] = old.decisions[j]
      /\ DOMAIN rs.decisions = 1..(n + 1)
  BY <1>2, <1>3, <1>4 DEF IsDecided
<1>9. /\ Agreed(old) /\ n < Len(st.approvers)
      /\ st.mode = "anyof" => n = 0
      /\ \A j \in 1..n : old.decisions[j].user \in ToSet(st.approvers)
      /\ st.mode = "sequential" => \A j \in 1..n : old.decisions[j].user = st.approvers[j]
  BY <1>4, <1>6 DEF StepOK
<1>10. \A j \in 1..(n + 1) : rs.decisions[j].user \in ToSet(st.approvers)
  <2>1. u \in ToSet(st.approvers)
    BY <1>1
  <2>2. \A j \in 1..(n + 1) : j = n + 1 \/ j \in 1..n
    BY <1>8
  <2> QED BY <1>8, <1>9, <2>1, <2>2
<1>11. st.mode = "sequential" => \A j \in 1..(n + 1) : rs.decisions[j].user = st.approvers[j]
  <2>1. st.mode = "sequential" => n + 1 > Len(st.approvers) \/ st.approvers[n + 1] = u
    BY <1>1, <1>2, <1>4, Zenon DEF InTurn
  <2>2. st.mode = "sequential" => st.approvers[n + 1] = u
    BY <1>7, <1>8, <1>9, <2>1
  <2>3. \A j \in 1..(n + 1) : j = n + 1 \/ j \in 1..n
    BY <1>8
  <2> QED BY <1>8, <1>9, <2>2, <2>3
<1>12. \A j \in 1..n : rs.decisions[j].action = "approve"
  BY <1>4, <1>8, <1>9 DEF Agreed
<1>13. /\ action = "approve" <=> Agreed(rs)
       /\ v = "open" => action = "approve" /\ st.mode # "anyof" /\ n + 1 < Len(st.approvers)
       /\ v = "passed" =>
             action = "approve" /\ (st.mode # "anyof" => n + 1 >= Len(st.approvers))
  BY <1>5, <1>7, <1>8, <1>9, <1>12, Verdict
<1>14. /\ v \in {"open", "failed", "passed"}
       /\ Len(new.steps) = Len(req.steps)
       /\ new.steps[k].order = cur /\ new.steps[k].decisions = rs.decisions
       /\ v = "open" => new.status = "pending" /\ new.currentStep = cur
       /\ v = "failed" => new.status = "rejected" /\ new.currentStep = cur
       /\ v = "passed" =>
             /\ new.currentStep = cur + 1 /\ new.steps[k].status = "approved"
             /\ new.status = IF cur >= LastOrder(f) THEN "approved" ELSE "pending"
  BY <1>1, <1>3, <1>5, <1>6, <1>8 DEF IsAdvanced
<1>15. StepOK(st, new.steps[k], new.currentStep, new.status)
  <2>1. PICK ns : ns = new.steps[k]
    OBVIOUS
  <2>2. Agreed(ns) <=> Agreed(rs)
    BY <1>14, <2>1 DEF Agreed
  <2>3. /\ ns.order = cur /\ Len(ns.decisions) = n + 1
        /\ \A j \in 1..(n + 1) : ns.decisions[j].user \in ToSet(st.approvers)
        /\ st.mode = "sequential" =>
              \A j \in 1..(n + 1) : ns.decisions[j].user = st.approvers[j]
    BY <1>8, <1>10, <1>11, <1>14, <2>1
  <2>4. \/ /\ new.currentStep = cur /\ new.status = "pending" /\ Agreed(ns)
           /\ st.mode # "anyof" /\ n + 1 < Len(st.approvers)
        \/ new.currentStep = cur /\ new.status = "rejected"
        \/ /\ new.currentStep = cur + 1 /\ ns.status = "approved" /\ Agreed(ns)
           /\ st.mode # "anyof" => n + 1 >= Len(st.approvers)
    BY <1>13, <1>14, <2>1, <2>2
  <2>5. StepOK(st, ns, new.currentStep, new.status)
    BY <1>6, <1>7, <1>8, <2>3, <2>4, CurrentStep
  <2> QED BY <2>1, <2>5
<1>16. ASSUME NEW j \in 1..Len(req.steps), j # k
       PROVE  StepOK(f.steps[j], new.steps[j], new.currentStep, new.status)
  <2>1. StepOK(f.steps[j], req.steps[j], cur, "pending")
    BY <1>3 DEF FollowsFlow
  <2>2. /\ new.steps[j].order = req.steps[j].order
        /\ new.steps[j].decisions = req.steps[j].decisions
        /\ new.steps[j].status = req.steps[j].status
    BY <1>16 DEF IsAdvanced
  <2>3. j \in 1..Len(f.steps) /\ (j < k \/ k < j)
    BY <1>6, <1>7, <1>16
  <2>4. f.steps[j].order # cur /\ f.steps[j].order \in Nat
    BY <1>1, <1>6, <1>7, <2>3
  <2>5. new.currentStep = cur \/ new.currentStep = cur + 1
    BY <1>14
  <2>6. Len(f.steps[j].approvers) \in Nat /\ Len(f.steps[j].approvers) > 0
    BY <1>7, <2>3
  <2> QED BY <1>6, <2>1, <2>2, <2>4, <2>5, <2>6, OtherStep
<1>17. /\ new.currentStep >= 1
       /\ new.status = "pending" => new.currentStep <= LastOrder(f)
       /\ new.status = "approved" => new.currentStep > LastOrder(f)
  BY <1>6, <1>7, <1>14
<1> QED BY <1>1, <1>6, <1>14, <1>15, <1>16, <1>17 DEF FollowsFlow
-----------------------------------------------------------------------------
(***************************************************************************)
(* The timeline.                                                           *)
(***************************************************************************)
LEMMA MadeIs ==
    ASSUME NEW req \in RequestRecord, NEW x
    PROVE  x \in Made(req) <=>
               \E k \in 1..Len(req.steps) :
                   \E i \in 1..Len(req.steps[k].decisions) : x = <<k, i>>
<1>1. /\ DOMAIN req.steps = 1..Len(req.steps)
      /\ \A k \in 1..Len(req.steps) :
            DOMAIN req.steps[k].decisions = 1..Len(req.steps[k].decisions)
  BY RequestFacts
<1>2. x \in Made(req) <=>
          \E k \in DOMAIN req.steps : x \in {<<k, i>> : i \in DOMAIN req.steps[k].decisions}
  BY Zenon DEF Made
<1> QED BY <1>1, <1>2

\* The entry of a decision is sound, and the decision did not have one before.
LEMMA DecisionSound ==
    ASSUME NEW req \in RequestRecord, NEW history, Sound(req, history),
           NEW k \in 1..Len(req.steps), NEW u \in Users, u \notin Deciders(req.steps[k]),
           NEW action, NEW rs, IsDecided(req.steps[k], rs, u, action),
           NEW new, NEW order, NEW last, NEW v,
           IsAdvanced(req, new, k, rs, order, last, v),
           NEW e, e.user = u, e.step = req.steps[k].order,
           e.action \notin {"cancel", "timeout"}
    PROVE  Sound(new, history \cup {e}) /\ e \notin history
<1>1. PICK n : n = Len(req.steps[k].decisions)
  OBVIOUS
<1>2. /\ n \in Nat /\ Len(rs.decisions) = n + 1 /\ rs.decisions[n + 1].user = u
      /\ \A j \in 1..n : rs.decisions[j] = req.steps[k].decisions[j]
      /\ rs.order = req.steps[k].order
  BY <1>1 DEF IsDecided
<1>3. /\ Len(new.steps) = Len(req.steps)
      /\ new.steps[k].order = rs.order /\ new.steps[k].decisions = rs.decisions
      /\ \A j \in 1..Len(req.steps) : j # k =>
            /\ new.steps[j].order = req.steps[j].order
            /\ new.steps[j].decisions = req.steps[j].decisions
  BY DEF IsAdvanced
<1>4. \A j \in 1..n : req.steps[k].decisions[j].user # u
  BY <1>1, RequestFacts DEF Deciders
<1>5. \A j \in 1..(n + 1) : j = n + 1 \/ j \in 1..n
  BY <1>2
<1>6. \A l \in 1..Len(new.steps) :
          \A i, j \in 1..Len(new.steps[l].decisions) :
              new.steps[l].decisions[i].user = new.steps[l].decisions[j].user => i = j
  <2>1. ASSUME NEW i \in 1..(n + 1), NEW j \in 1..(n + 1),
               rs.decisions[i].user = rs.decisions[j].user
        PROVE  i = j
    <3>1. \A x, y \in 1..n : req.steps[k].decisions[x].user = req.steps[k].decisions[y].user
                                => x = y
      BY <1>1 DEF Sound
    <3> QED BY <1>2, <1>4, <1>5, <2>1, <3>1
  <2>2. ASSUME NEW l \in 1..Len(req.steps), l # k,
               NEW i \in 1..Len(req.steps[l].decisions), NEW j \in 1..Len(req.steps[l].decisions),
               req.steps[l].decisions[i].user = req.steps[l].decisions[j].user
        PROVE  i = j
    BY <2>2 DEF Sound
  <2>3. ASSUME NEW l \in 1..Len(req.steps),
               NEW i \in 1..Len(new.steps[l].decisions), NEW j \in 1..Len(new.steps[l].decisions),
               new.steps[l].decisions[i].user = new.steps[l].decisions[j].user
        PROVE  i = j
    <3>1. CASE l = k
      BY <1>2, <1>3, <2>1, <2>3, <3>1
    <3>2. CASE l # k
      <4>1. new.steps[l].decisions = req.steps[l].decisions
        BY <1>3, <3>2
      <4> QED BY <2>2, <2>3, <3>2, <4>1
    <3> QED BY <3>1, <3>2
  <2> QED BY <1>3, <2>3
<1>7. \A l, m \in 1..Len(new.steps) : new.steps[l].order = new.steps[m].order => l = m
  <2>1. \A l \in 1..Len(req.steps) : new.steps[l].order = req.steps[l].order
    BY <1>2, <1>3
  <2> QED BY <1>3, <2>1 DEF Sound
<1>8. ASSUME NEW l \in 1..Len(req.steps), NEW i \in 1..Len(req.steps[l].decisions)
      PROVE  /\ i \in 1..Len(new.steps[l].decisions)
             /\ new.steps[l].decisions[i] = req.steps[l].decisions[i]
             /\ new.steps[l].order = req.steps[l].order
  <2>1. CASE l = k
    BY <1>1, <1>2, <1>3, <2>1
  <2>2. CASE l # k
    BY <1>3, <2>2
  <2> QED BY <2>1, <2>2
<1>9. ASSUME NEW h \in history, h.user # NoUser
      PROVE  /\ h.action \notin {"cancel", "timeout"}
             /\ \E l \in 1..Len(new.steps) : \E i \in 1..Len(new.steps[l].decisions) :
                   h.step = new.steps[l].order /\ h.user = new.steps[l].decisions[i].user
  <2>1. h.action \notin {"cancel", "timeout"}
    BY <1>9 DEF Sound
  <2>2l. PICK l \in 1..Len(req.steps) : \E i \in 1..Len(req.steps[l].decisions) :
            h.step = req.steps[l].order /\ h.user = req.steps[l].decisions[i].user
    BY <1>9 DEF Sound
  <2>2. PICK i \in 1..Len(req.steps[l].decisions) : h.step = req.steps[l].order /\ h.user = req.steps[l].decisions[i].user
    BY <2>2l
  <2>3. /\ l \in 1..Len(new.steps) /\ i \in 1..Len(new.steps[l].decisions)
        /\ h.step = new.steps[l].order
    BY <1>3, <1>8, <2>2
  <2>4. h.user = new.steps[l].decisions[i].user
    BY <1>8, <2>2
  <2> QED BY <2>1, <2>3, <2>4
<1>10. \E l \in 1..Len(new.steps) : \E i \in 1..Len(new.steps[l].decisions) :
           e.step = new.steps[l].order /\ e.user = new.steps[l].decisions[i].user
  <2>1. n + 1 \in 1..Len(new.steps[k].decisions) /\ k \in 1..Len(new.steps)
    BY <1>2, <1>3
  <2>2. e.step = new.steps[k].order /\ e.user = new.steps[k].decisions[n + 1].user
    BY <1>2, <1>3
  <2> QED BY <2>1, <2>2
<1>11. Sound(new, history \cup {e})
  BY <1>6, <1>7, <1>9, <1>10 DEF Sound
<1>12. ASSUME e \in history PROVE FALSE
  <2>1. e.user # NoUser
    BY DefinitionsAssumption
  <2>2l. PICK l \in 1..Len(req.steps) : \E i \in 1..Len(req.steps[l].decisions) :
            e.step = req.steps[l].order /\ e.user = req.steps[l].decisions[i].user
    BY <1>12, <2>1 DEF Sound
  <2>2. PICK i \in 1..Len(req.steps[l].decisions) : e.step = req.steps[l].order /\ e.user = req.steps[l].decisions[i].user
    BY <2>2l
  <2>3. l = k
    BY <2>2 DEF Sound
  <2> QED BY <1>1, <1>4, <2>2, <2>3
<1> QED BY <1>11, <1>12

\* A decision and its entry count one each.
LEMMA DecisionCounted ==
    ASSUME NEW req \in RequestRecord, NEW history, Sound(req, history), Counted(req, history),
           req.status = "pending",
           NEW k \in 1..Len(req.steps), NEW u, NEW action, NEW rs,
           IsDecided(req.steps[k], rs, u, action),
           NEW new, NEW order, NEW last, NEW v,
           IsAdvanced(req, new, k, rs, order, last, v),
           NEW e, e \notin history, e.action \notin {"cancel", "timeout"}
    PROVE  Counted(new, history \cup {e})
<1>1. PICK n : n = Len(req.steps[k].decisions)
  OBVIOUS
<1>2. n \in Nat /\ Len(rs.decisions) = n + 1
  BY <1>1 DEF IsDecided
<1>3. /\ Len(new.steps) = Len(req.steps) /\ new \in RequestRecord
      /\ new.steps[k].decisions = rs.decisions
      /\ \A j \in 1..Len(req.steps) : j # k =>
            new.steps[j].decisions = req.steps[j].decisions
      /\ new.status \in {"pending", "rejected", "approved"}
  BY DEF IsAdvanced
<1>4. <<k, n + 1>> \notin Made(req)
  <2>1. ASSUME NEW l \in 1..Len(req.steps), NEW i \in 1..Len(req.steps[l].decisions),
               <<k, n + 1>> = <<l, i>>
        PROVE  FALSE
    BY <1>1, <1>2, <2>1
  <2> QED BY <2>1, MadeIs
<1>5. Made(new) = Made(req) \cup {<<k, n + 1>>}
  <2>1. ASSUME NEW x \in Made(new) PROVE x \in Made(req) \cup {<<k, n + 1>>}
    <3>1l. PICK l \in 1..Len(new.steps) : \E i \in 1..Len(new.steps[l].decisions) :
              x = <<l, i>>
      BY <1>3, MadeIs
    <3>1. PICK i \in 1..Len(new.steps[l].decisions) : x = <<l, i>>
      BY <3>1l
    <3>2. CASE l = k /\ i = n + 1
      BY <3>1, <3>2
    <3>3. CASE l = k /\ i # n + 1
      <4>1. i \in 1..Len(req.steps[k].decisions)
        BY <1>1, <1>2, <1>3, <3>1, <3>3
      <4> QED BY <3>1, <3>3, <4>1, MadeIs
    <3>4. CASE l # k
      BY <1>3, <3>1, <3>4, MadeIs
    <3> QED BY <3>2, <3>3, <3>4
  <2>2. ASSUME NEW x \in Made(req) PROVE x \in Made(new)
    <3>1l. PICK l \in 1..Len(req.steps) : \E i \in 1..Len(req.steps[l].decisions) :
              x = <<l, i>>
      BY MadeIs
    <3>1. PICK i \in 1..Len(req.steps[l].decisions) : x = <<l, i>>
      BY <3>1l
    <3>2. i \in 1..Len(new.steps[l].decisions)
      <4>1. CASE l = k
        <5>1. i \in 1..n /\ Len(new.steps[l].decisions) = n + 1
          BY <1>1, <1>2, <1>3, <3>1, <4>1
        <5> QED BY <1>2, <5>1
      <4>2. CASE l # k
        <5>1. new.steps[l].decisions = req.steps[l].decisions
          BY <1>3, <4>2
        <5> QED BY <3>1, <5>1
      <4> QED BY <4>1, <4>2
    <3> QED BY <1>3, <3>1, <3>2, MadeIs
  <2>3. <<k, n + 1>> \in Made(new)
    <3>1. n + 1 \in 1..Len(new.steps[k].decisions) /\ k \in 1..Len(new.steps)
      BY <1>2, <1>3
    <3> QED BY <1>3, <3>1, MadeIs
  <2> QED BY <2>1, <2>2, <2>3
<1>6. Closing(history \cup {e}) = Closing(history) /\ Closing(history) = {}
  BY DEF Closing, Counted
<1>7. /\ IsFiniteSet(history) /\ IsFiniteSet(Made(req))
      /\ Cardinality(history) = 1 + Cardinality(Made(req)) + Cardinality(Closing(history))
      /\ Cardinality(Closing(history)) <= 1
  BY DEF Counted
<1>8. /\ IsFiniteSet(history \cup {e})
      /\ Cardinality(history \cup {e}) = Cardinality(history) + 1
  BY <1>7, FS_AddElement
<1>9. /\ IsFiniteSet(Made(new))
      /\ Cardinality(Made(new)) = Cardinality(Made(req)) + 1
  BY <1>4, <1>5, <1>7, FS_AddElement
<1>10. Cardinality(Made(req)) \in Nat /\ Cardinality(Closing(history)) = 0
  BY <1>6, <1>7, FS_CardinalityType, FS_EmptySet
<1>11. Cardinality(history \cup {e}) =
           1 + Cardinality(Made(new)) + Cardinality(Closing(history \cup {e}))
  <2>1. Cardinality(Closing(history \cup {e})) = 0
    BY <1>6, <1>10
  <2> QED BY <1>7, <1>8, <1>9, <1>10, <2>1
<1> QED BY <1>3, <1>6, <1>7, <1>8, <1>9, <1>11 DEF Counted

\* A request that is closed without a decision.
IsClosed(req, new) ==
    /\ new \in RequestRecord /\ new.flowID = req.flowID
    /\ new.status \in {"cancelled", "timeout", "rejected"}
    /\ new.currentStep = req.currentStep /\ Len(new.steps) = Len(req.steps)
    /\ \A j \in 1..Len(req.steps) :
          /\ new.steps[j].order = req.steps[j].order
          /\ new.steps[j].decisions = req.steps[j].decisions
          /\ req.steps[j].order # req.currentStep => new.steps[j].status = req.steps[j].status

LEMMA ClosedFollows ==
    ASSUME NEW req \in RequestRecord, req.status = "pending", NEW new, IsClosed(req, new),
           NEW f, FollowsFlow(req, f)
    PROVE  FollowsFlow(new, f)
<1>1. ASSUME NEW k \in 1..Len(req.steps)
      PROVE  StepOK(f.steps[k], new.steps[k], new.currentStep, new.status)
  <2>1. StepOK(f.steps[k], req.steps[k], req.currentStep, "pending")
    BY DEF FollowsFlow
  <2>2. /\ new.steps[k].order = req.steps[k].order /\ new.currentStep = req.currentStep
        /\ new.steps[k].decisions = req.steps[k].decisions
        /\ req.steps[k].order # req.currentStep => new.steps[k].status = req.steps[k].status
        /\ new.status # "pending"
    BY DEF IsClosed
  <2>3. Agreed(new.steps[k]) <=> Agreed(req.steps[k])
    BY <2>2 DEF Agreed
  <2>4. req.steps[k].order \in Nat /\ req.currentStep \in Nat
    BY RequestFacts
  <2>5. req.steps[k].order < req.currentStep => req.steps[k].order # req.currentStep
    BY <2>4
  <2> QED BY <2>1, <2>2, <2>3, <2>5 DEF StepOK
<1> QED BY <1>1 DEF FollowsFlow, IsClosed

LEMMA ClosedSound ==
    ASSUME NEW req \in RequestRecord, NEW new, IsClosed(req, new),
           NEW history, Sound(req, history), NEW e, e.user = NoUser
    PROVE  Sound(new, history \cup {e})
<1>1. /\ Len(new.steps) = Len(req.steps)
      /\ \A j \in 1..Len(req.steps) :
            /\ new.steps[j].order = req.steps[j].order
            /\ new.steps[j].decisions = req.steps[j].decisions
  BY DEF IsClosed
<1>2. ASSUME NEW h \in history \cup {e}, h.user # NoUser
      PROVE  /\ h.action \notin {"cancel", "timeout"}
             /\ \E l \in 1..Len(new.steps) : \E i \in 1..Len(new.steps[l].decisions) :
                   h.step = new.steps[l].order /\ h.user = new.steps[l].decisions[i].user
  <2>1. h \in history
    BY <1>2
  <2>2. h.action \notin {"cancel", "timeout"}
    BY <1>2, <2>1 DEF Sound
  <2>3l. PICK l \in 1..Len(req.steps) : \E i \in 1..Len(req.steps[l].decisions) :
            h.step = req.steps[l].order /\ h.user = req.steps[l].decisions[i].user
    BY <1>2, <2>1 DEF Sound
  <2> QED BY <1>1, <2>2, <2>3l
<1>3. ASSUME NEW k \in 1..Len(new.steps), NEW i \in 1..Len(new.steps[k].decisions),
             NEW j \in 1..Len(new.steps[k].decisions),
             new.steps[k].decisions[i].user = new.steps[k].decisions[j].user
      PROVE  i = j
  <2>1. new.steps[k].decisions = req.steps[k].decisions /\ k \in 1..Len(req.steps)
    BY <1>1
  <2> QED BY <1>3, <2>1 DEF Sound
<1>4. ASSUME NEW k \in 1..Len(new.steps), NEW l \in 1..Len(new.steps),
             new.steps[k].order = new.steps[l].order
      PROVE  k = l
  BY <1>1, <1>4 DEF Sound
<1> QED BY <1>2, <1>3, <1>4, Zenon DEF Sound

LEMMA ClosedCounted ==
    ASSUME NEW req \in RequestRecord, req.status = "pending", NEW new, IsClosed(req, new),
           NEW history, Counted(req, history),
           NEW e, e.action \in {"cancel", "timeout"}
    PROVE  Counted(new, history \cup {e})
<1>1. /\ Len(new.steps) = Len(req.steps) /\ new \in RequestRecord
      /\ \A j \in 1..Len(req.steps) : new.steps[j].decisions = req.steps[j].decisions
      /\ new.status \in {"cancelled", "timeout", "rejected"}
  BY DEF IsClosed
<1>2. Made(new) = Made(req)
  <2>1. \A x : x \in Made(new) <=> x \in Made(req)
    <3> SUFFICES ASSUME NEW x PROVE x \in Made(new) <=> x \in Made(req)
      OBVIOUS
    <3>1. (\E k \in 1..Len(new.steps) : \E i \in 1..Len(new.steps[k].decisions) : x = <<k, i>>)
             <=> \E k \in 1..Len(req.steps) :
                    \E i \in 1..Len(req.steps[k].decisions) : x = <<k, i>>
      BY <1>1
    <3> QED BY <1>1, <3>1, MadeIs
  <2> QED BY <2>1
<1>3. Closing(history) = {} /\ Closing(history \cup {e}) = {e} /\ e \notin history
  BY DEF Closing, Counted
<1>4. /\ IsFiniteSet(history) /\ IsFiniteSet(Made(req))
      /\ Cardinality(history) = 1 + Cardinality(Made(req)) + Cardinality(Closing(history))
  BY DEF Counted
<1>5. /\ IsFiniteSet(history \cup {e})
      /\ Cardinality(history \cup {e}) = Cardinality(history) + 1
  BY <1>3, <1>4, FS_AddElement
<1>6. /\ Cardinality(Made(req)) \in Nat /\ Cardinality(Closing(history)) = 0
      /\ Cardinality(Closing(history \cup {e})) = 1
  <2>1. Cardinality(Made(req)) \in Nat
    BY <1>4, FS_CardinalityType
  <2>2. Cardinality({}) = 0 /\ Cardinality({e}) = 1
    BY FS_EmptySet, FS_Singleton
  <2> QED BY <1>3, <2>1, <2>2
<1>7. Cardinality(history \cup {e}) =
          1 + Cardinality(Made(new)) + Cardinality(Closing(history \cup {e}))
  <2>1. PICK a : a = Cardinality(Made(req))
    OBVIOUS
  <2>2. Cardinality(history) = 1 + a /\ a \in Nat
    BY <1>4, <1>6, <2>1
  <2>3. Cardinality(history \cup {e}) = 1 + a + 1
    BY <1>5, <2>2
  <2> QED BY <1>2, <1>6, <2>1, <2>3
<1>8. PICK after : after = history \cup {e}
  OBVIOUS
<1>9. Closing(after) # {} /\ Cardinality(Closing(after)) = 1
  BY <1>3, <1>6, <1>8
<1>10. /\ IsFiniteSet(after) /\ IsFiniteSet(Made(new))
       /\ Cardinality(after) = 1 + Cardinality(Made(new)) + Cardinality(Closing(after))
  BY <1>2, <1>4, <1>5, <1>7, <1>8
<1>11. Counted(new, after)
  BY <1>1, <1>9, <1>10 DEF Counted
<1> QED BY <1>8, <1>11

\* A request that was just submitted.
LEMMA Submitted ==
    ASSUME NEW f \in FlowType, Validate(f), NEW id \in FlowIDs,
           NEW e, e.user = NoUser, e.action = "submit",
           NEW new, new =
              [status |-> "pending", flowID |-> id, currentStep |-> 1,
               steps |-> [i \in DOMAIN f.steps |->
                            [order |-> f.steps[i].order, status |-> "pending",
                             decisions |-> <<>>, started |-> f.steps[i].order = 1]]]
    PROVE  /\ new \in RequestRecord /\ new.flowID = id
           /\ FollowsFlow(new, f) /\ Sound(new, {e}) /\ Counted(new, {e})
<1> DEFINE n == Len(f.steps)
           rec(i) == [order |-> f.steps[i].order, status |-> "pending",
                      decisions |-> <<>>, started |-> f.steps[i].order = 1]
           ss == [i \in 1..n |-> rec(i)]
<1>1. /\ n \in Nat /\ n > 0 /\ DOMAIN f.steps = 1..n /\ LastOrder(f) \in Nat /\ LastOrder(f) >= 1
      /\ \A i \in 1..n : /\ f.steps[i].order \in Nat /\ f.steps[i].order >= 1
                         /\ Len(f.steps[i].approvers) \in Nat /\ Len(f.steps[i].approvers) > 0
      /\ \A i, j \in 1..n : i < j => f.steps[i].order < f.steps[j].order
  BY FlowFacts
<1>2. \A i \in 1..n : rec(i) \in StepRecord
  <2>1. <<>> \in Seq([user : Users, action : {"approve", "reject"}])
    BY EmptySeq
  <2> QED BY <1>1, <2>1 DEF StepRecord, Statuses
<1>3. \A i \in 1..n : /\ rec(i).order = f.steps[i].order /\ rec(i).decisions = <<>>
                      /\ Len(rec(i).decisions) = 0
  OBVIOUS
<1>4. new = [status |-> "pending", flowID |-> id, currentStep |-> 1, steps |-> ss]
  BY <1>1
<1> HIDE DEF rec, n
<1>5. ss \in Seq(StepRecord) /\ Len(ss) = n /\ \A i \in 1..n : ss[i] = rec(i)
  <2>1. ss \in [1..n -> StepRecord]
    BY <1>2
  <2>2. \A i \in 1..n : ss[i] = rec(i)
    OBVIOUS
  <2> HIDE DEF ss
  <2>3. ss \in Seq(StepRecord) /\ Len(ss) = n
    BY <1>1, <2>1
  <2> QED BY <2>2, <2>3
<1> HIDE DEF ss
<1>6. /\ new \in RequestRecord /\ new.flowID = id /\ new.steps = ss
      /\ new.status = "pending" /\ new.currentStep = 1
  BY <1>4, <1>5 DEF RequestRecord, Statuses
<1>7. /\ Len(new.steps) = n
      /\ \A k \in 1..n : new.steps[k].order = f.steps[k].order /\ Len(new.steps[k].decisions) = 0
  BY <1>3, <1>5, <1>6
<1>8. \A k \in 1..n : StepOK(f.steps[k], new.steps[k], new.currentStep, new.status)
  <2> SUFFICES ASSUME NEW k \in 1..n
               PROVE  StepOK(f.steps[k], new.steps[k], 1, "pending")
    BY <1>6
  <2>1. /\ new.steps[k].order = f.steps[k].order /\ Len(new.steps[k].decisions) = 0
        /\ f.steps[k].order \in Nat /\ f.steps[k].order >= 1
        /\ Len(f.steps[k].approvers) \in Nat /\ Len(f.steps[k].approvers) > 0
    BY <1>1, <1>7
  <2>2. \A j \in 1..Len(new.steps[k].decisions) : FALSE
    BY <2>1
  <2> QED BY <2>1, <2>2 DEF StepOK, Agreed
<1>9. FollowsFlow(new, f)
  <2>1. Len(new.steps) = Len(f.steps)
    BY <1>7 DEF n
  <2>2. \A k \in 1..Len(new.steps) :
            StepOK(f.steps[k], new.steps[k], new.currentStep, new.status)
    BY <1>7, <1>8
  <2>3. new.currentStep >= 1 /\ new.currentStep <= LastOrder(f) /\ new.status # "approved"
    BY <1>1, <1>6
  <2> QED BY <2>1, <2>2, <2>3 DEF FollowsFlow
<1>10. Sound(new, {e})
  <2>1. \A k, l \in 1..n : new.steps[k].order = new.steps[l].order => k = l
    BY <1>1, <1>7
  <2> QED BY <1>7, <2>1 DEF Sound
<1>11. Made(new) = {}
  <2> SUFFICES ASSUME NEW x \in Made(new) PROVE FALSE
    OBVIOUS
  <2>1. \E k \in 1..Len(new.steps) : \E i \in 1..Len(new.steps[k].decisions) : x = <<k, i>>
    BY <1>6, MadeIs
  <2> QED BY <1>7, <2>1
<1>12. Closing({e}) = {}
  BY DEF Closing
<1>13. /\ IsFiniteSet({e}) /\ IsFiniteSet({}) /\ Cardinality({e}) = 1 /\ Cardinality({}) = 0
  BY FS_EmptySet, FS_Singleton
<1>14. Counted(new, {e})
  <2>1. PICK timeline : timeline = {e}
    OBVIOUS
  <2>2. /\ IsFiniteSet(timeline) /\ IsFiniteSet(Made(new)) /\ Cardinality(timeline) = 1
        /\ Cardinality(Made(new)) = 0 /\ Closing(timeline) = {}
        /\ Cardinality(Closing(timeline)) = 0
    BY <1>11, <1>12, <1>13, <2>1
  <2>3. Counted(new, timeline)
    BY <1>6, <2>2 DEF Counted
  <2> QED BY <2>1, <2>3
<1> QED BY <1>6, <1>9, <1>10, <1>14
-----------------------------------------------------------------------------
(***************************************************************************)
(* The invariant holds in every state.                                     *)
(***************************************************************************)
LEMMA InitInv == Init => AInv
<1> SUFFICES ASSUME Init PROVE AInv
  OBVIOUS
<1>1. \A r \in Requests : requests[r] = Absent
  BY DEF Init
<1>2. Types
  BY DEF Init, Types
<1>3. \A r \in steady : FALSE
  BY DEF Init
<1> QED BY <1>1, <1>2, <1>3 DEF AInv

\* An operation that touches flows, or none, and no request.
LEMMA FlowChange ==
    ASSUME AInv, Types', requests' = requests, histories' = histories,
           steady' \subseteq steady,
           \A r \in steady' : flows'[requests[r].flowID] = flows[requests[r].flowID]
    PROVE  AInv'
<1>1. ASSUME NEW r \in steady'
      PROVE  /\ requests'[r] # Absent /\ FlowOf(r)' # NoFlow
             /\ FollowsFlow(requests'[r], FlowOf(r)')
  <2>1. requests[r] # Absent /\ FlowOf(r) # NoFlow /\ FollowsFlow(requests[r], FlowOf(r))
    BY DEF AInv
  <2>2. FlowOf(r)' = FlowOf(r) /\ requests'[r] = requests[r]
    BY DEF FlowOf
  <2> QED BY <2>1, <2>2
<1>2. ASSUME NEW r \in Requests, requests'[r] # Absent
      PROVE  Sound(requests'[r], histories'[r]) /\ Counted(requests'[r], histories'[r])
  BY <1>2 DEF AInv
<1> QED BY <1>1, <1>2 DEF AInv

\* An operation on one request.
LEMMA RequestChange ==
    ASSUME AInv, NEW r \in Requests, NEW new \in RequestRecord, NEW timeline \in SUBSET Entry,
           requests' = [requests EXCEPT ![r] = new],
           histories' = [histories EXCEPT ![r] = timeline],
           flows' = flows, steady' \subseteq steady \cup {r},
           expired' \subseteq Requests, overdue' \subseteq Requests,
           Sound(new, timeline), Counted(new, timeline),
           r \in steady' => /\ flows[new.flowID] # NoFlow
                            /\ FollowsFlow(new, flows[new.flowID])
    PROVE  AInv'
<1>1. Types
  BY DEF AInv
<1>2. requests' \in [Requests -> RequestRecord \cup {Absent}]
  BY <1>1 DEF Types
<1>3. histories' \in [Requests -> SUBSET Entry]
  BY <1>1 DEF Types
<1>4. Types'
  BY <1>1, <1>2, <1>3 DEF Types
<1>5. /\ requests'[r] = new /\ histories'[r] = timeline
      /\ \A q \in Requests : q # r => /\ requests'[q] = requests[q]
                                      /\ histories'[q] = histories[q]
  BY <1>1 DEF Types
<1>6. new # Absent
  BY RequestFacts
<1>7. ASSUME NEW q \in steady'
      PROVE  /\ requests'[q] # Absent /\ FlowOf(q)' # NoFlow
             /\ FollowsFlow(requests'[q], FlowOf(q)')
  <2>1. CASE q = r
    <3>1. FlowOf(q)' = flows[new.flowID]
      BY <1>5, <2>1 DEF FlowOf
    <3> QED BY <1>5, <1>6, <1>7, <2>1, <3>1
  <2>2. CASE q # r
    <3>1. q \in steady /\ q \in Requests
      BY <1>1, <1>7, <2>2 DEF Types
    <3>2. requests[q] # Absent /\ FlowOf(q) # NoFlow /\ FollowsFlow(requests[q], FlowOf(q))
      BY <3>1 DEF AInv
    <3>3. requests'[q] = requests[q] /\ FlowOf(q)' = FlowOf(q)
      BY <1>5, <2>2, <3>1 DEF FlowOf
    <3> QED BY <3>2, <3>3
  <2> QED BY <2>1, <2>2
<1>8. ASSUME NEW q \in Requests, requests'[q] # Absent
      PROVE  Sound(requests'[q], histories'[q]) /\ Counted(requests'[q], histories'[q])
  <2>1. CASE q = r
    BY <1>5, <2>1
  <2>2. CASE q # r
    BY <1>5, <1>8, <2>2 DEF AInv
  <2> QED BY <2>1, <2>2
<1> QED BY <1>4, <1>7, <1>8 DEF AInv

\* What the invariant says of one request and its flow.
LEMMA OneRequest ==
    ASSUME AInv, NEW r \in Requests, requests[r] # Absent
    PROVE  /\ requests[r] \in RequestRecord
           /\ Sound(requests[r], histories[r]) /\ Counted(requests[r], histories[r])
           /\ histories[r] \in SUBSET Entry
           /\ flows[requests[r].flowID] # NoFlow =>
                 /\ flows[requests[r].flowID] \in FlowType
                 /\ Validate(flows[requests[r].flowID])
           /\ r \in steady => /\ flows[requests[r].flowID] # NoFlow
                              /\ FollowsFlow(requests[r], flows[requests[r].flowID])
<1>1. Types
  BY DEF AInv
<1>2. requests[r] \in RequestRecord /\ histories[r] \in SUBSET Entry
  BY <1>1 DEF Types
<1>3. requests[r].flowID \in FlowIDs
  BY <1>2 DEF RequestRecord
<1>4. flows[requests[r].flowID] # NoFlow =>
         /\ flows[requests[r].flowID] \in Definitions /\ Validate(flows[requests[r].flowID])
  BY <1>1, <1>3 DEF Types
<1>5. \A f \in Definitions : f \in FlowType
  BY DefinitionsAssumption DEF FlowType
<1>6. r \in steady => /\ flows[requests[r].flowID] # NoFlow
                      /\ FollowsFlow(requests[r], flows[requests[r].flowID])
  BY DEF AInv, FlowOf
<1> QED BY <1>2, <1>4, <1>5, <1>6 DEF AInv

\* A decision, broken down to what the lemmas above say of it.
DecisionFacts(r, u, action, f, i, k, rs, new, e) ==
    /\ requests[r] # Absent /\ requests[r].status = "pending"
    /\ f = flows[requests[r].flowID] /\ f # NoFlow
    /\ i = StepByOrder(f.steps, requests[r].currentStep) /\ i # 0
    /\ k = StepByOrder(requests[r].steps, requests[r].currentStep) /\ k # 0
    /\ u \in ToSet(f.steps[i].approvers) /\ u \notin Deciders(requests[r].steps[k])
    /\ InTurn(f.steps[i], requests[r].steps[k], u)
    /\ IsDecided(requests[r].steps[k], rs, u, action)
    /\ IsAdvanced(requests[r], new, k, rs, f.steps[i].order, LastOrder(f),
                  evaluateStep(f.steps[i], rs))
    /\ e \in Entry /\ e.user = u /\ e.step = requests[r].currentStep
    /\ e.action \notin {"cancel", "timeout"}
    /\ requests' = [requests EXCEPT ![r] = new]
    /\ histories' = [histories EXCEPT ![r] = @ \cup {e}]
    /\ overdue' \subseteq overdue /\ flows' = flows /\ expired' = expired /\ steady' = steady

LEMMA DecisionIs ==
    ASSUME AInv, NEW r \in Requests, NEW u \in Users, NEW action \in {"approve", "reject"},
           applyDecision(r, u, action)
    PROVE  \E f, i, k, rs, new, e : DecisionFacts(r, u, action, f, i, k, rs, new, e)
<1> DEFINE req == requests[r]
           f == flows[req.flowID]
           i == StepByOrder(f.steps, req.currentStep)
           k == StepByOrder(req.steps, req.currentStep)
           rs == [req.steps[k] EXCEPT !.decisions = Append(@, [user |-> u, action |-> action])]
           new == Advanced(req, f, i, k, rs)
           moved == new.status = "pending" /\ new.currentStep # req.currentStep
           act == IF moved THEN "step_advance" ELSE action
           e == [action |-> act, user |-> u, step |-> req.currentStep]
<1>1. /\ req # Absent /\ validateDecision(r, u, FALSE)
      /\ requests' = [requests EXCEPT ![r] = new]
      /\ histories' = [histories EXCEPT ![r] = @ \cup {e}]
      /\ overdue' = IF moved THEN overdue \ {r} ELSE overdue
      /\ UNCHANGED <<flows, expired, steady>>
  BY DEF applyDecision
<1>2. /\ req.status = "pending" /\ f # NoFlow /\ i # 0 /\ k # 0
      /\ u \in ToSet(f.steps[i].approvers) /\ u \notin Deciders(req.steps[k])
      /\ InTurn(f.steps[i], req.steps[k], u)
  BY <1>1 DEF validateDecision
<1>3. req \in RequestRecord /\ f \in FlowType /\ Validate(f)
  BY <1>1, <1>2, OneRequest
<1>4. /\ k \in 1..Len(req.steps) /\ req.steps[k] \in StepRecord /\ Len(req.steps) \in Nat
      /\ req.currentStep \in Nat
  BY <1>2, <1>3, RequestFacts, StepAt
<1>5. /\ i \in 1..Len(f.steps) /\ f.steps[i].order \in Nat /\ LastOrder(f) \in Nat
      /\ Len(f.steps) \in Nat
  BY <1>2, <1>3, FlowFacts, StepAt
<1>6. IsDecided(req.steps[k], rs, u, action)
  BY <1>4, DecidedStep
<1>7. rs \in StepRecord
  BY <1>6 DEF IsDecided
<1>8. IsAdvanced(req, new, k, rs, f.steps[i].order, LastOrder(f), evaluateStep(f.steps[i], rs))
  BY <1>3, <1>4, <1>5, <1>7, AdvancedIs
<1> HIDE DEF rs, new, f, i, k, moved
<1>9. act \in {"step_advance", "approve", "reject"}
  OBVIOUS
<1>10. overdue' \subseteq overdue
  BY <1>1
<1> HIDE DEF act
<1>11. /\ e \in Entry /\ e.user = u /\ e.step = req.currentStep
       /\ e.action \notin {"cancel", "timeout"}
  BY <1>4, <1>9 DEF Entry
<1> HIDE DEF e
<1>12. /\ f = flows[requests[r].flowID] /\ i = StepByOrder(f.steps, requests[r].currentStep)
       /\ k = StepByOrder(requests[r].steps, requests[r].currentStep)
  BY DEF f, i, k
<1>13. DecisionFacts(r, u, action, f, i, k, rs, new, e)
  BY <1>1, <1>2, <1>6, <1>8, <1>10, <1>11, <1>12, Zenon DEF DecisionFacts
<1> QED BY <1>13

\* Approve and Reject keep the invariant.
LEMMA DecisionInv ==
    ASSUME AInv, NEW r \in Requests, NEW u \in Users, NEW action \in {"approve", "reject"},
           applyDecision(r, u, action)
    PROVE  AInv'
<1>1. PICK f, i, k, rs, new, e : DecisionFacts(r, u, action, f, i, k, rs, new, e)
  BY DecisionIs
<1>2. PICK req : req = requests[r]
  OBVIOUS
<1>3. /\ req # Absent /\ req.status = "pending"
      /\ f = flows[req.flowID] /\ f # NoFlow
      /\ i = StepByOrder(f.steps, req.currentStep) /\ i # 0
      /\ k = StepByOrder(req.steps, req.currentStep) /\ k # 0
      /\ u \in ToSet(f.steps[i].approvers) /\ u \notin Deciders(req.steps[k])
      /\ InTurn(f.steps[i], req.steps[k], u)
      /\ IsDecided(req.steps[k], rs, u, action)
      /\ IsAdvanced(req, new, k, rs, f.steps[i].order, LastOrder(f),
                    evaluateStep(f.steps[i], rs))
  BY <1>1, <1>2, Zenon DEF DecisionFacts
<1>4. /\ e \in Entry /\ e.user = u /\ e.step = req.currentStep
      /\ e.action \notin {"cancel", "timeout"}
      /\ requests' = [requests EXCEPT ![r] = new]
      /\ histories' = [histories EXCEPT ![r] = histories[r] \cup {e}]
      /\ overdue' \subseteq overdue /\ flows' = flows /\ expired' = expired /\ steady' = steady
  BY <1>1, <1>2, Zenon DEF DecisionFacts
<1>5. /\ req \in RequestRecord /\ Sound(req, histories[r]) /\ Counted(req, histories[r])
      /\ histories[r] \in SUBSET Entry /\ f \in FlowType /\ Validate(f)
      /\ r \in steady => FollowsFlow(req, f)
  BY <1>2, <1>3, OneRequest
<1>6. k \in 1..Len(req.steps) /\ req.steps[k].order = req.currentStep
  BY <1>3, <1>5, RequestFacts, StepAt
<1>7. Sound(new, histories[r] \cup {e}) /\ e \notin histories[r]
  BY <1>3, <1>4, <1>5, <1>6, DecisionSound
<1>8. Counted(new, histories[r] \cup {e})
  BY <1>3, <1>4, <1>5, <1>6, <1>7, DecisionCounted
<1>9. new \in RequestRecord /\ new.flowID = req.flowID
  BY <1>3 DEF IsAdvanced
<1>10. r \in steady => FollowsFlow(new, f)
  <2> SUFFICES ASSUME r \in steady PROVE FollowsFlow(new, f)
    OBVIOUS
  <2>1. FollowsFlow(req, f)
    BY <1>5
  <2>2. i = k
    BY <1>3, <1>5, <2>1, SameStep
  <2> QED BY <1>3, <1>5, <1>6, <2>1, <2>2, DecisionFollows
<1>11. PICK timeline : timeline = histories[r] \cup {e}
  OBVIOUS
<1>12. timeline \in SUBSET Entry /\ histories' = [histories EXCEPT ![r] = timeline]
  BY <1>4, <1>5, <1>11
<1>13. /\ steady' \subseteq steady \cup {r} /\ expired' \subseteq Requests
       /\ overdue' \subseteq Requests
  BY <1>4 DEF AInv, Types
<1>14. r \in steady' => flows[new.flowID] # NoFlow /\ FollowsFlow(new, flows[new.flowID])
  BY <1>3, <1>4, <1>9, <1>10
<1> QED BY <1>4, <1>7, <1>8, <1>9, <1>11, <1>12, <1>13, <1>14, RequestChange

\* Cancel and CheckTimeout keep it: a request is closed.
LEMMA CloseInv ==
    ASSUME AInv, NEW r \in Requests, requests[r].status = "pending",
           NEW new, IsClosed(requests[r], new),
           NEW action \in {"cancel", "timeout"}, NEW step \in Nat, Close(r, new, action, step)
    PROVE  AInv'
<1>1. PICK req : req = requests[r]
  OBVIOUS
<1>2. PICK e : e = [action |-> action, user |-> NoUser, step |-> step]
  OBVIOUS
<1>3. e \in Entry /\ e.user = NoUser /\ e.action \in {"cancel", "timeout"}
  BY <1>2 DEF Entry
<1>4. /\ requests' = [requests EXCEPT ![r] = new]
      /\ histories' = [histories EXCEPT ![r] = histories[r] \cup {e}]
      /\ flows' = flows /\ expired' = expired /\ overdue' = overdue /\ steady' = steady
  BY <1>2 DEF Close
<1>5. req # Absent /\ req.status = "pending" /\ IsClosed(req, new)
  BY <1>1 DEF Absent
<1>6. /\ req \in RequestRecord /\ Sound(req, histories[r]) /\ Counted(req, histories[r])
      /\ histories[r] \in SUBSET Entry
      /\ r \in steady => flows[req.flowID] # NoFlow /\ FollowsFlow(req, flows[req.flowID])
  BY <1>1, <1>5, OneRequest
<1>7. Sound(new, histories[r] \cup {e})
  BY <1>3, <1>5, <1>6, ClosedSound
<1>8. Counted(new, histories[r] \cup {e})
  BY <1>3, <1>5, <1>6, ClosedCounted
<1>9. new \in RequestRecord /\ new.flowID = req.flowID
  BY <1>5 DEF IsClosed
<1>10. r \in steady => FollowsFlow(new, flows[req.flowID])
  BY <1>5, <1>6, ClosedFollows
<1>11. PICK timeline : timeline = histories[r] \cup {e}
  OBVIOUS
<1>12. timeline \in SUBSET Entry /\ histories' = [histories EXCEPT ![r] = timeline]
  BY <1>3, <1>4, <1>6, <1>11
<1>13. /\ steady' \subseteq steady \cup {r} /\ expired' \subseteq Requests
       /\ overdue' \subseteq Requests
  BY <1>4 DEF AInv, Types
<1>14. r \in steady' => flows[new.flowID] # NoFlow /\ FollowsFlow(new, flows[new.flowID])
  BY <1>4, <1>6, <1>9, <1>10
<1> QED BY <1>4, <1>7, <1>8, <1>9, <1>11, <1>12, <1>13, <1>14, RequestChange

LEMMA SubmitInv ==
    ASSUME AInv, NEW r \in Requests, NEW id \in FlowIDs, Submit(r, id)
    PROVE  AInv'
<1>1. PICK f : f = flows[id]
  OBVIOUS
<1>2. PICK e : e = [action |-> "submit", user |-> NoUser, step |-> 0]
  OBVIOUS
<1>3. PICK new : new =
          [status |-> "pending", flowID |-> id, currentStep |-> 1,
           steps |-> [i \in DOMAIN f.steps |->
                        [order |-> f.steps[i].order, status |-> "pending",
                         decisions |-> <<>>, started |-> f.steps[i].order = 1]]]
  OBVIOUS
<1>4. /\ f # NoFlow /\ requests' = [requests EXCEPT ![r] = new]
      /\ histories' = [histories EXCEPT ![r] = {e}]
      /\ steady' = steady \cup {r} /\ flows' = flows /\ expired' = expired /\ overdue' = overdue
  BY <1>1, <1>2, <1>3 DEF Submit
<1>5. f \in Definitions /\ Validate(f)
  BY <1>1, <1>4 DEF AInv, Types
<1>6. f \in FlowType
  BY <1>5, DefinitionsAssumption DEF FlowType
<1>7. e \in Entry /\ e.user = NoUser /\ e.action = "submit"
  BY <1>2 DEF Entry
<1>8. /\ new \in RequestRecord /\ new.flowID = id
      /\ FollowsFlow(new, f) /\ Sound(new, {e}) /\ Counted(new, {e})
  BY <1>3, <1>5, <1>6, <1>7, Submitted
<1>9. PICK timeline : timeline = {e}
  OBVIOUS
<1>10. timeline \in SUBSET Entry /\ histories' = [histories EXCEPT ![r] = timeline]
  BY <1>4, <1>7, <1>9
<1>11. expired' \subseteq Requests /\ overdue' \subseteq Requests
  BY <1>4 DEF AInv, Types
<1> QED BY <1>1, <1>4, <1>8, <1>9, <1>10, <1>11, RequestChange

LEMMA CancelInv ==
    ASSUME AInv, NEW r \in Requests, Cancel(r)
    PROVE  AInv'
<1>1. PICK req : req = requests[r]
  OBVIOUS
<1>2. PICK new : new = [req EXCEPT !.status = "cancelled"]
  OBVIOUS
<1>3. req.status = "pending" /\ Close(r, new, "cancel", 0)
  BY <1>1, <1>2 DEF Cancel
<1>4. req \in RequestRecord
  BY <1>1, <1>3, OneRequest DEF Absent
<1>5. IsClosed(req, new)
  BY <1>2, <1>4 DEF IsClosed, RequestRecord, Statuses
<1> QED BY <1>1, <1>3, <1>5, CloseInv

LEMMA TimeoutInv ==
    ASSUME AInv, NEW r \in Requests, CheckTimeout(r)
    PROVE  AInv'
<1>1. PICK req : req = requests[r]
  OBVIOUS
<1>2. PICK k : k = StepByOrder(req.steps, req.currentStep)
  OBVIOUS
<1>3. req.status = "pending"
  BY <1>1 DEF CheckTimeout
<1>4. req \in RequestRecord
  BY <1>1, <1>3, OneRequest DEF Absent
<1>5. CASE Close(r, [req EXCEPT !.status = "timeout"], "timeout", 0)
  <2>1. PICK new : new = [req EXCEPT !.status = "timeout"]
    OBVIOUS
  <2>2. IsClosed(req, new)
    BY <2>1, <1>4 DEF IsClosed, RequestRecord, Statuses
  <2> QED BY <1>1, <1>3, <1>5, <2>1, <2>2, CloseInv
<1>6. CASE k # 0 /\ StepTimeout(r)
  <2>1. PICK new : new = [req EXCEPT !.steps[k].status = "rejected", !.status = "rejected"]
    OBVIOUS
  <2>2. Close(r, new, "timeout", req.currentStep)
    BY <1>1, <1>2, <1>6, <2>1 DEF StepTimeout
  <2>3. /\ k \in 1..Len(req.steps) /\ req.steps[k].order = req.currentStep
        /\ req.steps[k] \in StepRecord /\ req.steps \in Seq(StepRecord)
        /\ Len(req.steps) \in Nat /\ req.currentStep \in Nat
    BY <1>2, <1>4, <1>6, RequestFacts, StepAt
  <2>4. PICK rs : rs = [req.steps[k] EXCEPT !.status = "rejected"]
    OBVIOUS
  <2>5. /\ rs \in StepRecord /\ rs.order = req.steps[k].order
        /\ rs.decisions = req.steps[k].decisions
    BY <2>3, <2>4 DEF StepRecord, Statuses
  <2>6. PICK ss : ss = [req.steps EXCEPT ![k] = rs]
    OBVIOUS
  <2>7. /\ ss \in Seq(StepRecord) /\ Len(ss) = Len(req.steps) /\ ss[k] = rs
        /\ \A j \in 1..Len(req.steps) : j # k => ss[j] = req.steps[j]
    BY <2>3, <2>5, <2>6, Replaced
  <2>8. new = [req EXCEPT !.steps = ss, !.status = "rejected"]
    BY <1>4, <2>1, <2>4, <2>6 DEF RequestRecord
  <2>9. /\ new \in RequestRecord /\ new.flowID = req.flowID /\ new.status = "rejected"
        /\ new.currentStep = req.currentStep /\ new.steps = ss
    BY <1>4, <2>7, <2>8 DEF RequestRecord, Statuses
  <2>10. ASSUME NEW j \in 1..Len(req.steps)
         PROVE  /\ new.steps[j].order = req.steps[j].order
                /\ new.steps[j].decisions = req.steps[j].decisions
                /\ req.steps[j].order # req.currentStep =>
                      new.steps[j].status = req.steps[j].status
    BY <2>3, <2>5, <2>7, <2>9
  <2>11. IsClosed(req, new)
    BY <2>7, <2>9, <2>10 DEF IsClosed
  <2> QED BY <1>1, <1>3, <2>2, <2>3, <2>11, CloseInv
<1> QED BY <1>1, <1>2, <1>5, <1>6 DEF CheckTimeout

LEMMA NextInv ==
    ASSUME AInv, [Next]_vars
    PROVE  AInv'
<1>t. Types
  BY DEF AInv
<1>1. ASSUME NEW id \in FlowIDs, NEW f \in Definitions, CreateFlow(id, f)
      PROVE  AInv'
  <2>1. Types'
    BY <1>1, <1>t DEF CreateFlow, Types
  <2>2. ASSUME NEW r \in steady'
        PROVE  flows'[requests[r].flowID] = flows[requests[r].flowID]
    <3>1. flows[requests[r].flowID] # NoFlow
      BY <1>1 DEF CreateFlow, AInv, FlowOf
    <3>2. requests[r].flowID # id
      BY <1>1, <3>1 DEF CreateFlow
    <3>3. requests[r] # Absent /\ r \in Requests
      BY <1>1, <1>t DEF CreateFlow, AInv, Types
    <3>4. requests[r].flowID \in FlowIDs
      BY <3>3, OneRequest DEF RequestRecord
    <3> QED BY <1>1, <1>t, <3>2, <3>4 DEF CreateFlow, Types
  <2> QED BY <1>1, <2>1, <2>2, FlowChange DEF CreateFlow
<1>2. ASSUME NEW id \in FlowIDs, NEW f \in Definitions \cup {NoFlow},
             f # NoFlow => Validate(f), Touch(id),
             flows' = [flows EXCEPT ![id] = f],
             UNCHANGED <<requests, histories, expired, overdue>>
      PROVE  AInv'
  <2>1. Types'
    BY <1>2, <1>t DEF Types, Touch
  <2>2. steady' \subseteq steady
    BY <1>2 DEF Touch
  <2>3. \A r \in steady' : flows'[requests[r].flowID] = flows[requests[r].flowID]
    BY <1>2, <1>t DEF Touch, Types
  <2> QED BY <1>2, <2>1, <2>2, <2>3, FlowChange
<1>3. ASSUME NEW r \in Requests, Expire(r) \/ FallDue(r)
      PROVE  AInv'
  <2>1. Types'
    BY <1>3, <1>t DEF Expire, FallDue, Types
  <2> QED BY <1>3, <2>1, FlowChange DEF Expire, FallDue
<1>4. CASE UNCHANGED vars
  <2>1. Types'
    BY <1>4, <1>t DEF vars, Types
  <2> QED BY <1>4, <2>1, FlowChange DEF vars
<1>5. ASSUME NEW id \in FlowIDs, NEW f \in Definitions, UpdateFlow(id, f)
      PROVE  AInv'
  BY <1>2, <1>5 DEF UpdateFlow
<1>6. ASSUME NEW id \in FlowIDs, DeleteFlow(id)
      PROVE  AInv'
  BY <1>2, <1>6 DEF DeleteFlow
<1>7. ASSUME NEW id \in FlowIDs, NEW r \in Requests, Submit(r, id)
      PROVE  AInv'
  BY <1>7, SubmitInv
<1>8. ASSUME NEW r \in Requests, NEW u \in Users, NEW action \in {"approve", "reject"},
             applyDecision(r, u, action)
      PROVE  AInv'
  BY <1>8, DecisionInv
<1>9. ASSUME NEW r \in Requests, Cancel(r) \/ CheckTimeout(r)
      PROVE  AInv'
  BY <1>9, CancelInv, TimeoutInv
<1> QED BY <1>1, <1>3, <1>4, <1>5, <1>6, <1>7, <1>8, <1>9, Zenon DEF Next

\* The invariant the theorems below rest on holds in every state of the engine.
THEOREM EngineInv == Spec => []AInv
<1>1. Init => AInv
  BY InitInv
<1>2. AInv /\ [Next]_vars => AInv'
  BY NextInv
<1> QED BY <1>1, <1>2, PTL DEF Spec
-----------------------------------------------------------------------------
(***************************************************************************)
(* What the invariant gives.                                               *)
(***************************************************************************)

\* The engine keeps values of their kind: every operation of internal/approval
\* leaves validated flows and well-typed requests, steps and decisions.
THEOREM TypeCorrect == Spec => []TypeOK
<1>1. ASSUME AInv PROVE TypeOK
  <2>1. Types
    BY <1>1 DEF AInv
  <2>2. \A id \in FlowIDs : flows[id] # NoFlow => flows[id] \in Definitions /\ Validate(flows[id])
    BY <2>1 DEF Types
  <2>3. ASSUME NEW r \in Requests, requests[r] # Absent
        PROVE  /\ requests[r].status \in Statuses /\ requests[r].flowID \in FlowIDs
               /\ requests[r].currentStep \in Nat
               /\ \A i \in DOMAIN requests[r].steps : requests[r].steps[i] \in StepRecord
    <3>1. requests[r] \in RequestRecord
      BY <1>1, <2>3, OneRequest
    <3>2. \A i \in DOMAIN requests[r].steps : requests[r].steps[i] \in StepRecord
      BY <3>1, RequestFacts
    <3> QED BY <3>1, <3>2 DEF RequestRecord
  <2> QED BY <2>1, <2>2, <2>3 DEF TypeOK, Types
<1> QED BY <1>1, EngineInv, PTL

\* What the invariant says of a request whose flow nobody has touched.
LEMMA SteadyFacts ==
    ASSUME AInv, NEW r \in steady
    PROVE  /\ requests[r] \in RequestRecord /\ FlowOf(r) \in FlowType /\ Validate(FlowOf(r))
           /\ FlowOf(r) # NoFlow /\ FollowsFlow(requests[r], FlowOf(r))
           /\ Sound(requests[r], histories[r])
<1>1. r \in Requests /\ requests[r] # Absent /\ FlowOf(r) # NoFlow
  BY DEF AInv, Types
<1> QED BY <1>1, OneRequest DEF FlowOf

\* Approval means agreement: Approve makes a request approved only when, in every
\* step of its flow, everybody asked has agreed (or, where one is enough, one of
\* them), for flows of any length, with gaps and with approvers named twice.
THEOREM Agreement == Spec => []ApprovedByAll
<1>1. ASSUME AInv PROVE ApprovedByAll
  <2> SUFFICES ASSUME NEW r \in steady, requests[r].status = "approved",
                      NEW k \in DOMAIN FlowOf(r).steps
               PROVE  LET rs == requests[r].steps[k]
                          approvers == ToSet(FlowOf(r).steps[k].approvers)
                      IN  /\ rs.status = "approved" /\ Actions(rs) = {"approve"}
                          /\ IF FlowOf(r).steps[k].mode = "anyof"
                             THEN Deciders(rs) \subseteq approvers
                             ELSE Deciders(rs) = approvers
    BY DEF ApprovedByAll
  <2>1. PICK req : req = requests[r]
    OBVIOUS
  <2>2. PICK f : f = FlowOf(r)
    OBVIOUS
  <2>3. /\ req \in RequestRecord /\ f \in FlowType /\ Validate(f) /\ FollowsFlow(req, f)
        /\ Sound(req, histories[r]) /\ req.status = "approved"
    BY <1>1, <2>1, <2>2, SteadyFacts
  <2>4. PICK st : st = f.steps[k]
    OBVIOUS
  <2>5. PICK rs : rs = req.steps[k]
    OBVIOUS
  <2>6. /\ k \in 1..Len(f.steps) /\ st.order <= LastOrder(f) /\ LastOrder(f) \in Nat
        /\ st.order \in Nat /\ Len(st.approvers) \in Nat
        /\ DOMAIN st.approvers = 1..Len(st.approvers)
    BY <2>2, <2>3, <2>4, FlowFacts
  <2>7. k \in 1..Len(req.steps) /\ StepOK(st, rs, req.currentStep, "approved")
    BY <2>3, <2>4, <2>5, <2>6 DEF FollowsFlow
  <2>8. Len(rs.decisions) \in Nat /\ DOMAIN rs.decisions = 1..Len(rs.decisions)
    BY <2>3, <2>5, <2>7, RequestFacts
  <2>9. req.currentStep \in Nat /\ req.currentStep > LastOrder(f)
    BY <2>3, RequestFacts DEF FollowsFlow
  <2>10. /\ rs.status = "approved" /\ Agreed(rs) /\ Len(rs.decisions) > 0
         /\ st.mode # "anyof" => Len(rs.decisions) >= Len(st.approvers)
         /\ \A j \in 1..Len(rs.decisions) : rs.decisions[j].user \in ToSet(st.approvers)
    <3>1. rs.order = st.order /\ st.order < req.currentStep
      BY <2>6, <2>7, <2>9 DEF StepOK
    <3> QED BY <2>7, <3>1 DEF StepOK
  <2>11. Actions(rs) = {"approve"}
    <3>1. 1 \in 1..Len(rs.decisions)
      BY <2>8, <2>10
    <3> QED BY <2>8, <2>10, <3>1 DEF Actions, Agreed
  <2>12. Deciders(rs) \subseteq ToSet(st.approvers)
    BY <2>8, <2>10 DEF Deciders
  <2>13. ASSUME st.mode # "anyof" PROVE ToSet(st.approvers) \subseteq Deciders(rs)
    <3>1. \A i, j \in 1..Len(rs.decisions) :
              rs.decisions[i].user = rs.decisions[j].user => i = j
      BY <2>3, <2>5, <2>7 DEF Sound
    <3> QED BY <2>6, <2>8, <2>10, <2>13, <3>1, AllDecided
  <2>14. IF st.mode = "anyof" THEN Deciders(rs) \subseteq ToSet(st.approvers)
         ELSE Deciders(rs) = ToSet(st.approvers)
    <3>1. CASE st.mode = "anyof"
      BY <2>12, <3>1
    <3>2. CASE st.mode # "anyof"
      <4>1. Deciders(rs) = ToSet(st.approvers)
        BY <2>12, <2>13, <3>2
      <4> QED BY <3>2, <4>1
    <3> QED BY <3>1, <3>2
  <2>15. rs = requests[r].steps[k] /\ st = FlowOf(r).steps[k]
    BY <2>1, <2>2, <2>4, <2>5
  <2> QED BY <2>10, <2>11, <2>14, <2>15, Zenon
<1> QED BY <1>1, EngineInv, PTL

\* A rejection is final: once an approver has rejected, in whatever step and mode,
\* the request is rejected and no operation makes it anything else.
THEOREM RejectionFinal == Spec => []RejectionStands
<1>1. ASSUME AInv PROVE RejectionStands
  <2> SUFFICES ASSUME NEW r \in steady, NEW k \in DOMAIN requests[r].steps,
                      "reject" \in Actions(requests[r].steps[k]),
                      requests[r].status # "rejected"
               PROVE  FALSE
    BY DEF RejectionStands
  <2>1. requests[r] \in RequestRecord /\ FollowsFlow(requests[r], FlowOf(r))
    BY <1>1, SteadyFacts
  <2>2. /\ k \in 1..Len(requests[r].steps)
        /\ DOMAIN requests[r].steps[k].decisions = 1..Len(requests[r].steps[k].decisions)
    BY <2>1, RequestFacts
  <2>3. Agreed(requests[r].steps[k])
    BY <2>1, <2>2 DEF FollowsFlow, StepOK
  <2> QED BY <2>2, <2>3 DEF Agreed, Actions
<1> QED BY <1>1, EngineInv, PTL

\* Decisions follow the flow: nobody decides on a step before the steps before it
\* are approved, nor out of turn in a sequential step.
THEOREM Sequence == Spec => []InSequence
<1>1. ASSUME AInv PROVE InSequence
  <2> SUFFICES ASSUME NEW r \in steady, NEW k \in DOMAIN requests[r].steps,
                      requests[r].steps[k].decisions # <<>>
               PROVE  /\ \A j \in 1..(k - 1) : requests[r].steps[j].status = "approved"
                      /\ FlowOf(r).steps[k].mode = "sequential" =>
                            \A j \in DOMAIN requests[r].steps[k].decisions :
                                requests[r].steps[k].decisions[j].user
                                    = FlowOf(r).steps[k].approvers[j]
    BY DEF InSequence
  <2>1. PICK req : req = requests[r]
    OBVIOUS
  <2>2. PICK f : f = FlowOf(r)
    OBVIOUS
  <2>3. /\ req \in RequestRecord /\ f \in FlowType /\ Validate(f) /\ FollowsFlow(req, f)
    BY <1>1, <2>1, <2>2, SteadyFacts
  <2>4. /\ k \in 1..Len(req.steps) /\ Len(req.steps) \in Nat /\ req.currentStep \in Nat
        /\ Len(req.steps[k].decisions) \in Nat /\ Len(req.steps[k].decisions) > 0
        /\ DOMAIN req.steps[k].decisions = 1..Len(req.steps[k].decisions)
    BY <2>1, <2>3, RequestFacts, EmptySeq
  <2>5. /\ Len(req.steps) = Len(f.steps)
        /\ \A j \in 1..Len(req.steps) : StepOK(f.steps[j], req.steps[j], req.currentStep, req.status)
    BY <2>3 DEF FollowsFlow
  <2>6. /\ \A j \in 1..Len(f.steps) : f.steps[j].order \in Nat
        /\ \A i, j \in 1..Len(f.steps) : i < j => f.steps[i].order < f.steps[j].order
    BY <2>3, FlowFacts
  <2>7. f.steps[k].order <= req.currentStep
    <3>1. req.steps[k].order = f.steps[k].order
      BY <2>4, <2>5 DEF StepOK
    <3>2. ~(req.steps[k].order > req.currentStep)
      BY <2>4, <2>5 DEF StepOK
    <3> QED BY <2>4, <2>5, <2>6, <3>1, <3>2
  <2>8. ASSUME NEW j \in 1..(k - 1) PROVE req.steps[j].status = "approved"
    <3>1. j \in 1..Len(req.steps) /\ j < k
      BY <2>4
    <3>2. f.steps[j].order < f.steps[k].order
      BY <2>4, <2>5, <2>6, <3>1
    <3>3. f.steps[j].order < req.currentStep
      BY <2>4, <2>5, <2>6, <2>7, <3>1, <3>2
    <3> QED BY <2>5, <3>1, <3>3 DEF StepOK
  <2>9. f.steps[k].mode = "sequential" =>
            \A j \in 1..Len(req.steps[k].decisions) :
                req.steps[k].decisions[j].user = f.steps[k].approvers[j]
    BY <2>4, <2>5 DEF StepOK
  <2> QED BY <2>1, <2>2, <2>4, <2>8, <2>9
<1> QED BY <1>1, EngineInv, PTL

\* A timeline misses nothing and repeats nothing, for requests whose flow was
\* changed or deleted under them too.
THEOREM TimelineComplete == Spec => []HistoryComplete
<1>1. ASSUME AInv PROVE HistoryComplete
  BY <1>1, Zenon DEF AInv, HistoryComplete, Counted
<1> QED BY <1>1, EngineInv, PTL

\* A pending request that has not expired always has somebody who may decide on
\* it, whatever was decided before, if its flow is numbered without gaps and names
\* nobody twice in a step (validateDecision would accept that user's decision).
THEOREM SomebodyCanDecide == Spec => []NeverWedged
<1>1. ASSUME AInv PROVE NeverWedged
  <2> SUFFICES ASSUME NEW r \in steady, requests[r].status = "pending", r \notin expired,
                      WellFormed(FlowOf(r))
               PROVE  \E u \in Users : validateDecision(r, u, r \in expired)
    BY DEF NeverWedged
  <2>1. PICK req : req = requests[r]
    OBVIOUS
  <2>2. PICK f : f = FlowOf(r)
    OBVIOUS
  <2>3. /\ req \in RequestRecord /\ f \in FlowType /\ Validate(f) /\ FollowsFlow(req, f)
        /\ f # NoFlow /\ req.status = "pending"
    BY <1>1, <2>1, <2>2, SteadyFacts
  <2>4. PICK cur : cur = req.currentStep
    OBVIOUS
  <2>5. /\ Len(f.steps) \in Nat /\ DOMAIN f.steps = 1..Len(f.steps) /\ Len(f.steps) > 0
        /\ Len(req.steps) = Len(f.steps) /\ DOMAIN req.steps = 1..Len(f.steps)
        /\ cur \in Nat /\ cur >= 1 /\ cur <= LastOrder(f)
        /\ \A j \in 1..Len(f.steps) : StepOK(f.steps[j], req.steps[j], cur, "pending")
    BY <2>3, <2>4, FlowFacts, RequestFacts DEF FollowsFlow
  <2>6. \A j \in 1..Len(f.steps) : /\ f.steps[j].order = j
                                   /\ IsInjective(f.steps[j].approvers)
    BY <2>2, <2>5 DEF WellFormed
  <2>7. cur \in 1..Len(f.steps)
    <3>1. LastOrder(f) = Len(f.steps)
      BY <2>5, <2>6 DEF LastOrder
    <3> QED BY <2>5, <3>1
  <2>8. \A j \in 1..Len(f.steps) : req.steps[j].order = j
    BY <2>5, <2>6 DEF StepOK
  <2>9. StepByOrder(f.steps, cur) = cur
    <3>1. PICK i : i = StepByOrder(f.steps, cur)
      OBVIOUS
    <3>2. i # 0
      BY <2>5, <2>6, <2>7, <3>1, StepAt
    <3>3. i \in 1..Len(f.steps) /\ f.steps[i].order = cur
      BY <2>5, <3>1, <3>2, StepAt
    <3> QED BY <2>6, <3>1, <3>3
  <2>10. StepByOrder(req.steps, cur) = cur
    <3>1. PICK i : i = StepByOrder(req.steps, cur)
      OBVIOUS
    <3>2. i # 0
      BY <2>5, <2>7, <2>8, <3>1, StepAt
    <3>3. i \in 1..Len(f.steps) /\ req.steps[i].order = cur
      BY <2>5, <3>1, <3>2, StepAt
    <3> QED BY <2>8, <3>1, <3>3
  <2>11. PICK st : st = f.steps[cur]
    OBVIOUS
  <2>12. PICK rs : rs = req.steps[cur]
    OBVIOUS
  <2>13. PICK n : n = Len(rs.decisions)
    OBVIOUS
  <2>14. /\ Len(st.approvers) \in Nat /\ DOMAIN st.approvers = 1..Len(st.approvers)
         /\ st.approvers \in Seq(Users) /\ IsInjective(st.approvers)
    BY <2>3, <2>6, <2>7, <2>11, FlowFacts
  <2>15. n \in Nat /\ DOMAIN rs.decisions = 1..n
    BY <2>3, <2>5, <2>7, <2>12, <2>13, RequestFacts
  <2>16. /\ n < Len(st.approvers)
         /\ st.mode = "sequential" =>
               \A j \in 1..n : rs.decisions[j].user = st.approvers[j]
    <3>1. StepOK(st, rs, cur, "pending") /\ rs.order = cur
      BY <2>5, <2>7, <2>8, <2>11, <2>12
    <3> QED BY <2>13, <3>1 DEF StepOK
  <2>17. \A x, y \in 1..Len(st.approvers) : st.approvers[x] = st.approvers[y] => x = y
    BY <2>14 DEF IsInjective
  <2>18. \A x \in 1..Len(st.approvers) :
             st.approvers[x] \in Users /\ st.approvers[x] \in ToSet(st.approvers)
    <3>1. \A x \in 1..Len(st.approvers) : st.approvers[x] \in Users
      BY <2>14, ElementOfSeq
    <3>2. \A x \in 1..Len(st.approvers) : st.approvers[x] \in ToSet(st.approvers)
      BY <2>14 DEF ToSet
    <3> QED BY <3>1, <3>2
  <2>19. \E u \in Users : u \in ToSet(st.approvers) /\ u \notin Deciders(rs) /\ InTurn(st, rs, u)
    <3>1. CASE st.mode = "sequential"
      <4>1. n + 1 \in 1..Len(st.approvers)
        BY <2>14, <2>15, <2>16
      <4>2. PICK u : u = st.approvers[n + 1]
        OBVIOUS
      <4>3. u \in Users /\ u \in ToSet(st.approvers)
        BY <2>18, <4>1, <4>2
      <4>4. ASSUME NEW j \in 1..n PROVE rs.decisions[j].user # u
        <5>1. j \in 1..Len(st.approvers) /\ j # n + 1
          BY <2>14, <2>15, <2>16
        <5> QED BY <2>16, <2>17, <3>1, <4>1, <4>2, <5>1
      <4>5. u \notin Deciders(rs)
        BY <2>15, <4>4 DEF Deciders
      <4>6. InTurn(st, rs, u)
        BY <2>13, <4>2 DEF InTurn
      <4> QED BY <4>3, <4>5, <4>6
    <3>2. CASE st.mode # "sequential"
      <4>1. PICK g : g = [j \in 1..n |-> rs.decisions[j].user]
        OBVIOUS
      <4>2. PICK a : a = st.approvers
        OBVIOUS
      <4>3. PICK m : m = Len(st.approvers)
        OBVIOUS
      <4>4. m \in Nat /\ n < m
        BY <2>14, <2>16, <4>3
      <4>5. a \in Injection(1..m, Users)
        BY <2>14, <2>17, <2>18, <4>2, <4>3 DEF Injection, IsInjective
      <4>u. g \in [1..n -> Users]
        BY <2>3, <2>5, <2>7, <2>12, <2>13, <4>1, RequestFacts
      <4>6. PICK x \in 1..m : \A j \in 1..n : a[x] # g[j]
        BY <2>15, <4>4, <4>5, <4>u, OneIsLeft
      <4>7. a[x] \in Users /\ a[x] \in ToSet(st.approvers)
        BY <2>18, <4>2, <4>3
      <4>8. \A j \in 1..n : rs.decisions[j].user # a[x]
        BY <4>1, <4>6
      <4>9. a[x] \notin Deciders(rs)
        BY <2>15, <4>8 DEF Deciders
      <4>10. InTurn(st, rs, a[x])
        BY <3>2 DEF InTurn
      <4> QED BY <4>7, <4>9, <4>10
    <3> QED BY <3>1, <3>2
  <2>20. PICK u \in Users :
            u \in ToSet(st.approvers) /\ u \notin Deciders(rs) /\ InTurn(st, rs, u)
    BY <2>19
  <2>21. f = flows[requests[r].flowID]
    BY <2>2 DEF FlowOf
  <2>22. validateDecision(r, u, r \in expired)
    BY <2>1, <2>3, <2>4, <2>5, <2>9, <2>10, <2>11, <2>12, <2>20, <2>21 DEF validateDecision
  <2> QED BY <2>22
<1> QED BY <1>1, EngineInv, PTL

\* What is decided stays decided: no operation takes a request out of approved,
\* rejected, timed out or cancelled, though none asks state_machine.go's
\* CanTransition, and whatever happens to its flow.
THEOREM TransitionsKept == Spec => TransitionsAllowed
<1> DEFINE Kept == \A r \in Requests :
              requests[r] # Absent /\ requests'[r].status # requests[r].status =>
                  CanTransition(requests[r].status, requests'[r].status)
<1>1. ASSUME AInv, [Next]_vars PROVE [Kept]_vars
  <2> SUFFICES ASSUME Next, NEW r \in Requests, requests[r] # Absent,
                      requests'[r].status # requests[r].status
               PROVE  CanTransition(requests[r].status, requests'[r].status)
    BY <1>1
  <2>1. requests \in [Requests -> RequestRecord \cup {Absent}] /\ requests[r] \in RequestRecord
    BY <1>1 DEF AInv, Types
  <2>2. \/ \E id \in FlowIDs : Submit(r, id)
        \/ \E u \in Users, action \in {"approve", "reject"} : applyDecision(r, u, action)
        \/ Cancel(r) \/ CheckTimeout(r)
    <3>1. ASSUME NEW q \in Requests, q # r, NEW new, requests' = [requests EXCEPT ![q] = new]
          PROVE  FALSE
      BY <2>1, <3>1
    <3>2. ASSUME requests' = requests PROVE FALSE
      BY <3>2
    <3>3. ASSUME NEW id \in FlowIDs, NEW f \in Definitions, CreateFlow(id, f) \/ UpdateFlow(id, f)
          PROVE  FALSE
      BY <3>2, <3>3 DEF CreateFlow, UpdateFlow
    <3>4. ASSUME NEW id \in FlowIDs, DeleteFlow(id) PROVE FALSE
      BY <3>2, <3>4 DEF DeleteFlow
    <3>5. ASSUME NEW q \in Requests, Expire(q) \/ FallDue(q) PROVE FALSE
      BY <3>2, <3>5 DEF Expire, FallDue
    <3>6. ASSUME NEW id \in FlowIDs, NEW q \in Requests, Submit(q, id) PROVE q = r
      BY <3>1, <3>6 DEF Submit
    <3>7. ASSUME NEW q \in Requests, NEW u \in Users, NEW action \in {"approve", "reject"},
                 applyDecision(q, u, action)
          PROVE  q = r
      BY <3>1, <3>7, Zenon DEF applyDecision
    <3>8. ASSUME NEW q \in Requests, Cancel(q) \/ CheckTimeout(q) PROVE q = r
      BY <3>1, <3>8, Zenon DEF Cancel, CheckTimeout, StepTimeout, Close
    <3> QED BY <3>3, <3>4, <3>5, <3>6, <3>7, <3>8, Zenon DEF Next
  <2>3. requests[r].status = "pending"
    <3>1. ASSUME NEW id \in FlowIDs, Submit(r, id) PROVE FALSE
      BY <3>1 DEF Submit
    <3>2. ASSUME NEW u \in Users, NEW action \in {"approve", "reject"},
                 applyDecision(r, u, action)
          PROVE  requests[r].status = "pending"
      <4>1. validateDecision(r, u, FALSE)
        BY <3>2, Zenon DEF applyDecision
      <4> QED BY <4>1, Zenon DEF validateDecision
    <3>3. ASSUME Cancel(r) \/ CheckTimeout(r) PROVE requests[r].status = "pending"
      BY <3>3, Zenon DEF Cancel, CheckTimeout
    <3> QED BY <2>2, <3>1, <3>2, <3>3, Zenon
  <2>4. requests'[r].status \in Statuses
    <3>1. ASSUME NEW new, requests' = [requests EXCEPT ![r] = new], new.status \in Statuses
          PROVE  requests'[r].status \in Statuses
      BY <2>1, <3>1
    <3>2. ASSUME NEW u \in Users, NEW action \in {"approve", "reject"},
                 applyDecision(r, u, action)
          PROVE  requests'[r].status \in Statuses
      <4>1. PICK f, i, k, rs, new, e : DecisionFacts(r, u, action, f, i, k, rs, new, e)
        BY <1>1, <3>2, DecisionIs
      <4>2. /\ requests' = [requests EXCEPT ![r] = new]
            /\ IsAdvanced(requests[r], new, k, rs, f.steps[i].order, LastOrder(f),
                          evaluateStep(f.steps[i], rs))
        BY <4>1, Zenon DEF DecisionFacts
      <4>3. new.status \in Statuses
        BY <4>2 DEF IsAdvanced, RequestRecord
      <4> QED BY <3>1, <4>2, <4>3
    <3>3. ASSUME NEW new, NEW action, NEW step, Close(r, new, action, step),
                 new.status \in Statuses
          PROVE  requests'[r].status \in Statuses
      BY <3>1, <3>3, Zenon DEF Close
    <3>4. ASSUME Cancel(r) PROVE requests'[r].status \in Statuses
      <4>1. PICK new : new = [requests[r] EXCEPT !.status = "cancelled"]
        OBVIOUS
      <4>2. new.status \in Statuses
        BY <2>1, <4>1 DEF RequestRecord, Statuses
      <4> QED BY <3>3, <3>4, <4>1, <4>2 DEF Cancel
    <3>5. ASSUME StepTimeout(r) PROVE requests'[r].status \in Statuses
      <4>1. PICK k : k = StepByOrder(requests[r].steps, requests[r].currentStep)
        OBVIOUS
      <4>2. PICK new : new = [requests[r] EXCEPT !.steps[k].status = "rejected",
                                                 !.status = "rejected"]
        OBVIOUS
      <4>3. new.status \in Statuses
        BY <2>1, <4>2 DEF RequestRecord, Statuses
      <4> QED BY <3>3, <3>5, <4>1, <4>2, <4>3 DEF StepTimeout
    <3>6. ASSUME CheckTimeout(r) PROVE requests'[r].status \in Statuses
      <4>1. PICK new : new = [requests[r] EXCEPT !.status = "timeout"]
        OBVIOUS
      <4>2. new.status \in Statuses
        BY <2>1, <4>1 DEF RequestRecord, Statuses
      <4>3. Close(r, new, "timeout", 0) \/ StepTimeout(r)
        BY <3>6, <4>1 DEF CheckTimeout
      <4> QED BY <3>3, <3>5, <4>2, <4>3
    <3>7. ASSUME NEW id \in FlowIDs, Submit(r, id) PROVE FALSE
      BY <3>7 DEF Submit
    <3> QED BY <2>2, <3>2, <3>4, <3>6, <3>7, Zenon
  <2> QED BY <2>3, <2>4 DEF CanTransition
<1> QED BY <1>1, EngineInv, PTL DEF TransitionsAllowed, Spec
=============================================================================
