--------------------------- MODULE ApprovalEngine ---------------------------
(***************************************************************************)
(* The approval engine of internal/approval (engine.go, state_machine.go,  *)
(* flow.go, request.go): requests go through the steps of an approval      *)
(* flow, each decided by its approvers one after the other, all together   *)
(* or by any one of them.  Every operation is one critical section of the  *)
(* engine's mutex and one action here.                                     *)
(*                                                                         *)
(* A decision is judged by the flow as it is at that moment, which         *)
(* UpdateFlow, DeleteFlow and CreateFlow may have changed since the        *)
(* request was submitted; the request itself keeps the orders of the steps *)
(* it began with.  A refused operation changes nothing.                    *)
(*                                                                         *)
(* Time is two facts about a request: its ExpireAt has passed, and its     *)
(* current step was started longer ago than any Timeout.  The timeline of  *)
(* a request is a set: it is kept sorted by timestamps taken before the    *)
(* lock, so that its order says nothing of the order of the operations.    *)
(***************************************************************************)
EXTENDS Integers, Sequences, FiniteSets, SequencesExt

CONSTANTS
    Users,
    Requests,     \* request IDs
    FlowIDs,
    Definitions,  \* the flow definitions callers send, valid or not
    NoFlow, NoUser

FlowStep == [order : Int, mode : STRING, approvers : Seq(Users), timed : BOOLEAN]

\* Callers send what the Go types of a flow can hold.
ASSUME DefinitionsAssumption ==
    /\ \A f \in Definitions : f \in [enabled : BOOLEAN, steps : Seq(FlowStep)]
    /\ NoFlow \notin Definitions /\ NoFlow \notin FlowIDs /\ NoUser \notin Users

VARIABLES
    flows,        \* per flow ID: its definition, or NoFlow
    requests,     \* per request ID: the request, or Absent
    histories,    \* per request ID: the entries of its timeline
    expired,      \* requests whose ExpireAt has passed
    overdue,      \* requests whose current step was started long ago
    steady        \* requests whose flow nobody has touched since Submit

vars == <<flows, requests, histories, expired, overdue, steady>>

Absent == [status |-> "absent", flowID |-> NoFlow, currentStep |-> 0, steps |-> <<>>]

Modes == {"sequential", "countersign", "anyof"}

\* Validate: steps with a mode and approvers, in ascending order of their Order.
Validate(f) ==
    /\ f.steps # <<>>
    /\ \A i \in DOMAIN f.steps :
          /\ f.steps[i].order >= 1
          /\ f.steps[i].mode \in Modes /\ f.steps[i].approvers # <<>>
          /\ i > 1 => f.steps[i - 1].order < f.steps[i].order

\* The position of the step with this order, 0 if there is none.
StepByOrder(steps, order) ==
    LET at == {i \in DOMAIN steps : steps[i].order = order}
    IN  IF at = {} THEN 0 ELSE CHOOSE i \in at : TRUE

LastOrder(f) == f.steps[Len(f.steps)].order

Deciders(rs) == {rs.decisions[i].user : i \in DOMAIN rs.decisions}
Actions(rs) == {rs.decisions[i].action : i \in DOMAIN rs.decisions}
-----------------------------------------------------------------------------
Init ==
    /\ flows = [f \in FlowIDs |-> NoFlow]
    /\ requests = [r \in Requests |-> Absent]
    /\ histories = [r \in Requests |-> {}]
    /\ expired = {} /\ overdue = {} /\ steady = {}

\* The flow of an ID changes under the requests that refer to it.
Touch(id) == steady' = {r \in steady : requests[r].flowID # id}

\* Mutant: the definition is not validated.
CreateFlowUnchecked(id, f) ==
    /\ flows[id] = NoFlow
    /\ flows' = [flows EXCEPT ![id] = f]
    /\ UNCHANGED <<requests, histories, expired, overdue, steady>>

CreateFlow(id, f) ==
    /\ Validate(f) /\ flows[id] = NoFlow
    /\ flows' = [flows EXCEPT ![id] = f]
    /\ UNCHANGED <<requests, histories, expired, overdue, steady>>

UpdateFlow(id, f) ==
    /\ Validate(f) /\ flows[id] # NoFlow
    /\ flows' = [flows EXCEPT ![id] = f]
    /\ Touch(id)
    /\ UNCHANGED <<requests, histories, expired, overdue>>

DeleteFlow(id) ==
    /\ flows[id] # NoFlow
    /\ flows' = [flows EXCEPT ![id] = NoFlow]
    /\ Touch(id)
    /\ UNCHANGED <<requests, histories, expired, overdue>>

Submit(r, id) ==
    /\ requests[r] = Absent
    /\ flows[id] # NoFlow /\ flows[id].enabled
    /\ requests' = [requests EXCEPT ![r] =
          [status |-> "pending", flowID |-> id, currentStep |-> 1,
           steps |-> [i \in DOMAIN flows[id].steps |->
                        [order |-> flows[id].steps[i].order, status |-> "pending",
                         decisions |-> <<>>, started |-> flows[id].steps[i].order = 1]]]]
    /\ histories' = [histories EXCEPT ![r] = {[action |-> "submit", user |-> NoUser, step |-> 0]}]
    /\ steady' = steady \cup {r}
    /\ UNCHANGED <<flows, expired, overdue>>
-----------------------------------------------------------------------------
\* Mutant: the first agreement is enough for every mode.
evaluateStepFirst(step, rs) ==
    IF "reject" \in Actions(rs) THEN "failed"
    ELSE IF "approve" \in Actions(rs) THEN "passed"
    ELSE "open"

\* Mutant: countersigning waits for one more than there are approvers.
evaluateStepOneMore(step, rs) ==
    IF step.mode = "anyof" THEN IF Head(rs.decisions).action = "approve" THEN "passed" ELSE "failed"
    ELSE IF "reject" \in Actions(rs) THEN "failed"
    ELSE IF Len(rs.decisions) > Len(step.approvers) THEN "passed"
    ELSE "open"

\* Mutant: a rejection is weighed only when everybody has decided.
evaluateStepLate(step, rs) ==
    IF step.mode = "anyof" THEN IF Head(rs.decisions).action = "approve" THEN "passed" ELSE "failed"
    ELSE IF Len(rs.decisions) < Len(step.approvers) THEN "open"
    ELSE IF "reject" \in Actions(rs) THEN "failed"
    ELSE "passed"

\* evaluateStep, for a step with at least one decision: "open" while it goes on.
evaluateStep(step, rs) ==
    IF step.mode = "anyof" THEN IF Head(rs.decisions).action = "approve" THEN "passed" ELSE "failed"
    ELSE IF "reject" \in Actions(rs) THEN "failed"
    ELSE IF Len(rs.decisions) >= Len(step.approvers) THEN "passed"
    ELSE "open"

\* Mutant: any approver may be the next.
InTurnAny(step, rs, u) == u \in Users

\* In a sequential step it is the turn of one approver.
InTurn(step, rs, u) ==
    step.mode = "sequential" =>
        LET next == Len(rs.decisions) + 1
        IN  next > Len(step.approvers) \/ step.approvers[next] = u

\* validateDecision: user u may decide on the current step of request r; `late`
\* tells whether ExpireAt lies before the time of the decision.
validateDecision(r, u, late) ==
    LET req == requests[r]
        f == flows[req.flowID]
        i == StepByOrder(f.steps, req.currentStep)
        k == StepByOrder(req.steps, req.currentStep)
    IN  /\ req.status = "pending" /\ f # NoFlow
        /\ ~late
        /\ i # 0 /\ k # 0
        /\ u \in ToSet(f.steps[i].approvers)
        /\ u \notin Deciders(req.steps[k])
        /\ InTurn(f.steps[i], req.steps[k], u)

\* What a decision makes of a request whose step k, step i of its flow f, becomes rs.
Advanced(req, f, i, k, rs) ==
    LET order == f.steps[i].order
        next == StepByOrder(req.steps, order + 1)
        steps(status) == [req.steps EXCEPT ![k] = [rs EXCEPT !.status = status]]
    IN  CASE evaluateStep(f.steps[i], rs) = "open" -> [req EXCEPT !.steps[k] = rs]
          [] evaluateStep(f.steps[i], rs) = "failed" ->
                [req EXCEPT !.steps = steps("rejected"), !.status = "rejected"]
          [] OTHER -> [req EXCEPT
                !.status = IF order >= LastOrder(f) THEN "approved" ELSE "pending",
                !.currentStep = order + 1,
                !.steps = IF order >= LastOrder(f) \/ next = 0 THEN steps("approved")
                          ELSE [steps("approved") EXCEPT ![next].started = TRUE]]

\* applyDecision: Approve and Reject.  The time is read before the lock is taken: a
\* decision begun in time may be carried out when the request has expired.
applyDecision(r, u, action) ==
    LET req == requests[r]
        f == flows[req.flowID]
        i == StepByOrder(f.steps, req.currentStep)
        k == StepByOrder(req.steps, req.currentStep)
        rs == [req.steps[k] EXCEPT !.decisions = Append(@, [user |-> u, action |-> action])]
        new == Advanced(req, f, i, k, rs)
        moved == new.status = "pending" /\ new.currentStep # req.currentStep
    IN  /\ requests[r] # Absent /\ validateDecision(r, u, FALSE)
        /\ requests' = [requests EXCEPT ![r] = new]
        /\ histories' = [histories EXCEPT ![r] = @ \cup
              {[action |-> IF moved THEN "step_advance" ELSE action,
                user |-> u, step |-> req.currentStep]}]
        /\ overdue' = IF moved THEN overdue \ {r} ELSE overdue
        /\ UNCHANGED <<flows, expired, steady>>

\* A request is closed without a decision.
Close(r, new, action, step) ==
    /\ requests' = [requests EXCEPT ![r] = new]
    /\ histories' = [histories EXCEPT ![r] = @ \cup
          {[action |-> action, user |-> NoUser, step |-> step]}]
    /\ UNCHANGED <<flows, expired, overdue, steady>>

\* Mutant: whatever was submitted can be cancelled.
CancelAny(r) ==
    /\ requests[r] # Absent
    /\ Close(r, [requests[r] EXCEPT !.status = "cancelled"], "cancel", 0)

Cancel(r) ==
    /\ requests[r].status = "pending"
    /\ Close(r, [requests[r] EXCEPT !.status = "cancelled"], "cancel", 0)

\* Mutant: the step is closed and the request stays open.
StepTimeoutOpen(r) ==
    LET req == requests[r]
        k == StepByOrder(req.steps, req.currentStep)
    IN  Close(r, [req EXCEPT !.steps[k].status = "rejected"], "timeout", req.currentStep)

\* A step that was not decided in time rejects the request.
StepTimeout(r) ==
    LET req == requests[r]
        k == StepByOrder(req.steps, req.currentStep)
    IN  Close(r, [req EXCEPT !.steps[k].status = "rejected", !.status = "rejected"],
              "timeout", req.currentStep)

\* Here too the time is read before the lock: the step may be what is found late
\* though the request has expired since.
CheckTimeout(r) ==
    LET req == requests[r]
        f == flows[req.flowID]
        i == StepByOrder(f.steps, req.currentStep)
        k == StepByOrder(req.steps, req.currentStep)
    IN  /\ req.status = "pending"
        /\ \/ r \in expired /\ Close(r, [req EXCEPT !.status = "timeout"], "timeout", 0)
           \/ /\ f # NoFlow /\ i # 0 /\ k # 0
              /\ f.steps[i].timed /\ req.steps[k].started /\ r \in overdue
              /\ StepTimeout(r)

\* Time passes.
Expire(r) ==
    /\ requests[r].status = "pending" /\ r \notin expired
    /\ expired' = expired \cup {r}
    /\ UNCHANGED <<flows, requests, histories, overdue, steady>>

FallDue(r) ==
    /\ requests[r].status = "pending" /\ r \notin overdue
    /\ overdue' = overdue \cup {r}
    /\ UNCHANGED <<flows, requests, histories, expired, steady>>

Next ==
    \/ \E id \in FlowIDs :
          \/ \E f \in Definitions : CreateFlow(id, f) \/ UpdateFlow(id, f)
          \/ DeleteFlow(id)
          \/ \E r \in Requests : Submit(r, id)
    \/ \E r \in Requests :
          \/ \E u \in Users, action \in {"approve", "reject"} : applyDecision(r, u, action)
          \/ Cancel(r) \/ CheckTimeout(r) \/ Expire(r) \/ FallDue(r)

Spec == Init /\ [][Next]_vars
-----------------------------------------------------------------------------
(***************************************************************************)
(* Properties.                                                             *)
(***************************************************************************)
Statuses == {"pending", "approved", "rejected", "timeout", "cancelled"}
StepRecord == [order : Nat, status : Statuses, started : BOOLEAN,
               decisions : Seq([user : Users, action : {"approve", "reject"}])]

\* Every variable holds a value of its kind; what a flow ID holds was validated.
TypeOK ==
    /\ \A id \in FlowIDs : flows[id] # NoFlow => flows[id] \in Definitions /\ Validate(flows[id])
    /\ \A r \in Requests :
          requests[r] # Absent =>
              /\ requests[r].status \in Statuses /\ requests[r].flowID \in FlowIDs
              /\ requests[r].currentStep \in Nat
              /\ \A i \in DOMAIN requests[r].steps : requests[r].steps[i] \in StepRecord
    /\ expired \subseteq Requests /\ overdue \subseteq Requests /\ steady \subseteq Requests

FlowOf(r) == flows[requests[r].flowID]

\* An approved request was agreed to by everybody its flow asks: in each step by
\* all approvers, and where one is enough by one of them.
ApprovedByAll ==
    \A r \in steady : requests[r].status = "approved" =>
        \A k \in DOMAIN FlowOf(r).steps :
            LET rs == requests[r].steps[k]
                approvers == ToSet(FlowOf(r).steps[k].approvers)
            IN  /\ rs.status = "approved" /\ Actions(rs) = {"approve"}
                /\ IF FlowOf(r).steps[k].mode = "anyof" THEN Deciders(rs) \subseteq approvers
                   ELSE Deciders(rs) = approvers

\* One rejection rejects the request at once, in whatever mode and step ("任一拒绝即
\* 整体拒绝"), and nothing that comes later makes it anything else.
RejectionStands ==
    \A r \in steady : \A k \in DOMAIN requests[r].steps :
        "reject" \in Actions(requests[r].steps[k]) => requests[r].status = "rejected"

\* Decisions follow the flow: a step is decided on only when all steps before it
\* were approved, and in a sequential step in the order of its approvers.
InSequence ==
    \A r \in steady : \A k \in DOMAIN requests[r].steps :
        LET rs == requests[r].steps[k]
            step == FlowOf(r).steps[k]
        IN  rs.decisions # <<>> =>
              /\ \A j \in 1..(k - 1) : requests[r].steps[j].status = "approved"
              /\ step.mode = "sequential" =>
                    \A j \in DOMAIN rs.decisions : rs.decisions[j].user = step.approvers[j]

\* Steps numbered 1, 2, 3, ... and no approver named twice in a step.
WellFormed(f) ==
    \A i \in DOMAIN f.steps : f.steps[i].order = i /\ IsInjective(f.steps[i].approvers)

\* A request does not get stuck: while it is pending and has not expired, there
\* is somebody who can decide on it, if its flow is numbered without gaps and
\* names no approver twice.
NeverWedged ==
    \A r \in steady :
        requests[r].status = "pending" /\ r \notin expired /\ WellFormed(FlowOf(r)) =>
            \E u \in Users : validateDecision(r, u, r \in expired)

\* CanTransition: the changes of status that state_machine.go allows.
CanTransition(from, to) == from = "pending" /\ to \in Statuses \ {"pending"}

\* The engine, which does not ask CanTransition, keeps to it: a request that is
\* approved, rejected, timed out or cancelled stays so, whatever happens to its flow.
TransitionsAllowed ==
    [][\A r \in Requests :
          requests[r] # Absent /\ requests'[r].status # requests[r].status =>
              CanTransition(requests[r].status, requests'[r].status)]_vars

\* The decisions of a request by step and position, and what closed it in a timeline.
Made(req) ==
    UNION {{<<k, i>> : i \in DOMAIN req.steps[k].decisions} : k \in DOMAIN req.steps}
Closing(history) == {h \in history : h.action \in {"cancel", "timeout"}}

\* The timeline of a request is complete, also for a flow that was changed: one
\* entry for its submission, for each decision, and for what closed it otherwise.
HistoryComplete ==
    \A r \in Requests : requests[r] # Absent =>
        LET closing == Closing(histories[r])
        IN  /\ Cardinality(histories[r]) =
                  1 + Cardinality(Made(requests[r])) + Cardinality(closing)
            /\ Cardinality(closing) <= 1
            /\ requests[r].status \in {"cancelled", "timeout"} => closing # {}
            /\ closing # {} => requests[r].status \in {"cancelled", "timeout", "rejected"}
=============================================================================
