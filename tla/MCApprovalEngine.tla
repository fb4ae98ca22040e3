-------------------------- MODULE MCApprovalEngine --------------------------
(***************************************************************************)
(* Instance of ApprovalEngine for TLC.                                     *)
(***************************************************************************)
EXTENDS ApprovalEngine

Step(order, mode, approvers, timed) ==
    [order |-> order, mode |-> mode, approvers |-> approvers, timed |-> timed]

Flow(steps) == [enabled |-> TRUE, steps |-> steps]

\* One after the other, then any of them.
Ladder == Flow(<<Step(1, "sequential", <<"u1", "u2">>, FALSE),
                 Step(2, "anyof", <<"u1", "u3">>, TRUE)>>)

\* Any of them, then all of them.
Panel == Flow(<<Step(1, "anyof", <<"u2", "u3">>, FALSE),
                Step(2, "countersign", <<"u1", "u2", "u3">>, FALSE)>>)

\* A gap between the steps; an approver named twice; steps out of order, which is
\* refused; a flow that is switched off.
Gap == Flow(<<Step(1, "countersign", <<"u1", "u2">>, TRUE), Step(3, "anyof", <<"u1">>, FALSE)>>)
Twice == Flow(<<Step(1, "sequential", <<"u1", "u1">>, FALSE)>>)
Reversed == Flow(<<Step(2, "anyof", <<"u1">>, FALSE), Step(1, "anyof", <<"u2">>, FALSE)>>)
Disabled == [enabled |-> FALSE, steps |-> <<Step(1, "anyof", <<"u1">>, TRUE)>>]

FlowDefinitions == {Ladder, Panel, Gap, Twice, Reversed, Disabled}
=============================================================================
