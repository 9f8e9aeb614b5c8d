--------------------------- MODULE MCPlanExecution ---------------------------
(* A task that leads and its helper, in a node that may wait for another. *)
EXTENDS PlanExecution

CONSTANTS lead, helper, build, test

MCParentOf == [t \in Tasks |-> IF t = helper THEN lead ELSE NoTask]

MCNodeOf == [t \in Tasks |-> IF test \in Nodes THEN test ELSE build]

MCBefore == [n \in Nodes |-> IF n = test THEN build ELSE NoNode]
=============================================================================
