-------------------------- MODULE MCExecutionBudget --------------------------
(* ExecutionBudget with a root scope and one child: c1 fits the task beside *)
(* either other call, c2 and c3 together not, unless one of them has        *)
(* settled for less than its estimate; c1 and c2 together do not fit the    *)
(* child.  Usage can fall short of the estimate or overrun it.              *)
EXTENDS ExecutionBudget

CONSTANTS c1, c2, c3, root, child

MCScopeOf == [c \in Calls |-> IF c = c3 THEN root ELSE child]

MCEstimate ==
  [c \in Calls |->
    CASE c = c1 -> [in |-> 1, out |-> 0]
      [] c = c2 -> [in |-> 1, out |-> 1]
      [] c = c3 -> [in |-> 0, out |-> 2]]

MCUsages == [in: 0 .. 1, out: 0 .. 2]

MCTaskLimit == [total |-> 3, output |-> 2, attempts |-> 2]

MCScopeLimit ==
  [s \in Scopes |-> IF s = root THEN MCTaskLimit ELSE [total |-> 2, output |-> 2, attempts |-> 2]]
=============================================================================
