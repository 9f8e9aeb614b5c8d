--------------------------- MODULE MCQueueDelivery ---------------------------
(* QueueDelivery with three items, the last of which changes the task. *)
EXTENDS QueueDelivery

MCPivots == {MaxItems}
=============================================================================
