-------------------------- MODULE MCChangeSetRuntime --------------------------
(* ChangeSetRuntime on small plans.  Sets, leases and requests are         *)
(* interchangeable.                                                        *)
EXTENDS ChangeSetRuntime, TLC

CreateUpdate == <<"create", "update">>

UpdateCreate == <<"update", "create">>

CreateUpdateDelete == <<"create", "update", "delete">>

Symmetry == Permutations(Sets) \cup Permutations(Leases) \cup Permutations(Handlers)
=============================================================================
