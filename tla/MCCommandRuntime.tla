--------------------------- MODULE MCCommandRuntime ---------------------------
(* CommandRuntime on small sets of model values.  They are interchangeable, *)
(* but the run checks liveness, for which symmetry is not sound.            *)
EXTENDS CommandRuntime
=============================================================================
