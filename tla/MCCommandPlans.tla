--------------------------- MODULE MCCommandPlans ---------------------------
(* One plan of two commands, with requests that may overlap.               *)
EXTENDS CommandPlans
=============================================================================
