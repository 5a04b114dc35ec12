---------------------------- MODULE MCExecution -----------------------------
(* Execution.tla for TLC: names for the model values of the cfg files.     *)
EXTENDS Execution

CONSTANTS w1, w2, o1, e1
=============================================================================
