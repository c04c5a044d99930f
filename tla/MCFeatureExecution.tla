--------------------------- MODULE MCFeatureExecution ---------------------------
(* FeatureExecution on a few runs, timers and stops. *)
EXTENDS FeatureExecution, TLC

Symmetry == Permutations(Runs) \cup Permutations(Timers)

================================================================================
