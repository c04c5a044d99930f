---------------------------- MODULE MCFeaturePhases ----------------------------
(* FeaturePhases with small budgets; the values are in the cfg. *)
EXTENDS FeaturePhases
================================================================================
