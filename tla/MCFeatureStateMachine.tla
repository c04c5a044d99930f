------------------------- MODULE MCFeatureStateMachine -------------------------
(* FeatureStateMachine with the workflows of the repository and small budgets. *)
EXTENDS FeatureStateMachine

Standard == Phases
ReadOnly == {"INTAKE", "EXECUTE"}
Research == {"INTAKE", "PLAN", "EXECUTE"}

StandardOnly == {Standard}
BuiltIn == {Standard, ReadOnly, Research}
Shipping == {Standard, {"EXECUTE", "MERGE"}}

================================================================================
