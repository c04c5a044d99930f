------------------------------ MODULE MCHITLForms ------------------------------
(* HITLForms with interchangeable forms, callers and saves. *)
EXTENDS HITLForms, TLC

Symmetry == Permutations(Forms) \cup Permutations(Callers) \cup Permutations(Saves)

================================================================================
