------------------------------- MODULE MCAutoLoop -------------------------------
(* AutoLoop with small constants: worktrees and callers are strings and model *)
(* values given by the configurations.                                        *)
EXTENDS AutoLoop, TLC

Symmetry == Permutations(Callers)

================================================================================
