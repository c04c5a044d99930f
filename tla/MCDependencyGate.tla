---------------------------- MODULE MCDependencyGate ----------------------------
(* A foundation, a feature and, in one run, the epic that the feature belongs to. *)
EXTENDS DependencyGate

CONSTANTS base, leaf, epic, s1, s2

Two == {base, leaf}
Three == {base, leaf, epic}
EpicSet == {epic}
FoundationSet == {base}
Family == [e \in EpicSet |-> {leaf}]
NoEpics == {}
NoFamily == [e \in {} |-> {}]
NoSetters == {}
TwoSetters == {s1, s2}
Symmetry == Permutations(TwoSetters)

================================================================================
