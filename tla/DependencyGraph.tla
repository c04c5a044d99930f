---------------------------- MODULE DependencyGraph ----------------------------
(***************************************************************************)
(* The dependencies of features as a graph, and what the searches through   *)
(* it look for.                                                             *)
(***************************************************************************)
EXTENDS Integers, Sequences, FiniteSets, SequencesExt

(***************************************************************************)
(* N maps a feature to the set of the ids it depends on; an id outside      *)
(* DOMAIN N is of no feature.  What a feature reaches is the least set that *)
(* holds what it depends on, and what those depend on.                      *)
(***************************************************************************)
Closed(N, S) == \A f \in S : N[f] \cap DOMAIN N \subseteq S
Reaches(N, f, g) ==
    \A S \in SUBSET DOMAIN N : N[f] \cap DOMAIN N \subseteq S /\ Closed(N, S) => g \in S
Acyclic(N) == \A f \in DOMAIN N : ~Reaches(N, f, f)

(* detectCircularDependency: with ds as its dependencies, f would depend on itself. *)
ClosesCycle(N, f, ds) == \E id \in ds : id = f \/ (id \in DOMAIN N /\ Reaches(N, id, f))

(* downstreamImpact *)
Impact(N, f) == Cardinality({g \in DOMAIN N : Reaches(N, g, f)})

================================================================================
