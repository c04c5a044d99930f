---------------------------- MODULE DependencyOrder ----------------------------
(***************************************************************************)
(* What the order of resolveDependencies promises, without the degrees it    *)
(* counts down and the queue it keeps sorted: each round places one of the   *)
(* features that depend on nothing but placed ones, of the smallest priority *)
(* number, and what is left in the end is appended as it is.                 *)
(* DependencyResolver implements this.                                       *)
(***************************************************************************)
EXTENDS DependencyGraph

CONSTANTS
    Nodes,       \* the features
    Ranks        \* their priorities

VARIABLES
    needs,       \* the features each depends on
    rank,        \* its priority
    placed,      \* the order so far
    ended        \* whether the order has been returned

orderVars == <<needs, rank, placed, ended>>

Taken == ToSet(placed)

Ready == {f \in Nodes \ Taken : needs[f] \subseteq Taken}

OrderInit ==
    /\ needs \in [Nodes -> SUBSET Nodes]
    /\ rank \in [Nodes -> Ranks]
    /\ placed = <<>> /\ ended = FALSE

PlaceNext ==
    \E f \in Ready :
        /\ \A g \in Ready : rank[f] <= rank[g]
        /\ placed' = Append(placed, f)
        /\ UNCHANGED <<needs, rank, ended>>

PlaceRest ==
    /\ Ready = {} /\ ~ended
    /\ \E rest \in SetToSeqs(Nodes \ Taken) : placed' = placed \o rest
    /\ ended' = TRUE
    /\ UNCHANGED <<needs, rank>>

OrderNext == PlaceNext \/ PlaceRest

OrderSpec == OrderInit /\ [][OrderNext]_orderVars

================================================================================
