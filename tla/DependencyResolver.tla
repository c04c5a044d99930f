--------------------------- MODULE DependencyResolver ---------------------------
(***************************************************************************)
(* resolveDependencies: Kahn's algorithm over a list of features, with the  *)
(* queue sorted by priority; the search for cycles among those that could   *)
(* not be sorted; the count of descendants; and then a question asked of    *)
(* wouldCreateCircularDependency.  One step is one round of the while loop, *)
(* or a search going into an id, past one or back from one.                 *)
(***************************************************************************)
EXTENDS DependencyGraph

CONSTANTS
    Order,       \* the array of features
    Unknown,     \* ids of features that are not in the array
    Priorities,
    MaxLinks     \* bound: dependencies of one feature

ASSUME OrderAssumption ==
    /\ Order \in Seq(ToSet(Order)) /\ IsInjective(Order)
    /\ ToSet(Order) \cap Unknown = {}
    /\ Priorities \subseteq Int

VARIABLES
    links,           \* feature.dependencies
    priority,        \* feature.priority, 2 where it has none
    inDegree,
    queue,
    ordered,         \* orderedFeatures
    sorted,          \* whether orderedFeatures is complete
    calls,           \* the calls of dfs or canReach that have not returned: [id, next]
    visited,         \* the set of this name that the search at hand keeps
    recursionStack,
    currentPath,
    cycles,          \* circularDependencies
    pending,         \* the queue of the search for descendants
    impact,          \* downstreamImpact, in the order of the array
    question,        \* <<from, to>> of wouldCreateCircularDependency
    reached          \* its answer, once its calls have returned

sortVars == <<links, priority, inDegree, queue, ordered, sorted>>
cycleVars == <<recursionStack, currentPath, cycles>>
impactVars == <<pending, impact>>
askVars == <<question, reached>>
resolverVars == <<sortVars, calls, visited, cycleVars, impactVars, askVars>>

Listed == ToSet(Order)
Links == UNION {{s \in [1..n -> Listed \cup Unknown] : IsInjective(s)} : n \in 0..MaxLinks}

Index(s, f) == CHOOSE i \in DOMAIN s : s[i] = f
InArrayOrder(S) ==
    {s \in SetToSeqs(S) : \A i, j \in DOMAIN s : i < j => Index(Order, s[i]) < Index(Order, s[j])}

(* New features are pushed in the order of the array, and the sort is stable. *)
Before(q, f, g) ==
    \/ priority[f] < priority[g]
    \/ /\ priority[f] = priority[g]
       /\ \/ f \in ToSet(q) /\ g \in ToSet(q) /\ Index(q, f) < Index(q, g)
          \/ f \in ToSet(q) /\ g \notin ToSet(q)
          \/ f \notin ToSet(q) /\ g \notin ToSet(q) /\ Index(Order, f) < Index(Order, g)
Queued(q, new) ==
    {s \in SetToSeqs(ToSet(q) \cup new) : \A i, j \in DOMAIN s : i < j => Before(q, s[i], s[j])}

ResolverInit ==
    /\ links \in [Listed -> Links]
    /\ priority \in [Listed -> Priorities]
    /\ inDegree = [f \in Listed |-> Cardinality(ToSet(links[f]) \cap Listed)]
    /\ queue \in Queued(<<>>, {f \in Listed : inDegree[f] = 0})
    /\ ordered = <<>> /\ sorted = FALSE
    /\ calls = <<>> /\ visited = {} /\ recursionStack = {} /\ currentPath = <<>> /\ cycles = <<>>
    /\ pending = {} /\ impact = <<>> /\ question = <<>> /\ reached = FALSE

Dependents(f) == {g \in Listed : f \in ToSet(links[g])}
Degrees(f) == [g \in Listed |-> IF g \in Dependents(f) THEN inDegree[g] - 1 ELSE inDegree[g]]

(* A mutant: a feature is queued with its last dependency but one. *)
ProcessEarly ==
    /\ queue # <<>>
    /\ inDegree' = Degrees(Head(queue))
    /\ queue' \in Queued(Tail(queue), {f \in Dependents(Head(queue)) :
                            inDegree'[f] <= 1 /\ f \notin ToSet(queue) \cup ToSet(ordered)})
    /\ ordered' = Append(ordered, Head(queue))
    /\ UNCHANGED <<links, priority, sorted, calls, visited, cycleVars, impactVars, askVars>>

(* A mutant: the queue is in the order of arrival. *)
ProcessUnsorted ==
    /\ queue # <<>>
    /\ inDegree' = Degrees(Head(queue))
    /\ \E new \in InArrayOrder({f \in Dependents(Head(queue)) : inDegree'[f] = 0}) :
          queue' = Tail(queue) \o new
    /\ ordered' = Append(ordered, Head(queue))
    /\ UNCHANGED <<links, priority, sorted, calls, visited, cycleVars, impactVars, askVars>>

Process ==
    /\ queue # <<>>
    /\ inDegree' = Degrees(Head(queue))
    /\ queue' \in Queued(Tail(queue), {f \in Dependents(Head(queue)) : inDegree'[f] = 0})
    /\ ordered' = Append(ordered, Head(queue))
    /\ UNCHANGED <<links, priority, sorted, calls, visited, cycleVars, impactVars, askVars>>

--------------------------------------------------------------------------------
(* A call that has not returned, and the dependency that the innermost looks at. *)
DepsOf(id) == IF id \in Listed THEN links[id] ELSE <<>>
CallOf(id) == [id |-> id, next |-> 1]
Top == calls[Len(calls)]
More == calls # <<>> /\ Top.next <= Len(DepsOf(Top.id))
Dep == DepsOf(Top.id)[Top.next]
Advanced == [calls EXCEPT ![Len(calls)].next = @ + 1]

(* detectCycles, over the features that Kahn's algorithm has left. *)
Searching == queue = <<>> /\ ~sorted
Left == (Listed \ ToSet(ordered)) \ visited

Enter(outer, id) ==
    /\ calls' = Append(outer, CallOf(id))
    /\ visited' = visited \cup {id}
    /\ recursionStack' = recursionStack \cup {id}
    /\ currentPath' = Append(currentPath, id)
    /\ UNCHANGED <<sortVars, cycles, impactVars, askVars>>

DfsFirst ==
    /\ Searching /\ calls = <<>>
    /\ \E f \in Left : (\A g \in Left : Index(Order, f) <= Index(Order, g)) /\ Enter(<<>>, f)

DfsDeeper == Searching /\ More /\ Dep \notin visited /\ Enter(Advanced, Dep)

DfsPast ==
    /\ Searching /\ More /\ Dep \in visited \ recursionStack
    /\ calls' = Advanced
    /\ UNCHANGED <<sortVars, visited, cycleVars, impactVars, askVars>>

(* Every call returns true, and leaves the stack and the path as they are. *)
DfsCycle ==
    /\ Searching /\ More /\ Dep \in visited \cap recursionStack
    /\ cycles' = Append(cycles, SubSeq(currentPath, Index(currentPath, Dep), Len(currentPath)))
    /\ calls' = <<>>
    /\ UNCHANGED <<sortVars, visited, recursionStack, currentPath, impactVars, askVars>>

DfsReturns ==
    /\ Searching /\ calls # <<>> /\ ~More
    /\ calls' = Front(calls)
    /\ currentPath' = Front(currentPath)
    /\ recursionStack' = recursionStack \ {Top.id}
    /\ UNCHANGED <<sortVars, visited, cycles, impactVars, askVars>>

DetectCycles == DfsFirst \/ DfsDeeper \/ DfsPast \/ DfsCycle \/ DfsReturns

Source(k) == IF k <= Len(Order) THEN {Order[k]} ELSE {}

(* A mutant: nobody looks for the cycles. *)
FinishUnsearched ==
    /\ Searching
    /\ sorted' = TRUE
    /\ \E remaining \in InArrayOrder(Listed \ ToSet(ordered)) : ordered' = ordered \o remaining
    /\ calls' = <<>> /\ visited' = {} /\ recursionStack' = {} /\ currentPath' = <<>>
    /\ pending' = Source(1)
    /\ UNCHANGED <<links, priority, inDegree, queue, cycles, impact, askVars>>

Finish ==
    /\ Searching /\ calls = <<>> /\ Left = {}
    /\ sorted' = TRUE
    /\ \E remaining \in InArrayOrder(Listed \ ToSet(ordered)) : ordered' = ordered \o remaining
    /\ visited' = {} /\ recursionStack' = {} /\ currentPath' = <<>>
    /\ pending' = Source(1)
    /\ UNCHANGED <<links, priority, inDegree, queue, calls, cycles, impact, askVars>>

--------------------------------------------------------------------------------
(* downstreamImpact: breadth first from each feature.  The order in which an id leaves *)
(* the queue does not matter to the count.                                               *)
Counting == sorted /\ Len(impact) < Len(Order)

(* A mutant: a dependent is counted and not queued. *)
VisitOnce ==
    /\ Counting
    /\ \E id \in pending :
        /\ visited' = visited \cup Dependents(id)
        /\ pending' = pending \ {id}
    /\ UNCHANGED <<sortVars, calls, cycleVars, impact, askVars>>

Visit ==
    /\ Counting
    /\ \E id \in pending :
        /\ visited' = visited \cup Dependents(id)
        /\ pending' = (pending \ {id}) \cup (Dependents(id) \ visited)
    /\ UNCHANGED <<sortVars, calls, cycleVars, impact, askVars>>

Count ==
    /\ Counting /\ pending = {}
    /\ impact' = Append(impact, Cardinality(visited))
    /\ visited' = {}
    /\ pending' = Source(Len(impact) + 2)
    /\ UNCHANGED <<sortVars, calls, cycleVars, askVars>>

--------------------------------------------------------------------------------
(* wouldCreateCircularDependency, over the same features.  canReach keeps what it has *)
(* visited between its branches.                                                         *)
Asking == question # <<>>

Ask(from, to) ==
    /\ sorted /\ ~Counting /\ ~Asking
    /\ question' = <<from, to>> /\ reached' = (from = to)
    /\ IF from = to THEN UNCHANGED <<calls, visited>>
       ELSE calls' = <<CallOf(from)>> /\ visited' = {from}
    /\ UNCHANGED <<sortVars, cycleVars, impactVars>>

ReachFinds ==
    /\ Asking /\ More /\ Dep = question[2]
    /\ reached' = TRUE /\ calls' = <<>>
    /\ UNCHANGED <<sortVars, visited, cycleVars, impactVars, question>>

ReachDeeper ==
    /\ Asking /\ More /\ Dep # question[2] /\ Dep \notin visited
    /\ calls' = Append(Advanced, CallOf(Dep)) /\ visited' = visited \cup {Dep}
    /\ UNCHANGED <<sortVars, cycleVars, impactVars, askVars>>

ReachPast ==
    /\ Asking /\ More /\ Dep # question[2] /\ Dep \in visited
    /\ calls' = Advanced
    /\ UNCHANGED <<sortVars, visited, cycleVars, impactVars, askVars>>

ReachReturns ==
    /\ Asking /\ calls # <<>> /\ ~More
    /\ calls' = Front(calls)
    /\ UNCHANGED <<sortVars, visited, cycleVars, impactVars, askVars>>

CanReach == ReachFinds \/ ReachDeeper \/ ReachPast \/ ReachReturns

ResolverNext ==
    \/ Process \/ DetectCycles \/ Finish
    \/ Visit \/ Count
    \/ \E from, to \in Listed : Ask(from, to)
    \/ CanReach

ResolverSpec == ResolverInit /\ [][ResolverNext]_resolverVars

--------------------------------------------------------------------------------
Graph == [f \in Listed |-> ToSet(links[f]) \cap Listed]

OnCycle == {f \in Listed : Reaches(Graph, f, f)}
Sortable == {f \in Listed : f \notin OnCycle /\ \A g \in OnCycle : ~Reaches(Graph, f, g)}
Place(f) == CHOOSE i \in DOMAIN ordered : ordered[i] = f

(* Every feature is returned once, and comes after everything it depends on, unless *)
(* it is on a cycle or depends on one.                                               *)
OrderRespectsDependencies ==
    sorted => /\ IsInjective(ordered) /\ ToSet(ordered) = Listed
              /\ \A f \in Sortable, g \in Listed : Reaches(Graph, f, g) => Place(g) < Place(f)

(* Between two features that could both be next, the one with the smaller number comes *)
(* first: f does not come before g if g's dependencies were there when f was taken.      *)
PriorityDecides ==
    sorted => \A f, g \in Sortable :
        Place(f) < Place(g) /\ (\A h \in Listed : Reaches(Graph, g, h) => Place(h) < Place(f))
            => priority[f] <= priority[g]

(* circularDependencies is empty exactly when nothing is circular, and the first group *)
(* it names is a cycle: each depends on the next, and the last on the first.             *)
IsCycle(c) ==
    /\ c # <<>>
    /\ \A i \in DOMAIN c : Contains(links[c[i]], IF i < Len(c) THEN c[i + 1] ELSE c[1])
CyclesAreFound ==
    sorted => /\ cycles = <<>> <=> Acyclic(Graph)
              /\ cycles # <<>> => IsCycle(cycles[1])

(* The searches agree with the definition of a path: downstreamImpact counts the features *)
(* that depend on one, however many ways there are, also through a cycle, and canReach      *)
(* finds a feature exactly if a chain of dependencies leads to it.                           *)
SearchesAreExact ==
    /\ \A i \in DOMAIN impact : impact[i] = Impact(Graph, Order[i])
    /\ Asking /\ calls = <<>> => (reached <=> ClosesCycle(Graph, question[2], {question[1]}))

Sort == INSTANCE DependencyOrder WITH
    Nodes <- Listed, Ranks <- Priorities,
    needs <- Graph, rank <- priority, placed <- ordered, ended <- sorted

(* The degrees it counts down and the queue it sorts again make the order that           *)
(* DependencyOrder describes.                                                            *)
SortsInOrder == Sort!OrderSpec

================================================================================
