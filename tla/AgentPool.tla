------------------------------- MODULE AgentPool -------------------------------
(***************************************************************************)
(* What GlobalAgentSemaphore promises, with no queue, cap or promise in    *)
(* sight: a launch asks, waits, runs and ends; at most MaxAgents run at    *)
(* once.  AgentSemaphore implements it.                                    *)
(***************************************************************************)
EXTENDS Integers, FiniteSets

CONSTANTS
    Launches,   \* the calls of runAgent, each made once
    MaxAgents   \* MAX_SYSTEM_CONCURRENCY

VARIABLES
    waiting,    \* launches that asked for a slot and do not have one yet
    running,    \* launches that hold a slot
    ended       \* launches that have given theirs back

vars == <<waiting, running, ended>>

Init ==
    /\ waiting = {}
    /\ running = {}
    /\ ended = {}

Ask(l) ==
    /\ l \notin waiting \cup running \cup ended
    /\ waiting' = waiting \cup {l}
    /\ UNCHANGED <<running, ended>>

(* Several waiters may be let in by one step: one drain wakes as many as fit. *)
Grant(G) ==
    /\ G # {}
    /\ Cardinality(running \cup G) <= MaxAgents
    /\ waiting' = waiting \ G
    /\ running' = running \cup G
    /\ UNCHANGED ended

End(l) ==
    /\ l \in running
    /\ running' = running \ {l}
    /\ ended' = ended \cup {l}
    /\ UNCHANGED waiting

Next ==
    \/ \E l \in Launches : Ask(l) \/ End(l)
    \/ \E G \in SUBSET waiting : Grant(G)

Spec == Init /\ [][Next]_vars

================================================================================
