------------------------- MODULE MCCompletionDetector -------------------------
(* CompletionDetector for a milestone with an epic that has one child. *)
EXTENDS CompletionDetector, TLC

CONSTANTS child, epic, milestone

OneEpic == [f \in Features |-> epic]
OneMilestone == [x \in Features \cup Epics |-> milestone]

(* Bound: after a disturbance the other writers of the project are not followed.  Of the *)
(* invariants only ClaimIsHonoured speaks of what comes then, and it does not read the   *)
(* project.                                                                              *)
Rested == disturbed => \A s \in Syncs : sync[s].at = "idle"

Symmetry == Permutations(Calls)

================================================================================
