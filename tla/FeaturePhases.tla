----------------------------- MODULE FeaturePhases -----------------------------
(***************************************************************************)
(* What the phase processors of the lead engineer do to one feature: the    *)
(* board entry, the pull requests of its branch, the context of the call of *)
(* process that is under way and the checkpoint it leaves, together with    *)
(* the others that write the same things: the scheduler's reconciliation,   *)
(* the webhook, auto-decay, resets, people and GitHub.                      *)
(*                                                                         *)
(* FeatureStateMachine models the loop that calls the processors, its gates *)
(* and budgets and the asynchronous saves; here the loop is a sequence and  *)
(* a save is immediate.  A processor that waits for GitHub, an agent or the *)
(* board between a read and the write that rests on it is split there.  The *)
(* feature has a branch: read-only ones, which make no pull request and are *)
(* done when their agent is, are not modelled.                              *)
(***************************************************************************)
EXTENDS Naturals, FiniteSets

CONSTANTS
    MaxPrs,           \* bound: pull requests of the branch
    MaxPlanRetries,   \* PlanProcessor.MAX_PLAN_RETRIES
    MaxAgentRetries,  \* MAX_AGENT_RETRIES
    MaxInfraRetries,  \* MAX_INFRA_RETRIES
    MaxReviewCycles,  \* maxReviewRemediationCycles
    MaxTotalCycles,   \* maxTotalRemediationCycles
    MaxMergeRetries,  \* MAX_MERGE_RETRIES
    Crashes           \* whether the server may stop

ASSUME BoundsAssumption ==
    /\ {MaxPrs, MaxPlanRetries, MaxAgentRetries, MaxInfraRetries, MaxReviewCycles,
        MaxTotalCycles, MaxMergeRetries} \subseteq Nat
    /\ Crashes \in BOOLEAN

VARIABLES
    status,      \* feature.status; "closed" is done, set by hand
    link,        \* feature.prNumber, 0 without one
    mergedAt,    \* feature.prMergedAt is set
    stamp,       \* feature.reviewStartedAt: "none", "new", or "old" (past the review timeout)
    pr,          \* the pull requests of feature.branchName, on GitHub
    lead,        \* the call of process under way: where it is, and its StateContext
    checkpoint   \* the checkpoint file: the phase and the part of the context it keeps

board == <<status, link, mergedAt, stamp>>
vars == <<board, pr, lead, checkpoint>>

PRs == 1..MaxPrs
Done == {"done", "closed"}

(* What nobody reads of a closed or merged one is dropped.  seen is a history field: a *)
(* look of REVIEW has called the pull request approved.                                 *)
Unopened == [state |-> "none", review |-> "none", ci |-> "running", seen |-> FALSE]
Settled(s) == [Unopened EXCEPT !.state = s]
PrStates == [
    state : {"none", "open", "merged", "closed"},
    review : {"none", "approved", "changes"},
    ci : {"running", "green", "red"},
    seen : BOOLEAN]

(* "found", "clear" and "agent" are inside EXECUTE; "look", "landed" and "block" inside *)
(* REVIEW, MERGE and ESCALATE.                                                           *)
Phases == {"INTAKE", "PLAN", "EXECUTE", "REVIEW", "MERGE"}
Places == Phases \cup {"DEPLOY", "ESCALATE", "found", "clear", "agent", "look", "landed", "block"}

Idle == [
    at |-> "idle", pr |-> 0, retries |-> 0, infra |-> 0, plans |-> 0, cycles |-> 0, merges |-> 0,
    merged |-> FALSE,     \* prMergedAt in the copy of the feature the call holds
    raced |-> FALSE]      \* history: somebody set done between a read and its write

(* serializeContext, with the phase. *)
Kept(l) == [at |-> l.at, pr |-> l.pr, retries |-> l.retries, cycles |-> l.cycles, merges |-> l.merges]
NoCheckpoint == Kept(Idle)

Init ==
    /\ status = "backlog" /\ link = 0 /\ mergedAt = FALSE /\ stamp = "none"
    /\ pr = [p \in PRs |-> Unopened]
    /\ lead = Idle /\ checkpoint = NoCheckpoint

--------------------------------------------------------------------------------
(* How a processor hands back. *)

Saved(l) == IF l.at \in Phases THEN Kept(l) ELSE checkpoint

(* The loop goes on at s; the terminal states are not saved. *)
Goto(l, s) ==
    LET m == [l EXCEPT !.at = s] IN lead' = m /\ checkpoint' = Saved(m)

(* nextState null: the checkpoint stays. *)
Stop == lead' = Idle /\ UNCHANGED checkpoint

(* The loop ends in DONE or ESCALATE: the checkpoint is deleted. *)
Finish == lead' = Idle /\ checkpoint' = NoCheckpoint

(* A self-loop of REVIEW or MERGE: the call returns with the context saved. *)
Suspend(l, s) == lead' = Idle /\ checkpoint' = Kept([l EXCEPT !.at = s])

Within(s) == lead' = [lead EXCEPT !.at = s] /\ UNCHANGED checkpoint

Open == {p \in PRs : pr[p].state = "open"}
Merged == {p \in PRs : pr[p].state = "merged"}

(* FeatureLoader.update stamps a feature that comes into review. *)
ToReview(p) ==
    /\ status' = "review" /\ link' = p
    /\ stamp' = IF status # "review" /\ stamp = "none" THEN "new" ELSE stamp
    /\ UNCHANGED mergedAt
ToStatus(s) == status' = s /\ UNCHANGED <<link, mergedAt, stamp>>

(* The call's copy of the feature is read again. *)
Reloaded == [lead EXCEPT !.merged = mergedAt, !.pr = IF link # 0 THEN link ELSE @]

--------------------------------------------------------------------------------
(* process: the start of a call *)

Resumed == [Idle EXCEPT !.at = checkpoint.at, !.retries = checkpoint.retries,
                        !.cycles = checkpoint.cycles, !.merges = checkpoint.merges,
                        !.pr = IF checkpoint.pr # 0 THEN checkpoint.pr ELSE link,
                        !.merged = mergedAt]
Ghost == checkpoint.at \in {"REVIEW", "MERGE"} /\ Resumed.pr # 0 /\ pr[Resumed.pr].state = "closed"

Begins ==
    /\ lead.at = "idle" /\ status \notin Done
    /\ lead' = IF checkpoint = NoCheckpoint THEN [Idle EXCEPT !.at = "INTAKE", !.merged = mergedAt]
                                            ELSE Resumed
    /\ checkpoint' = Saved(lead')
    /\ UNCHANGED <<board, pr>>

(* The scheduler dispatches from the backlog, and no feature with an open pull request. *)
Dispatch == status = "backlog" /\ Open = {} /\ ~Ghost /\ Begins

(* The run routes start any feature; a resume whose look at GitHub fails goes on. *)
RunFeature == Begins

(* The pull request of the checkpoint is gone. *)
GhostPr ==
    /\ lead.at = "idle" /\ status \notin Done /\ Ghost
    /\ checkpoint' = NoCheckpoint
    /\ status' = "backlog" /\ link' = 0
    /\ UNCHANGED <<mergedAt, stamp, pr, lead>>

(* The server stops; what the call knew is lost. *)
Crash ==
    /\ Crashes /\ lead.at # "idle"
    /\ lead' = Idle
    /\ UNCHANGED <<board, pr, checkpoint>>

--------------------------------------------------------------------------------
(* INTAKE and PLAN *)

Intake(s) ==
    /\ lead.at = "INTAKE" /\ s \in {"PLAN", "EXECUTE"}
    /\ ToStatus("in_progress")
    /\ Goto(lead, s)
    /\ UNCHANGED pr

(* Unmet dependencies; a plan that does not pass. *)
GivesUp ==
    /\ lead.at \in {"INTAKE", "PLAN"}
    /\ Goto([lead EXCEPT !.plans = 0], "ESCALATE")
    /\ UNCHANGED <<board, pr>>

(* The plan passes, or is made again; nobody reads the count after PLAN. *)
Plan(again) ==
    /\ lead.at = "PLAN"
    /\ again => lead.plans < MaxPlanRetries
    /\ IF again THEN Goto([lead EXCEPT !.plans = @ + 1], "PLAN")
                ELSE Goto([lead EXCEPT !.plans = 0], "EXECUTE")
    /\ UNCHANGED <<board, pr>>

--------------------------------------------------------------------------------
(* EXECUTE *)

(* A mutant: without the look at the board. *)
ExecutesAnyway == lead.at = "EXECUTE"

Executes == lead.at = "EXECUTE" /\ status \notin Done

ExecuteRefused ==
    /\ lead.at = "EXECUTE" /\ status \in Done
    /\ Stop
    /\ UNCHANGED <<board, pr>>

CanRetry == lead.retries < MaxAgentRetries

(* gh pr list comes a few awaits after the status is read; nothing opens a pull request *)
(* of the branch between them, so what it finds open was so at the read.                *)
FindsOpen(p) ==
    /\ Executes /\ CanRetry /\ p \in Open
    /\ lead' = [lead EXCEPT !.at = "found", !.pr = p]
    /\ UNCHANGED <<board, pr, checkpoint>>

(* It may fail, which is not fatal, so Open may be anything. *)
FindsNone ==
    /\ Executes /\ CanRetry
    /\ Within("clear")
    /\ UNCHANGED <<board, pr>>

(* No retry is left, or the budget or a kill condition says no; later, the pre-flight *)
(* check, or the third refusal of the gate.                                           *)
ExecuteEscalates ==
    /\ Executes \/ lead.at = "clear"
    /\ Goto(lead, "ESCALATE")
    /\ UNCHANGED <<board, pr>>

(* No agent, on to REVIEW. *)
SkipsToReview ==
    /\ lead.at = "found"
    /\ ToReview(lead.pr)
    /\ Goto(lead, "REVIEW")
    /\ UNCHANGED pr

(* The same catch takes a failing write for a failing look; the number stays. *)
FoundUnsaved ==
    /\ lead.at = "found"
    /\ Within("clear")
    /\ UNCHANGED <<board, pr>>

GateCloses ==
    /\ lead.at = "clear"
    /\ ToStatus("backlog")
    /\ Stop
    /\ UNCHANGED pr

Launch ==
    /\ lead.at = "clear"
    /\ ToStatus("in_progress")
    /\ Within("agent")
    /\ UNCHANGED pr

(* The agent's work is pushed: to the open pull request, or to a new one. *)
AgentPushes(p) ==
    /\ lead.at = "agent"
    /\ IF Open # {} THEN p \in Open ELSE pr[p].state = "none" /\ \A q \in PRs : q < p => pr[q].state # "none"
    /\ pr' = [pr EXCEPT ![p] = [@ EXCEPT !.state = "open", !.ci = "running"]]
    /\ ToReview(p)
    /\ UNCHANGED <<lead, checkpoint>>

(* An event of success, and a number of a pull request on the board or in the context. *)
AgentSucceeds ==
    /\ lead.at = "agent" /\ Reloaded.pr # 0
    /\ Goto(Reloaded, "REVIEW")
    /\ UNCHANGED <<board, pr>>

(* Nothing to review, a cap is exceeded, or the verification gate fails.  The board is *)
(* not asked what became of the feature meanwhile.                                     *)
AgentUnreviewable ==
    /\ lead.at = "agent"
    /\ ToStatus("blocked")
    /\ Stop
    /\ UNCHANGED pr

(* The failure of the agent, or of its start, is tried again, a passing one of the *)
(* infrastructure separately.                                                       *)
AgentFails(s) ==
    /\ lead.at \in {"clear", "agent"} /\ s \in {status, "backlog"} \ {"blocked"}
    /\ ToStatus(s)
    /\ \/ Goto([lead EXCEPT !.retries = @ + 1], "EXECUTE")
       \/ lead.infra < MaxInfraRetries /\ Goto([lead EXCEPT !.infra = @ + 1], "EXECUTE")
    /\ UNCHANGED pr

(* Stranded work, or a conflict at the start, blocks the feature; a fatal failure, or no *)
(* retry left, ends the call in ESCALATE without its processor.                          *)
AgentGivesUp(s) ==
    /\ lead.at \in {"clear", "agent"} /\ s \in {status, "backlog", "blocked"}
    /\ ToStatus(s)
    /\ Finish
    /\ UNCHANGED pr

--------------------------------------------------------------------------------
(* REVIEW *)

(* enter stamps the feature; process reads it again. *)
ReviewReads ==
    /\ lead.at = "REVIEW"
    /\ stamp' = IF stamp = "none" THEN "new" ELSE stamp
    /\ IF status \in Done THEN Stop
       ELSE lead' = [Reloaded EXCEPT !.at = "look"] /\ UNCHANGED checkpoint
    /\ UNCHANGED <<status, link, mergedAt, pr>>

(* checkBranchMerged: any merged pull request of the branch will do. *)
Superseded ==
    /\ lead.at = "look" /\ Merged # {}
    /\ ToStatus("done")
    /\ Stop
    /\ UNCHANGED pr

Current == pr[lead.pr]
Looks == lead.at = "look" /\ lead.pr # 0

(* A conflict: the pull request is closed, which may fail, and the feature goes back, *)
(* unless the branch is now known to be merged.                                       *)
Conflicts(closes) ==
    /\ Looks /\ Current.state = "open"
    /\ pr' = IF closes THEN [pr EXCEPT ![lead.pr] = Settled("closed")] ELSE pr
    /\ ToStatus("backlog") \/ (Merged # {} /\ ToStatus("done"))
    /\ Stop

(* getPRReviewState of an open pull request, where the repository asks for reviews *)
(* (reviewDecision is set) and where it does not.                                  *)
Decision(r) ==
    CASE r.review = "approved" -> "approved"
      [] r.review = "changes" -> "changes"
      [] r.review = "none" /\ r.ci = "red" -> "failed"
      [] OTHER -> "pending"
NoDecision(r) ==
    CASE r.ci = "red" -> "failed"
      [] r.review = "approved" /\ r.ci = "green" -> "approved"
      [] OTHER -> "pending"

Found(verdict) == Looks /\ Current.state = "open" /\ verdict \in {Decision(Current), NoDecision(Current)}

Approved ==
    /\ Found("approved") \/ (Looks /\ Current.state = "merged")
    /\ Goto(lead, "MERGE")
    /\ pr' = [pr EXCEPT ![lead.pr].seen = @ \/ Current.state = "open"]
    /\ UNCHANGED <<board>>

(* A mutant: gh failed, and the branch is not asked whether it is merged. *)
TakenAsMergedUnasked ==
    /\ Looks
    /\ Goto(lead, "MERGE")
    /\ UNCHANGED <<board, pr>>

(* gh failed, and then finds the branch merged, be it by another pull request. *)
TakenAsMerged ==
    /\ Looks /\ Merged # {}
    /\ Goto(lead, "MERGE")
    /\ UNCHANGED <<board, pr>>

(* RemediationBudgetEnforcer, with the counters that are written: remediationAttempts. *)
Allowed(verdict) ==
    /\ lead.cycles < MaxTotalCycles
    /\ verdict = "changes" => lead.cycles < MaxReviewCycles

Remediates(verdict) ==
    /\ verdict \in {"changes", "failed"} /\ Found(verdict) /\ Allowed(verdict)
    /\ Goto([lead EXCEPT !.cycles = @ + 1], "EXECUTE")
    /\ UNCHANGED <<board, pr>>

(* The audit dismisses what a bot asked for. *)
Dismisses ==
    /\ Found("changes")
    /\ pr' = [pr EXCEPT ![lead.pr].review = "none"]
    /\ Suspend(lead, "REVIEW")
    /\ UNCHANGED <<board>>

(* No number; an audit or a fresh-eyes review that says no; no budget; an error; too long. *)
ReviewEscalates ==
    /\ lead.at = "look"
    /\ \/ lead.pr = 0
       \/ Found("approved") \/ Found("changes")
       \/ Found("failed") /\ ~Allowed("failed")
       \/ Looks \* gh fails
       \/ Found("pending") /\ stamp = "old"
    /\ Goto(lead, "ESCALATE")
    /\ UNCHANGED <<board, pr>>

ReviewWaits ==
    /\ Found("pending") /\ stamp # "old"
    /\ Suspend(lead, "REVIEW")
    /\ UNCHANGED <<board, pr>>

PrIsClosed ==
    /\ Looks /\ Current.state = "closed"
    /\ status' = "backlog" /\ link' = 0
    /\ Stop
    /\ UNCHANGED <<mergedAt, stamp, pr>>

--------------------------------------------------------------------------------
(* MERGE, DEPLOY and ESCALATE *)

CanMerge == lead.at = "MERGE" /\ lead.pr # 0 /\ lead.merges < MaxMergeRetries

(* A mutant: without the look. *)
MergeTaken ==
    /\ CanMerge /\ Current.state \in {"open", "merged"}
    /\ Within("landed")
    /\ UNCHANGED <<board, pr>>

(* gh pr merge, and a look that finds it merged. *)
MergeLands ==
    /\ CanMerge /\ Current.state \in {"open", "merged"}
    /\ pr' = [pr EXCEPT ![lead.pr] = Settled("merged")]
    /\ Within("landed")
    /\ UNCHANGED <<board>>

(* Queued, or checks are missing. *)
MergeWaits ==
    /\ CanMerge /\ Current.state = "open"
    /\ Suspend([lead EXCEPT !.merges = @ + 1], "MERGE")
    /\ UNCHANGED <<board, pr>>

(* No number, no retry left, or gh says no. *)
MergeEscalates ==
    /\ lead.at = "MERGE"
    /\ Goto(lead, "ESCALATE")
    /\ UNCHANGED <<board, pr>>

(* The files of the pull request decide: source code, or lock files only. *)
MergeRecorded(source) ==
    /\ lead.at = "landed"
    /\ status' = IF source THEN "done" ELSE "blocked"
    /\ mergedAt' = TRUE
    /\ Goto(lead, IF source THEN "DEPLOY" ELSE "ESCALATE")
    /\ UNCHANGED <<link, stamp, pr>>

Deploys ==
    /\ lead.at = "DEPLOY"
    /\ status \in Done \/ (mergedAt /\ Reloaded.pr # 0)
    /\ IF status \in Done THEN UNCHANGED board ELSE ToStatus("done")
    /\ Finish
    /\ UNCHANGED pr

(* The copy of the feature says it was merged, or the board that it is done. *)
EscalationSuppressed ==
    /\ lead.at = "ESCALATE" /\ (lead.merged \/ status \in Done)
    /\ IF lead.merged THEN ToStatus("done") ELSE UNCHANGED board
    /\ Finish
    /\ UNCHANGED pr

EscalateReads ==
    /\ lead.at = "ESCALATE" /\ ~lead.merged /\ status \notin Done
    /\ Within("block")
    /\ UNCHANGED <<board, pr>>

EscalateBlocks ==
    /\ lead.at = "block"
    /\ ToStatus("blocked")
    /\ Finish
    /\ UNCHANGED pr

--------------------------------------------------------------------------------
(* Everybody else *)

(* Done written by another, and whether a processor has read the status and not yet written. *)
Windows == {"INTAKE", "found", "clear", "agent", "look", "MERGE", "landed", "block"}
Disturbed(s) == lead' = IF s \in Done /\ lead.at \in Windows THEN [lead EXCEPT !.raced = TRUE] ELSE lead

(* loadPendingFeatures: what is merged is done. *)
Reconciles ==
    /\ \/ status \in {"backlog", "blocked", "review"} /\ Merged # {}
       \/ mergedAt /\ status \notin Done
    /\ status' = "done"
    /\ Disturbed("done")
    /\ IF Merged # {} THEN link' \in Merged /\ mergedAt' = TRUE ELSE UNCHANGED <<link, mergedAt>>
    /\ UNCHANGED <<stamp, pr, checkpoint>>

(* loadPendingFeatures: a closed pull request is unlinked. *)
Unlinks ==
    /\ status \in {"backlog", "blocked", "review"}
    /\ link # 0 /\ pr[link].state = "closed"
    /\ link' = 0
    /\ UNCHANGED <<status, mergedAt, stamp, pr, lead, checkpoint>>

(* loadPendingFeatures: an open pull request puts the feature into review, also one *)
(* that was blocked until its dependencies were met.                                *)
SyncsToReview(p) ==
    /\ status \in {"backlog", "blocked"} /\ p \in Open
    /\ ToReview(p)
    /\ UNCHANGED <<pr, lead, checkpoint>>

(* loadPendingFeatures: the conflict, or the dependency, that blocked it is gone. *)
Unblocks ==
    /\ status = "blocked"
    /\ ToStatus("backlog")
    /\ UNCHANGED <<pr, lead, checkpoint>>

(* checkAndDecayStalled. *)
Decays ==
    /\ status = "review" /\ stamp = "old"
    /\ status' = "backlog" /\ stamp' = "none"
    /\ UNCHANGED <<link, mergedAt, pr, lead, checkpoint>>

(* The webhook: somebody merged a pull request of the branch, with source code or not. *)
WebhookMerged(s) ==
    /\ status \notin Done /\ Merged # {} /\ s \in {"done", "blocked"}
    /\ ToStatus(s)
    /\ Disturbed(s)
    /\ UNCHANGED <<pr, checkpoint>>

(* The webhook and the health check: the linked pull request was closed. *)
WebhookClosed ==
    /\ status = "review" /\ link # 0 /\ pr[link].state = "closed"
    /\ status' = "backlog" /\ link' = 0 /\ stamp' = "none"
    /\ UNCHANGED <<mergedAt, pr, lead, checkpoint>>

(* A person, or a rule, sets the status, or the scheduler sets done again within a day of *)
(* somebody's having done so.                                                               *)
Moves(s) ==
    /\ s \in {"backlog", "blocked", "closed"} \ {status}
    /\ ToStatus(s)
    /\ Disturbed(s)
    /\ UNCHANGED <<pr, checkpoint>>

(* resetToBacklog. *)
Resets ==
    /\ ToStatus("backlog")
    /\ checkpoint' = NoCheckpoint
    /\ UNCHANGED <<pr, lead>>

(* GitHub: reviews, checks, merges and closings by others. *)
Reviewed(p, r) ==
    /\ p \in Open
    /\ pr' = [pr EXCEPT ![p].review = r]
    /\ UNCHANGED <<board, lead, checkpoint>>
Checked(p, c) ==
    /\ p \in Open /\ pr[p].ci = "running" /\ c \in {"green", "red"}
    /\ pr' = [pr EXCEPT ![p].ci = c]
    /\ UNCHANGED <<board, lead, checkpoint>>
MergedOrClosed(p, s) ==
    /\ p \in Open /\ s \in {"merged", "closed"}
    /\ pr' = [pr EXCEPT ![p] = Settled(s)]
    /\ UNCHANGED <<board, lead, checkpoint>>

(* The review timeout passes. *)
TimePasses ==
    /\ stamp = "new"
    /\ stamp' = "old"
    /\ UNCHANGED <<status, link, mergedAt, pr, lead, checkpoint>>

--------------------------------------------------------------------------------

Works ==
    \/ \E s \in {"PLAN", "EXECUTE"} : Intake(s)
    \/ GivesUp \/ \E again \in BOOLEAN : Plan(again)
    \/ ExecuteRefused \/ ExecuteEscalates \/ \E p \in PRs : FindsOpen(p)
    \/ FindsNone \/ SkipsToReview \/ FoundUnsaved \/ GateCloses \/ Launch
    \/ AgentSucceeds \/ AgentUnreviewable
    \/ \E s \in {status, "backlog", "blocked"} : AgentFails(s) \/ AgentGivesUp(s)
    \/ ReviewReads \/ Superseded \/ \E closes \in BOOLEAN : Conflicts(closes)
    \/ Approved \/ TakenAsMerged \/ Dismisses \/ ReviewEscalates \/ ReviewWaits \/ PrIsClosed
    \/ \E verdict \in {"changes", "failed"} : Remediates(verdict)
    \/ MergeLands \/ MergeWaits \/ MergeEscalates
    \/ \E source \in BOOLEAN : MergeRecorded(source)
    \/ Deploys \/ EscalationSuppressed \/ EscalateReads \/ EscalateBlocks

Schedules == Dispatch \/ Reconciles \/ Unlinks \/ Unblocks \/ Decays \/ \E p \in PRs : SyncsToReview(p)

Others ==
    \/ \E p \in PRs : \/ AgentPushes(p)
                      \/ \E r \in {"none", "approved", "changes"} : Reviewed(p, r)
                      \/ \E c \in {"green", "red"} : Checked(p, c)
                      \/ \E s \in {"merged", "closed"} : MergedOrClosed(p, s)
    \/ \E s \in {"backlog", "blocked", "done", "closed"} : WebhookMerged(s) \/ Moves(s)
    \/ WebhookClosed \/ Resets \/ TimePasses

Next == Works \/ Schedules \/ Others \/ RunFeature \/ GhostPr \/ Crash

Spec == Init /\ [][Next]_vars

--------------------------------------------------------------------------------
(* Type invariant. *)
TypeOK ==
    /\ status \in {"backlog", "in_progress", "review", "blocked"} \cup Done
    /\ link \in 0..MaxPrs
    /\ mergedAt \in BOOLEAN
    /\ stamp \in {"none", "new", "old"}
    /\ pr \in [PRs -> PrStates]
    /\ lead \in [at : Places \cup {"idle"}, pr : 0..MaxPrs, retries : 0..MaxAgentRetries,
                 infra : 0..MaxInfraRetries, plans : 0..MaxPlanRetries,
                 cycles : 0..MaxTotalCycles, merges : 0..MaxMergeRetries,
                 merged : BOOLEAN, raced : BOOLEAN]
    /\ checkpoint \in [at : Phases \cup {"idle"}, pr : 0..MaxPrs, retries : 0..MaxAgentRetries,
                       cycles : 0..MaxTotalCycles, merges : 0..MaxMergeRetries]

(* Unless somebody said so by hand, a feature is done only when a pull request of its *)
(* branch was merged ("done means PR merged"), whoever wrote the status and whatever  *)
(* was resumed, repeated or lost on the way.                                          *)
DoneMeansMerged == status = "done" => Merged # {}

(* The pipeline merges only a pull request that a look of REVIEW has called approved, *)
(* also when MERGE is resumed after a restart, a requeue or with another number on    *)
(* the board, unless the branch already had a merged one when it looked.              *)
MergesWereApproved ==
    [][lead.at = "MERGE" /\ lead'.at = "landed" => Current.seen \/ Merged # {}]_vars

(* A processor takes done away from a feature only if done was written while a call   *)
(* was between its read of the status and its write: every later call, retry and     *)
(* escalation leaves a finished feature alone.                                       *)
DoneStands == [][lead' # lead /\ status \in Done /\ status' \notin Done => lead.raced]_vars

================================================================================
