-------------------------- MODULE FeaturePhasesProofs --------------------------
(***************************************************************************)
(* Theorems about FeaturePhases, for every number of pull requests and      *)
(* every budget.                                                            *)
(***************************************************************************)
EXTENDS FeaturePhases, TLAPS

BoardStatuses == {"backlog", "in_progress", "review", "blocked"} \cup Done
Leads == [at : Places \cup {"idle"}, pr : 0..MaxPrs, retries : 0..MaxAgentRetries,
          infra : 0..MaxInfraRetries, plans : 0..MaxPlanRetries,
          cycles : 0..MaxTotalCycles, merges : 0..MaxMergeRetries,
          merged : BOOLEAN, raced : BOOLEAN]
Checkpoints == [at : Phases \cup {"idle"}, pr : 0..MaxPrs, retries : 0..MaxAgentRetries,
                cycles : 0..MaxTotalCycles, merges : 0..MaxMergeRetries]

LEMMA Constants ==
    /\ MaxPrs \in Nat /\ MaxPlanRetries \in Nat /\ MaxAgentRetries \in Nat
    /\ MaxInfraRetries \in Nat /\ MaxReviewCycles \in Nat /\ MaxTotalCycles \in Nat
    /\ MaxMergeRetries \in Nat /\ Crashes \in BOOLEAN
BY BoundsAssumption

(* The board, in one place. *)
BoardTyped ==
    /\ status \in BoardStatuses /\ link \in 0..MaxPrs
    /\ mergedAt \in BOOLEAN /\ stamp \in {"none", "new", "old"}

LEMMA TypeSplit ==
    TypeOK <=> BoardTyped /\ pr \in [PRs -> PrStates] /\ lead \in Leads /\ checkpoint \in Checkpoints
BY DEF TypeOK, BoardTyped, BoardStatuses, Leads, Checkpoints

LEMMA Fields ==
    ASSUME NEW l \in Leads
    PROVE  /\ l.at \in Places \cup {"idle"} /\ l.pr \in 0..MaxPrs
           /\ l.retries \in 0..MaxAgentRetries /\ l.infra \in 0..MaxInfraRetries
           /\ l.plans \in 0..MaxPlanRetries /\ l.cycles \in 0..MaxTotalCycles
           /\ l.merges \in 0..MaxMergeRetries
           /\ l.merged \in BOOLEAN /\ l.raced \in BOOLEAN
BY DEF Leads

LEMMA IdleIsLead ==
    /\ Idle \in Leads /\ Idle.at = "idle" /\ Idle.pr = 0 /\ ~Idle.merged /\ ~Idle.raced
    /\ NoCheckpoint \in Checkpoints /\ NoCheckpoint.at = "idle"
BY Constants DEF Idle, NoCheckpoint, Kept, Leads, Checkpoints, Places

(* A lead with one field set. *)
LEMMA AtSet ==
    ASSUME NEW l \in Leads, NEW s \in Places \cup {"idle"}
    PROVE  LET m == [l EXCEPT !.at = s] IN
           /\ m \in Leads /\ m.at = s /\ m.pr = l.pr /\ m.merged = l.merged /\ m.raced = l.raced
           /\ m.retries = l.retries /\ m.cycles = l.cycles /\ m.merges = l.merges
BY DEF Leads

LEMMA PrSet ==
    ASSUME NEW l \in Leads, NEW p \in 0..MaxPrs
    PROVE  LET m == [l EXCEPT !.pr = p] IN
           /\ m \in Leads /\ m.at = l.at /\ m.pr = p /\ m.merged = l.merged /\ m.raced = l.raced
           /\ m.retries = l.retries /\ m.cycles = l.cycles /\ m.merges = l.merges
BY DEF Leads

LEMMA KeptTyped ==
    ASSUME NEW l \in Leads, l.at \in Phases
    PROVE  Kept(l) \in Checkpoints /\ Kept(l).at = l.at /\ Kept(l).pr = l.pr
BY Fields DEF Kept, Checkpoints

LEMMA GotoTyped ==
    ASSUME NEW l \in Leads, NEW s \in Places, checkpoint \in Checkpoints, Goto(l, s)
    PROVE  /\ lead' \in Leads /\ lead'.at = s /\ lead'.pr = l.pr
           /\ lead'.merged = l.merged /\ lead'.raced = l.raced
           /\ checkpoint' \in Checkpoints
           /\ s \in Phases => checkpoint'.at = s /\ checkpoint'.pr = l.pr
           /\ s \notin Phases => checkpoint' = checkpoint
<1>1. lead' \in Leads /\ lead'.at = s /\ lead'.pr = l.pr /\ lead'.merged = l.merged /\ lead'.raced = l.raced
  BY AtSet DEF Goto
<1>2. checkpoint' = IF s \in Phases THEN Kept(lead') ELSE checkpoint
  BY <1>1 DEF Goto, Saved
<1> QED BY <1>1, <1>2, KeptTyped

LEMMA ReloadedTyped ==
    ASSUME TypeOK
    PROVE  /\ Reloaded \in Leads /\ Reloaded.merged = mergedAt /\ Reloaded.raced = lead.raced
           /\ Reloaded.at = lead.at
<1> DEFINE a == [lead EXCEPT !.merged = mergedAt]
<1>1. a \in Leads /\ a.merged = mergedAt /\ a.at = lead.at /\ a.raced = lead.raced
  BY TypeSplit DEF BoardTyped, Leads
<1> HIDE DEF a
<1>2. Reloaded = [a EXCEPT !.pr = IF link # 0 THEN link ELSE a.pr]
  BY <1>1 DEF Reloaded, a, Leads
<1> QED BY <1>1, <1>2, PrSet, Fields, TypeSplit DEF BoardTyped

LEMMA ResumedTyped ==
    ASSUME TypeOK
    PROVE  /\ Resumed \in Leads /\ Resumed.at = checkpoint.at /\ Resumed.merged = mergedAt
           /\ ~Resumed.raced
           /\ checkpoint.pr # 0 => Resumed.pr = checkpoint.pr
<1> DEFINE n == IF checkpoint.pr # 0 THEN checkpoint.pr ELSE link
           a == [Idle EXCEPT !.at = checkpoint.at]
           b == [a EXCEPT !.retries = checkpoint.retries]
           c == [b EXCEPT !.cycles = checkpoint.cycles]
           d == [c EXCEPT !.merges = checkpoint.merges]
           e == [d EXCEPT !.pr = n]
           f == [e EXCEPT !.merged = mergedAt]
<1>0. /\ n \in 0..MaxPrs /\ mergedAt \in BOOLEAN
      /\ checkpoint.at \in Places \cup {"idle"} /\ checkpoint.retries \in 0..MaxAgentRetries
      /\ checkpoint.cycles \in 0..MaxTotalCycles /\ checkpoint.merges \in 0..MaxMergeRetries
  BY TypeSplit DEF BoardTyped, Checkpoints, Places
<1>1. Resumed = f
  BY DEF Resumed
<1> HIDE DEF a, b, c, d, e, f
<1>2. a \in Leads /\ a.at = checkpoint.at /\ ~a.raced
  BY <1>0, IdleIsLead, AtSet DEF a
<1>3. b \in Leads /\ b.at = checkpoint.at /\ ~b.raced
  BY <1>0, <1>2 DEF Leads, b
<1>4. c \in Leads /\ c.at = checkpoint.at /\ ~c.raced
  BY <1>0, <1>3 DEF Leads, c
<1>5. d \in Leads /\ d.at = checkpoint.at /\ ~d.raced
  BY <1>0, <1>4 DEF Leads, d
<1>6. e \in Leads /\ e.at = checkpoint.at /\ ~e.raced /\ e.pr = n
  BY <1>0, <1>5, PrSet DEF e
<1>7. f \in Leads /\ f.at = checkpoint.at /\ ~f.raced /\ f.pr = n /\ f.merged = mergedAt
  BY <1>0, <1>6 DEF Leads, f
<1> QED BY <1>1, <1>7

--------------------------------------------------------------------------------
(* The pull requests: what is merged, or closed, stays so, and what REVIEW has called *)
(* approved stays so until it is closed or merged.                                   *)

Grown(r, s) ==
    /\ s \in PrStates
    /\ r.state \in {"merged", "closed"} => s.state = r.state
    /\ r.seen => s.seen \/ s.state \in {"merged", "closed"}
Grows == pr' \in [PRs -> PrStates] /\ \A p \in PRs : Grown(pr[p], pr'[p])

LEMMA SettledTyped ==
    ASSUME NEW s \in {"merged", "closed"}
    PROVE  Settled(s) \in PrStates /\ Settled(s).state = s
BY DEF Settled, Unopened, PrStates

LEMMA SameGrows == ASSUME TypeOK, pr' = pr PROVE Grows
BY TypeSplit DEF Grows, Grown

LEMMA UpdateGrows ==
    ASSUME TypeOK, NEW p \in PRs, NEW r, Grown(pr[p], r), pr' = [pr EXCEPT ![p] = r]
    PROVE  Grows
BY TypeSplit DEF Grows, Grown

LEMMA SettledGrows ==
    ASSUME TypeOK, NEW p \in PRs, NEW s \in {"merged", "closed"}, pr[p].state \in {"open", s},
           pr' = [pr EXCEPT ![p] = Settled(s)]
    PROVE  Grows /\ pr'[p].state = s
<1>1. Grown(pr[p], Settled(s))
  BY SettledTyped DEF Grown
<1> QED BY <1>1, UpdateGrows, SettledTyped, TypeSplit

LEMMA PullRequestsGrow ==
    ASSUME TypeOK, Next
    PROVE  Grows
<1> USE DEF Current, Found, Looks, Open
<1>0. /\ pr \in [PRs -> PrStates]
      /\ lead.pr # 0 => lead.pr \in PRs
  BY TypeSplit, Fields, Constants DEF PRs
<1>1. CASE pr' = pr
  BY <1>1, SameGrows
<1>2. ASSUME NEW closes \in BOOLEAN, Conflicts(closes) PROVE Grows
  BY <1>0, <1>2, SameGrows, SettledGrows DEF Conflicts
<1>3. CASE Approved
  <2>1. lead.pr \in PRs /\ pr[lead.pr] \in PrStates
    BY <1>0, <1>3 DEF Approved
  <2> DEFINE r == [pr[lead.pr] EXCEPT !.seen = @ \/ pr[lead.pr].state = "open"]
  <2>2. Grown(pr[lead.pr], r)
    BY <2>1 DEF Grown, PrStates
  <2>3. pr' = [pr EXCEPT ![lead.pr] = r]
    BY <1>3, <2>1 DEF Approved
  <2> QED BY <2>1, <2>2, <2>3, UpdateGrows
<1>4. CASE Dismisses
  <2>1. lead.pr \in PRs /\ pr[lead.pr] \in PrStates
    BY <1>0, <1>4 DEF Dismisses
  <2> DEFINE r == [pr[lead.pr] EXCEPT !.review = "none"]
  <2>2. Grown(pr[lead.pr], r)
    BY <2>1 DEF Grown, PrStates
  <2>3. pr' = [pr EXCEPT ![lead.pr] = r]
    BY <1>4, <2>1 DEF Dismisses
  <2> QED BY <2>1, <2>2, <2>3, UpdateGrows
<1>5. CASE MergeLands
  BY <1>0, <1>5, SettledGrows DEF MergeLands, CanMerge
<1>6. ASSUME NEW p \in PRs, AgentPushes(p) PROVE Grows
  <2> DEFINE a == [pr[p] EXCEPT !.state = "open"]
             b == [a EXCEPT !.ci = "running"]
  <2>1. a \in PrStates /\ a.state = "open" /\ a.seen = pr[p].seen
    BY <1>0 DEF PrStates
  <2> HIDE DEF a
  <2>2. b \in PrStates /\ b.state = "open" /\ b.seen = pr[p].seen
    BY <2>1 DEF PrStates
  <2>3. pr[p].state \notin {"merged", "closed"}
    BY <1>6 DEF AgentPushes
  <2>4. Grown(pr[p], b)
    BY <2>2, <2>3 DEF Grown
  <2>5. pr' = [pr EXCEPT ![p] = b]
    BY <1>0, <1>6 DEF AgentPushes, a
  <2> QED BY <2>4, <2>5, UpdateGrows
<1>7. ASSUME NEW p \in PRs, NEW r \in {"none", "approved", "changes"}, Reviewed(p, r) PROVE Grows
  <2> DEFINE q == [pr[p] EXCEPT !.review = r]
  <2>1. Grown(pr[p], q)
    BY <1>0 DEF Grown, PrStates
  <2>2. pr' = [pr EXCEPT ![p] = q]
    BY <1>0, <1>7 DEF Reviewed
  <2> QED BY <2>1, <2>2, UpdateGrows
<1>8. ASSUME NEW p \in PRs, NEW c \in {"green", "red"}, Checked(p, c) PROVE Grows
  <2> DEFINE q == [pr[p] EXCEPT !.ci = c]
  <2>1. Grown(pr[p], q)
    BY <1>0 DEF Grown, PrStates
  <2>2. pr' = [pr EXCEPT ![p] = q]
    BY <1>0, <1>8 DEF Checked
  <2> QED BY <2>1, <2>2, UpdateGrows
<1>9. ASSUME NEW p \in PRs, NEW s \in {"merged", "closed"}, MergedOrClosed(p, s) PROVE Grows
  BY <1>9, SettledGrows DEF MergedOrClosed
<1>10. CASE Others
  <2>1. ASSUME NEW s, WebhookMerged(s) \/ Moves(s) PROVE pr' = pr
    BY <2>1 DEF WebhookMerged, Moves
  <2>2. CASE WebhookClosed \/ Resets \/ TimePasses
    BY <2>2, <1>1 DEF WebhookClosed, Resets, TimePasses
  <2> QED BY <1>1, <1>6, <1>7, <1>8, <1>9, <1>10, <2>1, <2>2 DEF Others
<1>11. CASE Schedules
  BY <1>1, <1>11 DEF Schedules, Dispatch, Begins, Reconciles, Unlinks, Unblocks, Decays, SyncsToReview
<1>12. CASE RunFeature \/ GhostPr \/ Crash
  BY <1>1, <1>12 DEF RunFeature, Begins, GhostPr, Crash
<1>13. CASE Works
  <2>1. CASE pr' = pr
    BY <2>1, <1>1
  <2>2. CASE \E closes \in BOOLEAN : Conflicts(closes)
    BY <2>2, <1>2
  <2>3. CASE pr' # pr /\ ~\E closes \in BOOLEAN : Conflicts(closes)
    BY <1>3, <1>4, <1>5, <1>13, <2>3
    DEF Works, Intake, GivesUp, Plan, ExecuteRefused, ExecuteEscalates, GateCloses, FindsOpen,
        FindsNone, SkipsToReview, FoundUnsaved, Within, Launch, AgentSucceeds, AgentUnreviewable, AgentFails, AgentGivesUp, ReviewReads,
        Superseded, TakenAsMerged, ReviewEscalates, ReviewWaits, PrIsClosed, Remediates,
        MergeWaits, MergeEscalates, MergeRecorded, Deploys, EscalationSuppressed,
        EscalateReads, EscalateBlocks
  <2> QED BY <2>1, <2>2, <2>3
<1> QED BY <1>10, <1>11, <1>12, <1>13 DEF Next

LEMMA MergedGrows ==
    ASSUME Grows, Merged # {}
    PROVE  Merged' # {}
BY DEF Grows, Grown, Merged

--------------------------------------------------------------------------------
(* The call and its checkpoint: how an action hands them on. *)

LEMMA StopTyped ==
    ASSUME checkpoint \in Checkpoints, Stop \/ Finish
    PROVE  /\ lead' = Idle /\ lead' \in Leads /\ lead'.at = "idle" /\ ~lead'.merged
           /\ checkpoint' \in Checkpoints /\ checkpoint' \in {checkpoint, NoCheckpoint}
BY IdleIsLead DEF Stop, Finish

LEMMA SuspendTyped ==
    ASSUME NEW l \in Leads, NEW s \in Phases, Suspend(l, s)
    PROVE  /\ lead' = Idle /\ lead' \in Leads /\ lead'.at = "idle" /\ ~lead'.merged
           /\ checkpoint' \in Checkpoints /\ checkpoint'.at = s /\ checkpoint'.pr = l.pr
<1> DEFINE m == [l EXCEPT !.at = s]
<1>1. s \in Places \cup {"idle"}
  BY DEF Places
<1>2. m \in Leads /\ m.at = s /\ m.pr = l.pr
  BY <1>1, AtSet
<1>3. lead' = Idle /\ checkpoint' = Kept(m)
  BY DEF Suspend
<1> HIDE DEF m
<1> QED BY <1>2, <1>3, IdleIsLead, KeptTyped

LEMMA WithinTyped ==
    ASSUME lead \in Leads, NEW s \in Places, Within(s)
    PROVE  /\ lead' \in Leads /\ lead'.at = s /\ lead'.pr = lead.pr
           /\ lead'.merged = lead.merged /\ lead'.raced = lead.raced
           /\ lead'.retries = lead.retries
           /\ checkpoint' = checkpoint
BY AtSet DEF Within

LEMMA DisturbedTyped ==
    ASSUME lead \in Leads, NEW s, Disturbed(s)
    PROVE  /\ lead' \in Leads /\ lead'.at = lead.at /\ lead'.pr = lead.pr
           /\ lead'.merged = lead.merged /\ lead'.retries = lead.retries
           /\ s \notin Done => lead' = lead
           /\ s \in Done /\ lead.at \in Windows => lead'.raced
           /\ lead.raced => lead'.raced
BY DEF Disturbed, Leads

(* The context as the processors change it on the way out. *)
LEMMA ContextTyped ==
    ASSUME NEW l \in Leads
    PROVE  /\ [l EXCEPT !.plans = 0] \in Leads
           /\ l.plans < MaxPlanRetries => [l EXCEPT !.plans = @ + 1] \in Leads
           /\ l.retries < MaxAgentRetries => [l EXCEPT !.retries = @ + 1] \in Leads
           /\ l.infra < MaxInfraRetries => [l EXCEPT !.infra = @ + 1] \in Leads
           /\ l.merges < MaxMergeRetries => [l EXCEPT !.merges = @ + 1] \in Leads
           /\ \A m \in {[l EXCEPT !.plans = 0], [l EXCEPT !.plans = @ + 1], [l EXCEPT !.retries = @ + 1],
                         [l EXCEPT !.infra = @ + 1], [l EXCEPT !.merges = @ + 1]} :
                 m.pr = l.pr /\ m.merged = l.merged /\ m.raced = l.raced
<1> USE Constants
<1>1. [l EXCEPT !.plans = 0] \in Leads
  BY Fields DEF Leads
<1>2. l.plans < MaxPlanRetries => [l EXCEPT !.plans = @ + 1] \in Leads
  BY DEF Leads
<1>3. l.retries < MaxAgentRetries => [l EXCEPT !.retries = @ + 1] \in Leads
  BY DEF Leads
<1>4. l.infra < MaxInfraRetries => [l EXCEPT !.infra = @ + 1] \in Leads
  BY DEF Leads
<1>5. l.merges < MaxMergeRetries => [l EXCEPT !.merges = @ + 1] \in Leads
  BY DEF Leads
<1>6. \A m \in {[l EXCEPT !.plans = 0], [l EXCEPT !.plans = @ + 1], [l EXCEPT !.retries = @ + 1],
                 [l EXCEPT !.infra = @ + 1], [l EXCEPT !.merges = @ + 1]} :
        m.pr = l.pr /\ m.merged = l.merged /\ m.raced = l.raced
  BY DEF Leads
<1> QED BY <1>1, <1>2, <1>3, <1>4, <1>5, <1>6

--------------------------------------------------------------------------------
(* The inductive invariant *)

(* An agent has been launched with a retry left, which its failure takes. *)
Budgeted == lead.at \in {"found", "clear", "agent"} => lead.retries < MaxAgentRetries

(* Everything that leads to done without another look at GitHub follows a merge. *)
Evidence ==
    status = "done" \/ mergedAt \/ lead.merged \/ lead.at \in {"landed", "DEPLOY"} => Merged # {}

(* MERGE, and a checkpoint of it, have the number of a pull request that was approved, *)
(* or cannot be merged, or the branch is merged.                                       *)
Vetted(p) == p \in PRs /\ (Merged # {} \/ pr[p].seen \/ pr[p].state = "closed")
Approvals ==
    /\ lead.at = "MERGE" => Vetted(lead.pr)
    /\ checkpoint.at = "MERGE" => Vetted(checkpoint.pr)

(* Between the read of the status and the write the feature is not done, unless it was *)
(* set so meanwhile.                                                                   *)
Unraced == lead.at \in Windows /\ status \in Done => lead.raced

(* What gh pr list found is a pull request. *)
Finding == lead.at = "found" => lead.pr \in PRs

IInv == TypeOK /\ Budgeted /\ Finding /\ Evidence /\ Approvals /\ Unraced

LEMMA InitHolds == Init => IInv
<1> SUFFICES ASSUME Init PROVE IInv
  OBVIOUS
<1>1. Unopened \in PrStates
  BY DEF Unopened, PrStates
<1>2. TypeOK
  <2>1. BoardTyped
    <3>1. status \in BoardStatuses /\ link \in 0..MaxPrs /\ stamp \in {"none", "new", "old"}
      BY Constants DEF Init, BoardStatuses
    <3>2. mergedAt \in BOOLEAN
      BY DEF Init
    <3> QED BY <3>1, <3>2 DEF BoardTyped
  <2>2. pr \in [PRs -> PrStates] /\ lead \in Leads /\ checkpoint \in Checkpoints
    BY <1>1, IdleIsLead DEF Init
  <2> QED BY <2>1, <2>2, TypeSplit
<1>3. Merged = {} /\ status = "backlog" /\ ~mergedAt /\ lead = Idle /\ checkpoint = NoCheckpoint
  BY DEF Init, Merged, Unopened
<1> QED BY <1>2, <1>3, IdleIsLead DEF IInv, Budgeted, Finding, Evidence, Approvals, Unraced, Windows, Done

LEMMA BeginsTyped ==
    ASSUME TypeOK, Begins
    PROVE  /\ lead' \in Leads /\ checkpoint' \in Checkpoints
           /\ status \notin Done /\ UNCHANGED <<board, pr>>
           /\ lead'.merged = mergedAt
           /\ \/ lead'.at = "INTAKE" /\ checkpoint'.at = "INTAKE"
              \/ lead'.at = checkpoint.at /\ lead'.at \notin Phases /\ checkpoint' = checkpoint
              \/ /\ lead'.at = checkpoint.at /\ checkpoint'.at = checkpoint.at
                 /\ checkpoint.pr # 0 => lead'.pr = checkpoint.pr
                 /\ checkpoint'.pr = lead'.pr
<1>1. CASE checkpoint = NoCheckpoint
  <2> DEFINE a == [Idle EXCEPT !.at = "INTAKE"]
             b == [a EXCEPT !.merged = mergedAt]
  <2>1. a \in Leads /\ a.at = "INTAKE"
    BY IdleIsLead, AtSet DEF Places, Phases
  <2>2. lead' = b
    BY <1>1 DEF Begins
  <2> HIDE DEF a
  <2>3. b \in Leads /\ b.at = "INTAKE" /\ b.merged = mergedAt
    BY <2>1, TypeSplit DEF BoardTyped, Leads
  <2> HIDE DEF b
  <2>4. checkpoint' = Kept(b)
    BY <2>2, <2>3 DEF Begins, Saved, Phases
  <2> QED BY <2>2, <2>3, <2>4, KeptTyped DEF Begins, Phases
<1>2. CASE checkpoint # NoCheckpoint
  <2>1. lead' = Resumed /\ checkpoint' = Saved(Resumed)
    BY <1>2 DEF Begins
  <2>2. CASE Resumed.at \in Phases
    BY <2>1, <2>2, ResumedTyped, KeptTyped DEF Begins, Saved
  <2>3. CASE Resumed.at \notin Phases
    BY <2>1, <2>3, ResumedTyped, TypeSplit DEF Begins, Saved
  <2> QED BY <2>2, <2>3
<1> QED BY <1>1, <1>2

LEMMA FindsOpenTyped ==
    ASSUME lead \in Leads, NEW p \in PRs, FindsOpen(p)
    PROVE  /\ lead' \in Leads /\ lead'.at = "found" /\ lead'.pr = p
           /\ lead'.merged = lead.merged /\ lead'.retries = lead.retries
           /\ checkpoint' = checkpoint
<1> DEFINE a == [lead EXCEPT !.at = "found"]
<1>1. /\ a \in Leads /\ a.at = "found" /\ a.merged = lead.merged /\ a.retries = lead.retries
      /\ p \in 0..MaxPrs
  BY AtSet, Constants DEF Places, PRs
<1>2. lead' = [a EXCEPT !.pr = p] /\ checkpoint' = checkpoint
  BY DEF FindsOpen, Leads
<1> HIDE DEF a
<1> QED BY <1>1, <1>2, PrSet

LEMMA TypeHolds ==
    ASSUME IInv, Next
    PROVE  TypeOK'
<1>0. /\ TypeOK /\ BoardTyped /\ pr \in [PRs -> PrStates] /\ lead \in Leads /\ checkpoint \in Checkpoints
      /\ pr' \in [PRs -> PrStates]
  BY TypeSplit, PullRequestsGrow DEF IInv, Grows
<1> DEFINE Goal == BoardTyped' /\ lead' \in Leads /\ checkpoint' \in Checkpoints
<1> SUFFICES Goal
  <2>1. TypeOK' <=> Goal /\ (pr \in [PRs -> PrStates])'
    BY DEF TypeOK, BoardTyped, BoardStatuses, Leads, Checkpoints
  <2> QED BY <1>0, <2>1
<1>a. ASSUME UNCHANGED board PROVE BoardTyped'
  BY <1>0, <1>a DEF board, BoardTyped
<1>b. ASSUME NEW s \in BoardStatuses, ToStatus(s) PROVE BoardTyped'
  BY <1>0, <1>b DEF ToStatus, BoardTyped
<1>c. ASSUME NEW p \in PRs, ToReview(p) PROVE BoardTyped'
  BY <1>0, <1>c, Constants DEF ToReview, BoardTyped, BoardStatuses, PRs
<1>d. {"backlog", "in_progress", "review", "blocked", "done", "closed"} \subseteq BoardStatuses
  BY DEF BoardStatuses, Done
<1>e. status \in BoardStatuses
  BY <1>0 DEF BoardTyped
<1>f. {"INTAKE", "PLAN", "EXECUTE", "REVIEW", "MERGE", "DEPLOY", "ESCALATE", "found", "clear", "agent", "look",
        "landed", "block"} = Places
  BY DEF Places, Phases
<1>1. ASSUME NEW s \in {"PLAN", "EXECUTE"}, Intake(s) PROVE Goal
  BY <1>0, <1>1, <1>b, <1>d, <1>f, GotoTyped DEF Intake
<1>2. CASE GivesUp
  BY <1>0, <1>2, <1>a, <1>f, GotoTyped, ContextTyped DEF GivesUp
<1>3. ASSUME NEW again \in BOOLEAN, Plan(again) PROVE Goal
  BY <1>0, <1>3, <1>a, <1>f, GotoTyped, ContextTyped DEF Plan
<1>4. CASE ExecuteRefused
  BY <1>0, <1>4, <1>a, StopTyped DEF ExecuteRefused
<1>5. CASE ExecuteEscalates
  BY <1>0, <1>5, <1>a, <1>f, GotoTyped, ContextTyped DEF ExecuteEscalates
<1>6. CASE GateCloses
  BY <1>0, <1>6, <1>b, <1>d, StopTyped DEF GateCloses
<1>7. ASSUME NEW p \in PRs, FindsOpen(p) PROVE Goal
  BY <1>0, <1>7, <1>a, FindsOpenTyped DEF FindsOpen
<1>8. CASE FindsNone \/ FoundUnsaved
  BY <1>0, <1>8, <1>a, <1>f, WithinTyped DEF FindsNone, FoundUnsaved
<1>9. CASE SkipsToReview
  <2>1. lead.pr \in PRs
    BY <1>9, Constants DEF SkipsToReview, IInv, Finding
  <2> QED BY <1>0, <1>9, <1>c, <1>f, <2>1, GotoTyped DEF SkipsToReview
<1>10. CASE Launch
  BY <1>0, <1>10, <1>b, <1>d, <1>f, WithinTyped DEF Launch
<1>11. CASE AgentSucceeds
  BY <1>0, <1>11, <1>a, <1>f, ReloadedTyped, GotoTyped DEF AgentSucceeds
<1>12. CASE AgentUnreviewable
  BY <1>0, <1>12, <1>b, <1>d, StopTyped DEF AgentUnreviewable
<1>13. ASSUME NEW s, AgentFails(s) PROVE Goal
  BY <1>0, <1>13, <1>b, <1>d, <1>e, <1>f, GotoTyped, ContextTyped DEF AgentFails, IInv, Budgeted
<1>14. ASSUME NEW s, AgentGivesUp(s) PROVE Goal
  BY <1>0, <1>14, <1>b, <1>d, <1>e, StopTyped DEF AgentGivesUp
<1>15. CASE ReviewReads
  <2>1. BoardTyped'
    BY <1>0, <1>15 DEF ReviewReads, BoardTyped
  <2>2. CASE status \in Done
    BY <1>0, <1>15, <2>1, <2>2, StopTyped DEF ReviewReads
  <2>3. CASE status \notin Done
    <3> DEFINE r == Reloaded
    <3>1. r \in Leads
      BY <1>0, ReloadedTyped
    <3>2. lead' = [r EXCEPT !.at = "look"] /\ checkpoint' = checkpoint
      BY <1>15, <2>3 DEF ReviewReads
    <3> HIDE DEF r
    <3> QED BY <1>0, <1>f, <2>1, <3>1, <3>2, AtSet
  <2> QED BY <2>2, <2>3
<1>16. CASE Superseded
  BY <1>0, <1>16, <1>b, <1>d, StopTyped DEF Superseded
<1>17. ASSUME NEW closes \in BOOLEAN, Conflicts(closes) PROVE Goal
  BY <1>0, <1>17, <1>b, <1>d, StopTyped DEF Conflicts
<1>18. CASE Approved \/ TakenAsMerged
  BY <1>0, <1>18, <1>a, <1>f, GotoTyped DEF Approved, TakenAsMerged
<1>19. CASE Dismisses \/ ReviewWaits
  BY <1>0, <1>19, <1>a, SuspendTyped DEF Dismisses, ReviewWaits, Phases
<1>20. CASE ReviewEscalates \/ MergeEscalates
  BY <1>0, <1>20, <1>a, <1>f, GotoTyped DEF ReviewEscalates, MergeEscalates
<1>21. CASE PrIsClosed
  BY <1>0, <1>21, <1>d, StopTyped, Constants DEF PrIsClosed, BoardTyped
<1>22. ASSUME NEW verdict, Remediates(verdict) PROVE Goal
  <2> DEFINE a == [lead EXCEPT !.cycles = @ + 1]
  <2>1. lead.cycles < MaxTotalCycles
    BY <1>22 DEF Remediates, Allowed
  <2>2. a \in Leads
    BY <1>0, <2>1, Constants DEF Leads
  <2>3. Goto(a, "EXECUTE")
    BY <1>22 DEF Remediates
  <2> HIDE DEF a
  <2> QED BY <1>0, <1>22, <1>a, <1>f, <2>2, <2>3, GotoTyped DEF Remediates
<1>23. CASE MergeLands
  BY <1>0, <1>23, <1>a, <1>f, WithinTyped DEF MergeLands
<1>24. CASE MergeWaits
  <2> DEFINE m == [lead EXCEPT !.merges = @ + 1]
  <2>1. m \in Leads
    BY <1>0, <1>24, ContextTyped DEF MergeWaits, CanMerge
  <2>2. Suspend(m, "MERGE")
    BY <1>24 DEF MergeWaits
  <2> HIDE DEF m
  <2> QED BY <1>0, <1>24, <1>a, <2>1, <2>2, SuspendTyped DEF MergeWaits, Phases
<1>25. ASSUME NEW source \in BOOLEAN, MergeRecorded(source) PROVE Goal
  <2>1. BoardTyped'
    BY <1>0, <1>25, <1>d DEF MergeRecorded, BoardTyped
  <2> QED BY <1>0, <1>25, <1>f, <2>1, GotoTyped DEF MergeRecorded
<1>26. CASE Deploys
  BY <1>0, <1>26, <1>a, <1>b, <1>d, StopTyped DEF Deploys
<1>27. CASE EscalationSuppressed
  BY <1>0, <1>27, <1>a, <1>b, <1>d, StopTyped DEF EscalationSuppressed
<1>28. CASE EscalateReads
  BY <1>0, <1>28, <1>a, <1>f, WithinTyped DEF EscalateReads
<1>29. CASE EscalateBlocks
  BY <1>0, <1>29, <1>b, <1>d, StopTyped DEF EscalateBlocks
<1>30. CASE Works
  BY <1>1, <1>2, <1>3, <1>4, <1>5, <1>6, <1>7, <1>10, <1>11, <1>12, <1>13, <1>14, <1>15, <1>16, <1>17,
     <1>18, <1>19, <1>20, <1>21, <1>22, <1>23, <1>24, <1>25, <1>26, <1>27, <1>28, <1>29, <1>30, <1>8, <1>9 DEF Works
<1>31. CASE Dispatch \/ RunFeature
  BY <1>0, <1>31, <1>a, BeginsTyped DEF Dispatch, RunFeature
<1>32. CASE Reconciles
  <2>1. BoardTyped'
    <3>1. status' \in BoardStatuses /\ stamp' = stamp
      BY <1>32, <1>d DEF Reconciles
    <3>2. link' \in 0..MaxPrs
      BY <1>0, <1>32, Constants DEF Reconciles, BoardTyped, Merged, PRs
    <3>3. mergedAt' \in BOOLEAN
      BY <1>0, <1>32 DEF Reconciles, BoardTyped
    <3> QED BY <1>0, <3>1, <3>2, <3>3 DEF BoardTyped
  <2> QED BY <1>0, <1>32, <2>1, DisturbedTyped DEF Reconciles
<1>33. CASE Unlinks \/ Decays \/ WebhookClosed \/ TimePasses
  BY <1>0, <1>33, <1>d, Constants DEF Unlinks, Decays, WebhookClosed, TimePasses, BoardTyped
<1>34. CASE Unblocks
  BY <1>0, <1>34, <1>b, <1>d DEF Unblocks
<1>35. ASSUME NEW p \in PRs, SyncsToReview(p) \/ AgentPushes(p) PROVE Goal
  BY <1>0, <1>35, <1>c DEF SyncsToReview, AgentPushes
<1>36. ASSUME NEW s, WebhookMerged(s) \/ Moves(s) PROVE Goal
  <2>1. s \in BoardStatuses
    BY <1>36, <1>d DEF WebhookMerged, Moves
  <2> QED BY <1>0, <1>36, <1>b, <2>1, DisturbedTyped DEF WebhookMerged, Moves
<1>37. CASE Resets
  BY <1>0, <1>37, <1>b, <1>d, IdleIsLead DEF Resets
<1>38. ASSUME NEW p, NEW x, Reviewed(p, x) \/ Checked(p, x) \/ MergedOrClosed(p, x) PROVE Goal
  BY <1>0, <1>38, <1>a DEF Reviewed, Checked, MergedOrClosed
<1>39. CASE GhostPr
  BY <1>0, <1>39, <1>d, IdleIsLead, Constants DEF GhostPr, BoardTyped
<1>40. CASE Crash
  BY <1>0, <1>40, <1>a, IdleIsLead DEF Crash
<1>41. CASE Schedules
  BY <1>31, <1>32, <1>33, <1>34, <1>35, <1>41 DEF Schedules
<1>42. CASE Others
  BY <1>33, <1>35, <1>36, <1>37, <1>38, <1>42 DEF Others
<1> QED BY <1>30, <1>31, <1>39, <1>40, <1>41, <1>42 DEF Next

(* The call ends, passes on to a phase that nothing above is claimed of, or stays where *)
(* it is; the actions that do more are named.                                           *)
SameCheckpoint == checkpoint' \in {checkpoint, NoCheckpoint}
Ends == lead' = Idle /\ (SameCheckpoint \/ checkpoint'.at = "REVIEW")
Passes ==
    /\ lead'.at \in {"PLAN", "EXECUTE", "REVIEW", "ESCALATE"}
    /\ lead'.merged \in {lead.merged, mergedAt}
    /\ SameCheckpoint \/ checkpoint'.at # "MERGE"
Stays ==
    /\ lead'.at = lead.at /\ lead'.pr = lead.pr /\ lead'.merged = lead.merged
    /\ lead'.retries = lead.retries
    /\ lead.raced => lead'.raced
    /\ status' \in Done => status \in Done \/ lead.at \notin Windows \/ lead'.raced
    /\ SameCheckpoint
Special ==
    \/ Begins \/ (\E p \in PRs : FindsOpen(p)) \/ FindsNone \/ FoundUnsaved \/ Launch
    \/ (ReviewReads /\ status \notin Done)
    \/ Approved \/ TakenAsMerged \/ MergeLands \/ MergeWaits
    \/ (\E source \in BOOLEAN : MergeRecorded(source)) \/ EscalateReads

LEMMA Shapes ==
    ASSUME IInv, Next
    PROVE  Ends \/ Passes \/ Stays \/ Special
<1>0. /\ TypeOK /\ lead \in Leads /\ checkpoint \in Checkpoints /\ mergedAt \in BOOLEAN
  BY TypeSplit DEF IInv, BoardTyped
<1>a. ASSUME Stop \/ Finish PROVE Ends
  BY <1>a DEF Stop, Finish, Ends, SameCheckpoint
<1>b. ASSUME NEW l \in Leads, NEW s \in {"PLAN", "EXECUTE", "REVIEW", "ESCALATE"}, Goto(l, s),
             l.merged \in {lead.merged, mergedAt}
      PROVE  Passes
  BY <1>0, <1>b, GotoTyped DEF Passes, SameCheckpoint, Places, Phases
<1>c. ASSUME lead' = lead, SameCheckpoint, status' = status \/ status' \notin Done PROVE Stays
  BY <1>c DEF Stays
<1>1. ASSUME NEW s \in {"PLAN", "EXECUTE"}, Intake(s) PROVE Passes
  BY <1>0, <1>1, <1>b DEF Intake
<1>2. CASE GivesUp
  BY <1>0, <1>2, <1>b, ContextTyped DEF GivesUp
<1>3. ASSUME NEW again \in BOOLEAN, Plan(again) PROVE Passes
  BY <1>0, <1>3, <1>b, ContextTyped DEF Plan
<1>4. CASE ExecuteEscalates
  BY <1>0, <1>4, <1>b, ContextTyped DEF ExecuteEscalates
<1>5. CASE ExecuteRefused \/ GateCloses \/ AgentUnreviewable \/ Superseded \/ PrIsClosed
           \/ Deploys \/ EscalationSuppressed \/ EscalateBlocks
  BY <1>5, <1>a DEF ExecuteRefused, GateCloses, AgentUnreviewable, Superseded, PrIsClosed,
     Deploys, EscalationSuppressed, EscalateBlocks
<1>6. CASE SkipsToReview
  BY <1>0, <1>6, <1>b DEF SkipsToReview
<1>7. CASE AgentSucceeds
  BY <1>0, <1>7, <1>b, ReloadedTyped DEF AgentSucceeds
<1>8. ASSUME NEW s, AgentFails(s) PROVE Passes
  BY <1>0, <1>8, <1>b, ContextTyped DEF AgentFails, IInv, Budgeted
<1>9. ASSUME NEW s, AgentGivesUp(s) PROVE Ends
  BY <1>9, <1>a DEF AgentGivesUp
<1>10. ASSUME NEW closes \in BOOLEAN, Conflicts(closes) PROVE Ends
  BY <1>10, <1>a DEF Conflicts
<1>11. CASE Dismisses \/ ReviewWaits
  <2>1. Suspend(lead, "REVIEW")
    BY <1>11 DEF Dismisses, ReviewWaits
  <2> QED BY <1>0, <2>1, SuspendTyped DEF Ends, Phases
<1>12. CASE ReviewEscalates \/ MergeEscalates
  BY <1>0, <1>12, <1>b DEF ReviewEscalates, MergeEscalates
<1>13. ASSUME NEW verdict, Remediates(verdict) PROVE Passes
  <2> DEFINE a == [lead EXCEPT !.cycles = @ + 1]
  <2>1. lead.cycles < MaxTotalCycles
    BY <1>13 DEF Remediates, Allowed
  <2>2. a \in Leads /\ a.merged = lead.merged
    BY <1>0, <2>1, Constants DEF Leads
  <2>3. Goto(a, "EXECUTE")
    BY <1>13 DEF Remediates
  <2> HIDE DEF a
  <2> QED BY <1>b, <2>2, <2>3
<1>14. CASE ReviewReads
  BY <1>14, <1>a DEF ReviewReads, Special
<1>15. CASE Works
  BY <1>1, <1>2, <1>3, <1>4, <1>5, <1>6, <1>7, <1>8, <1>9, <1>10, <1>11, <1>12, <1>13, <1>14, <1>15
  DEF Works, Special
<1>16. CASE Dispatch \/ RunFeature
  BY <1>16 DEF Dispatch, RunFeature, Special
<1>17. ASSUME NEW s, Reconciles \/ WebhookMerged(s) \/ Moves(s) PROVE Stays
  <2>1. SameCheckpoint /\ \E t : status' = t /\ Disturbed(t)
    BY <1>17 DEF Reconciles, WebhookMerged, Moves, SameCheckpoint, ToStatus
  <2> QED BY <1>0, <2>1, DisturbedTyped DEF Stays
<1>18. ASSUME NEW p, NEW x, \/ SyncsToReview(p) \/ AgentPushes(p) \/ Reviewed(p, x) \/ Checked(p, x)
                             \/ MergedOrClosed(p, x)
       PROVE  Stays
  BY <1>18, <1>c
  DEF SyncsToReview, AgentPushes, Reviewed, Checked, MergedOrClosed, SameCheckpoint, ToReview, board, Done
<1>19. CASE Unlinks \/ Unblocks \/ Decays \/ WebhookClosed \/ TimePasses \/ Resets \/ GhostPr
  BY <1>19, <1>c
  DEF Unlinks, Unblocks, Decays, WebhookClosed, TimePasses, Resets, GhostPr, SameCheckpoint, ToStatus, Done
<1>20. CASE Crash
  BY <1>20 DEF Crash, Ends, SameCheckpoint
<1>21. CASE Schedules
  BY <1>16, <1>17, <1>18, <1>19, <1>21 DEF Schedules
<1>22. CASE Others
  BY <1>17, <1>18, <1>19, <1>22 DEF Others
<1> QED BY <1>15, <1>16, <1>19, <1>20, <1>21, <1>22 DEF Next

(* The special ones, one by one. *)
LEMMA SpecialEffects ==
    ASSUME IInv, Special
    PROVE  \/ /\ Begins
              /\ lead'.at \in Phases \cup {"idle"}
              /\ lead'.merged = mergedAt
           \/ /\ Executes /\ CanRetry /\ \E p \in PRs : FindsOpen(p) /\ lead'.pr = p
              /\ lead'.at = "found" /\ lead'.retries = lead.retries /\ lead'.merged = lead.merged
              /\ checkpoint' = checkpoint
           \/ /\ FindsNone /\ CanRetry
              /\ lead'.at = "clear" /\ lead'.retries = lead.retries /\ lead'.merged = lead.merged
              /\ checkpoint' = checkpoint
           \/ /\ FoundUnsaved \/ Launch
              /\ lead.at \in {"found", "clear"} /\ lead'.at \in {"clear", "agent"}
              /\ lead'.retries = lead.retries /\ lead'.merged = lead.merged
              /\ lead'.raced = lead.raced /\ checkpoint' = checkpoint
           \/ /\ status \notin Done /\ lead'.at = "look" /\ lead'.merged = mergedAt
              /\ checkpoint' = checkpoint
           \/ /\ Approved \/ TakenAsMerged
              /\ lead'.at = "MERGE" /\ lead'.pr = lead.pr /\ lead'.merged = lead.merged
              /\ lead'.raced = lead.raced /\ checkpoint'.at = "MERGE" /\ checkpoint'.pr = lead.pr
           \/ /\ MergeLands /\ lead'.at = "landed" /\ lead'.merged = lead.merged
              /\ lead'.raced = lead.raced /\ checkpoint' = checkpoint
           \/ /\ MergeWaits /\ lead' = Idle /\ checkpoint'.at = "MERGE" /\ checkpoint'.pr = lead.pr
           \/ /\ \E source \in BOOLEAN : MergeRecorded(source)
              /\ lead'.at \in {"DEPLOY", "ESCALATE"} /\ lead'.merged = lead.merged
              /\ checkpoint' = checkpoint
           \/ /\ EscalateReads /\ lead'.at = "block" /\ lead'.merged = lead.merged
              /\ checkpoint' = checkpoint
<1>0. /\ TypeOK /\ lead \in Leads /\ checkpoint \in Checkpoints
  BY TypeSplit DEF IInv
<1>f. /\ {"MERGE", "DEPLOY", "ESCALATE", "clear", "agent", "look", "landed", "block"} \subseteq Places
      /\ "MERGE" \in Phases /\ "DEPLOY" \notin Phases /\ "ESCALATE" \notin Phases
  BY DEF Places, Phases
<1>1. CASE Begins
  <2>1. checkpoint.at \in Phases \cup {"idle"} /\ "INTAKE" \in Phases
    BY <1>0 DEF Checkpoints, Phases
  <2>2. lead'.merged = mergedAt /\ lead'.at \in {"INTAKE", checkpoint.at}
    BY <1>0, <1>1, BeginsTyped
  <2>3. lead'.merged = mergedAt /\ lead'.at \in Phases \cup {"idle"}
    BY <2>1, <2>2
  <2> QED BY <1>1, <2>3
<1>2. ASSUME NEW p \in PRs, FindsOpen(p)
      PROVE  /\ Executes /\ CanRetry /\ lead'.pr = p
             /\ lead'.at = "found" /\ lead'.retries = lead.retries /\ lead'.merged = lead.merged
             /\ checkpoint' = checkpoint
  BY <1>0, <1>2, FindsOpenTyped DEF FindsOpen
<1>3. CASE FindsNone
  BY <1>0, <1>3, <1>f, WithinTyped DEF FindsNone
<1>4. CASE FoundUnsaved
  BY <1>0, <1>4, <1>f, WithinTyped DEF FoundUnsaved
<1>5. CASE Launch
  BY <1>0, <1>5, <1>f, WithinTyped DEF Launch
<1>6. CASE ReviewReads /\ status \notin Done
  <2> DEFINE r == Reloaded
  <2>1. r \in Leads /\ r.merged = mergedAt
    BY <1>0, ReloadedTyped
  <2>2. lead' = [r EXCEPT !.at = "look"] /\ checkpoint' = checkpoint
    BY <1>6 DEF ReviewReads
  <2> HIDE DEF r
  <2> QED BY <1>6, <1>f, <2>1, <2>2, AtSet
<1>7. CASE Approved \/ TakenAsMerged
  BY <1>0, <1>7, <1>f, GotoTyped DEF Approved, TakenAsMerged
<1>8. CASE MergeLands
  BY <1>0, <1>8, <1>f, WithinTyped DEF MergeLands
<1>9. CASE MergeWaits
  <2> DEFINE m == [lead EXCEPT !.merges = @ + 1]
  <2>1. m \in Leads /\ m.pr = lead.pr
    BY <1>0, <1>9, ContextTyped DEF MergeWaits, CanMerge
  <2>2. Suspend(m, "MERGE")
    BY <1>9 DEF MergeWaits
  <2> HIDE DEF m
  <2> QED BY <1>9, <1>f, <2>1, <2>2, SuspendTyped
<1>10. ASSUME NEW source \in BOOLEAN, MergeRecorded(source)
      PROVE  /\ lead'.at \in {"DEPLOY", "ESCALATE"} /\ lead'.merged = lead.merged
             /\ checkpoint' = checkpoint
  BY <1>0, <1>10, <1>f, GotoTyped DEF MergeRecorded
<1>11. CASE EscalateReads
  BY <1>0, <1>11, <1>f, WithinTyped DEF EscalateReads
<1> QED BY <1>1, <1>2, <1>6, <1>7, <1>8, <1>9, <1>10, <1>11, <1>3, <1>4, <1>5 DEF Special

LEMMA BudgetHolds ==
    ASSUME IInv, Next
    PROVE  Budgeted'
<1>1. CASE Ends \/ Passes
  BY <1>1, IdleIsLead DEF Ends, Passes, Budgeted
<1>2. CASE Stays
  BY <1>2 DEF Stays, IInv, Budgeted
<1>3. CASE Special
  BY <1>3, SpecialEffects, IdleIsLead DEF IInv, Budgeted, CanRetry, Phases
<1> QED BY <1>1, <1>2, <1>3, Shapes

LEMMA FindingHolds ==
    ASSUME IInv, Next
    PROVE  Finding'
<1>1. CASE Ends \/ Passes
  BY <1>1, IdleIsLead DEF Ends, Passes, Finding
<1>2. CASE Stays
  BY <1>2 DEF Stays, IInv, Finding, PRs
<1>3. CASE Special
  BY <1>3, SpecialEffects, IdleIsLead DEF Finding, Phases, PRs
<1> QED BY <1>1, <1>2, <1>3, Shapes

(* done, and the record of a merge, are written only where there is one. *)
LEMMA BoardEvidence ==
    ASSUME IInv, Next, Merged = {}, Merged' = {}
    PROVE  status' # "done" /\ ~mergedAt'
<1>0. /\ status # "done" /\ ~mergedAt /\ ~lead.merged /\ lead.at \notin {"landed", "DEPLOY"}
  BY DEF IInv, Evidence
<1> DEFINE Goal == status' # "done" /\ ~mergedAt'
<1>a. ASSUME UNCHANGED board PROVE Goal
  BY <1>0, <1>a DEF board
<1>b. ASSUME NEW s, s # "done", ToStatus(s) PROVE Goal
  BY <1>0, <1>b DEF ToStatus
<1>c. ASSUME NEW p, ToReview(p) PROVE Goal
  BY <1>0, <1>c DEF ToReview
<1>1. CASE \E s \in {"PLAN", "EXECUTE"} : Intake(s)
  BY <1>1, <1>b DEF Intake
<1>2. CASE \/ GivesUp \/ (\E again \in BOOLEAN : Plan(again)) \/ ExecuteRefused \/ ExecuteEscalates
           \/ (\E p \in PRs : FindsOpen(p)) \/ FindsNone \/ FoundUnsaved
           \/ AgentSucceeds \/ Approved \/ TakenAsMerged \/ Dismisses \/ ReviewEscalates \/ ReviewWaits
           \/ (\E verdict \in {"changes", "failed"} : Remediates(verdict))
           \/ MergeLands \/ MergeWaits \/ MergeEscalates \/ EscalateReads
  BY <1>2, <1>a
  DEF GivesUp, Plan, ExecuteRefused, ExecuteEscalates, FindsOpen, FindsNone, FoundUnsaved, AgentSucceeds, Approved, TakenAsMerged, Dismisses,
      ReviewEscalates, ReviewWaits, Remediates, MergeLands, MergeWaits, MergeEscalates, EscalateReads
<1>3. CASE \/ GateCloses \/ Launch \/ AgentUnreviewable \/ EscalateBlocks
  BY <1>3, <1>b DEF GateCloses, Launch, AgentUnreviewable, EscalateBlocks
<1>4. ASSUME NEW s, AgentFails(s) \/ AgentGivesUp(s) PROVE Goal
  BY <1>0, <1>4, <1>b DEF AgentFails, AgentGivesUp
<1>5. CASE ReviewReads \/ PrIsClosed
  BY <1>0, <1>5 DEF ReviewReads, PrIsClosed
<1>6. CASE Superseded
  BY <1>6 DEF Superseded
<1>7. ASSUME NEW closes, Conflicts(closes) PROVE Goal
  BY <1>7, <1>b DEF Conflicts
<1>8. CASE (\E source \in BOOLEAN : MergeRecorded(source)) \/ Deploys
  BY <1>0, <1>8 DEF MergeRecorded, Deploys
<1>9. CASE EscalationSuppressed
  BY <1>0, <1>9, <1>a DEF EscalationSuppressed
<1>10. ASSUME NEW p, SkipsToReview \/ SyncsToReview(p) \/ AgentPushes(p) PROVE Goal
  BY <1>10, <1>c DEF SkipsToReview, SyncsToReview, AgentPushes
<1>11. CASE Works
  BY <1>1, <1>2, <1>3, <1>4, <1>5, <1>6, <1>7, <1>8, <1>9, <1>10, <1>11 DEF Works
<1>12. CASE Dispatch \/ RunFeature \/ Crash
  BY <1>12, <1>a DEF Dispatch, RunFeature, Begins, Crash
<1>13. CASE Reconciles
  BY <1>0, <1>13 DEF Reconciles
<1>14. CASE Unlinks \/ Decays \/ WebhookClosed \/ TimePasses \/ GhostPr
  BY <1>0, <1>14 DEF Unlinks, Decays, WebhookClosed, TimePasses, GhostPr
<1>15. CASE Unblocks \/ Resets
  BY <1>15, <1>b DEF Unblocks, Resets
<1>16. ASSUME NEW s, WebhookMerged(s) \/ Moves(s) PROVE Goal
  BY <1>16, <1>b DEF WebhookMerged, Moves
<1>17. ASSUME NEW p, NEW x, Reviewed(p, x) \/ Checked(p, x) \/ MergedOrClosed(p, x) PROVE Goal
  BY <1>17, <1>a DEF Reviewed, Checked, MergedOrClosed
<1>18. CASE Schedules
  BY <1>10, <1>12, <1>13, <1>14, <1>15, <1>18 DEF Schedules
<1>19. CASE Others
  BY <1>10, <1>14, <1>15, <1>16, <1>17, <1>19 DEF Others
<1> QED BY <1>11, <1>12, <1>14, <1>18, <1>19 DEF Next

LEMMA EvidenceHolds ==
    ASSUME IInv, Next
    PROVE  Evidence'
<1>1. SUFFICES ASSUME Merged' = {}
               PROVE  status' # "done" /\ ~mergedAt' /\ ~lead'.merged /\ lead'.at \notin {"landed", "DEPLOY"}
  BY DEF Evidence
<1>2. TypeOK /\ Grows /\ Merged = {}
  BY <1>1, PullRequestsGrow, MergedGrows DEF IInv
<1>3. ~mergedAt /\ ~lead.merged /\ lead.at \notin {"landed", "DEPLOY"}
  BY <1>2 DEF IInv, Evidence
<1>4. CASE Ends \/ Passes \/ Stays
  BY <1>1, <1>2, <1>3, <1>4, BoardEvidence, IdleIsLead DEF Ends, Passes, Stays
<1>5. CASE MergeLands
  <2>1. lead.pr \in PRs /\ pr[lead.pr].state \in {"open", "merged"} /\ pr' = [pr EXCEPT ![lead.pr] = Settled("merged")]
    BY <1>2, <1>5, TypeSplit, Fields, Constants DEF MergeLands, CanMerge, Current, PRs
  <2>2. lead.pr \in Merged'
    BY <1>2, <2>1, SettledGrows DEF Merged
  <2> QED BY <1>1, <2>2
<1>6. CASE Special /\ ~MergeLands
  BY <1>1, <1>2, <1>3, <1>6, BoardEvidence, SpecialEffects, IdleIsLead DEF MergeRecorded, Phases
<1> QED BY <1>4, <1>5, <1>6, Shapes

LEMMA VettedGrows ==
    ASSUME Grows, NEW p, Vetted(p)
    PROVE  Vetted(p)'
<1>1. CASE Merged # {}
  BY <1>1, MergedGrows DEF Vetted
<1>2. CASE Merged = {}
  <2>1. p \in PRs /\ Grown(pr[p], pr'[p])
    BY DEF Vetted, Grows
  <2>2. pr'[p].state = "merged" => p \in Merged'
    BY <2>1 DEF Merged
  <2> QED BY <1>2, <2>1, <2>2 DEF Vetted, Grown
<1> QED BY <1>1, <1>2

LEMMA ApprovalsHold ==
    ASSUME IInv, Next
    PROVE  Approvals'
<1>0. /\ TypeOK /\ Grows /\ lead \in Leads /\ pr \in [PRs -> PrStates]
      /\ lead.at = "MERGE" => Vetted(lead.pr)
      /\ checkpoint.at = "MERGE" => Vetted(checkpoint.pr)
  BY PullRequestsGrow, TypeSplit DEF IInv, Approvals
<1>1. CASE Ends \/ Passes \/ Stays
  <2>1. lead'.at = "MERGE" => lead.at = "MERGE" /\ lead'.pr = lead.pr
    BY <1>1, IdleIsLead DEF Ends, Passes, Stays
  <2>2. checkpoint'.at = "MERGE" => checkpoint' = checkpoint
    BY <1>1, IdleIsLead DEF Ends, Passes, Stays, SameCheckpoint
  <2> QED BY <1>0, <2>1, <2>2, VettedGrows DEF Approvals
<1>2. CASE Approved \/ TakenAsMerged
  <2>1. /\ lead'.at = "MERGE" /\ lead'.pr = lead.pr
        /\ checkpoint'.at = "MERGE" /\ checkpoint'.pr = lead.pr
    BY <1>2, <1>0, GotoTyped, TypeSplit DEF Approved, TakenAsMerged, Places, Phases
  <2>2. lead.pr \in PRs
    BY <1>0, <1>2, Fields, Constants DEF Approved, TakenAsMerged, Found, Looks, PRs
  <2>3. CASE TakenAsMerged
    BY <1>0, <2>1, <2>2, <2>3, MergedGrows DEF TakenAsMerged, Vetted, Approvals
  <2>4. CASE Approved /\ Current.state = "merged"
    BY <1>0, <2>1, <2>2, <2>4, MergedGrows DEF Current, Merged, Vetted, Approvals
  <2>5. CASE Approved /\ Current.state # "merged"
    <3>1. Current.state = "open"
      BY <2>5 DEF Approved, Found
    <3>2. pr' = [pr EXCEPT ![lead.pr].seen = @ \/ Current.state = "open"]
      BY <2>5 DEF Approved
    <3>3. pr'[lead.pr].seen
      BY <1>0, <2>2, <3>1, <3>2 DEF PrStates
    <3> QED BY <2>1, <2>2, <3>3 DEF Vetted, Approvals
  <2> QED BY <1>2, <2>3, <2>4, <2>5
<1>3. CASE MergeWaits
  <2>1. lead.at = "MERGE" /\ lead' = Idle /\ checkpoint'.pr = lead.pr
    <3> DEFINE m == [lead EXCEPT !.merges = @ + 1]
    <3>1. m \in Leads /\ m.pr = lead.pr /\ Suspend(m, "MERGE")
      BY <1>0, <1>3, ContextTyped DEF MergeWaits, CanMerge
    <3> HIDE DEF m
    <3> QED BY <1>3, <3>1, SuspendTyped DEF MergeWaits, CanMerge, Phases
  <2> QED BY <1>0, <2>1, IdleIsLead, VettedGrows DEF Approvals
<1>4. CASE Begins
  <2>1. lead'.at = "MERGE" \/ checkpoint'.at = "MERGE" =>
           checkpoint.at = "MERGE" /\ checkpoint'.pr = lead'.pr
           /\ (checkpoint.pr # 0 => lead'.pr = checkpoint.pr)
    BY <1>0, <1>4, BeginsTyped, TypeSplit DEF Checkpoints, Phases
  <2>2. checkpoint.at = "MERGE" => checkpoint.pr # 0
    BY <1>0, Constants DEF Vetted, PRs
  <2> QED BY <1>0, <2>1, <2>2, VettedGrows DEF Approvals
<1>5. CASE Special /\ ~Approved /\ ~TakenAsMerged /\ ~MergeWaits /\ ~Begins
  <2>1. lead'.at # "MERGE" /\ checkpoint' = checkpoint
    BY <1>5, SpecialEffects
  <2> QED BY <1>0, <2>1, VettedGrows DEF Approvals
<1> QED BY <1>1, <1>2, <1>3, <1>4, <1>5, Shapes

LEMMA RacesAreSeen ==
    ASSUME IInv, Next
    PROVE  Unraced'
<1>1. SUFFICES ASSUME lead'.at \in Windows, status' \in Done PROVE lead'.raced
  BY DEF Unraced
<1>2. TypeOK /\ lead \in Leads /\ (lead.at \in Windows /\ status \in Done => lead.raced)
  BY TypeSplit DEF IInv, Unraced
<1>3. CASE Ends \/ Passes
  BY <1>1, <1>3, IdleIsLead DEF Ends, Passes, Windows
<1>4. CASE Stays
  BY <1>1, <1>2, <1>4 DEF Stays
<1>5. CASE Special
  <2>1. ASSUME Approved \/ TakenAsMerged \/ MergeLands, lead'.raced = lead.raced PROVE lead'.raced
    BY <1>1, <1>2, <2>1 DEF Approved, TakenAsMerged, MergeLands, CanMerge, Found, Looks, Windows, board
  <2>2. CASE Begins
    BY <1>1, <2>2 DEF Begins, board
  <2>3. CASE \/ (\E p \in PRs : FindsOpen(p)) \/ FindsNone \/ Launch
    BY <1>1, <2>3 DEF FindsOpen, FindsNone, Executes, Launch, ToStatus, Done, board
  <2>4. CASE FoundUnsaved
    BY <1>1, <1>2, <2>4, WithinTyped DEF FoundUnsaved, Windows, Places, board
  <2>5. CASE ReviewReads /\ status \notin Done
    BY <1>1, <2>5 DEF ReviewReads
  <2>6. CASE EscalateReads
    BY <1>1, <2>6 DEF EscalateReads, board
  <2>7. CASE MergeWaits
    BY <1>1, <2>7, IdleIsLead DEF MergeWaits, Suspend, Windows
  <2>8. ASSUME NEW source, MergeRecorded(source) PROVE FALSE
    <3>1. lead'.at \in {"DEPLOY", "ESCALATE"}
      BY <1>2, <2>8, GotoTyped, TypeSplit DEF MergeRecorded, Places
    <3> QED BY <1>1, <3>1 DEF Windows
  <2>9. CASE Approved \/ TakenAsMerged
    BY <1>2, <2>1, <2>9, GotoTyped, TypeSplit DEF Approved, TakenAsMerged, Places, Phases
  <2>10. CASE MergeLands
    BY <1>2, <2>1, <2>10, WithinTyped DEF MergeLands, Places
  <2> QED BY <1>5, <2>2, <2>3, <2>5, <2>6, <2>7, <2>8, <2>9, <2>10, <2>4 DEF Special
<1> QED BY <1>3, <1>4, <1>5, Shapes

LEMMA Inductive == IInv /\ [Next]_vars => IInv'
<1> SUFFICES ASSUME IInv, [Next]_vars PROVE IInv'
  OBVIOUS
<1>1. CASE Next
  BY <1>1, TypeHolds, BudgetHolds, FindingHolds, EvidenceHolds, ApprovalsHold, RacesAreSeen DEF IInv
<1>2. CASE UNCHANGED vars
  BY <1>2 DEF vars, board, IInv, TypeOK, Budgeted, Finding, Evidence, Approvals, Unraced, Vetted, Merged
<1> QED BY <1>1, <1>2

--------------------------------------------------------------------------------
(* The theorems *)

(* The variables keep their types; of the counters this says that no retry, replan or *)
(* remediation goes past its budget, whatever is resumed.                             *)
THEOREM TypeCorrect == Spec => []TypeOK
<1>1. IInv => TypeOK
  BY DEF IInv
<1> QED BY <1>1, InitHolds, Inductive, PTL DEF Spec

(* Whoever writes done without a person's word has a merged pull request of the branch *)
(* behind it: what is claimed of the status needs the same of the record of the merge, *)
(* of its copy in the call and of the places behind MERGE.                             *)
THEOREM DoneIsMerged == Spec => []DoneMeansMerged
<1>1. IInv => DoneMeansMerged
  BY DEF IInv, Evidence, DoneMeansMerged
<1> QED BY <1>1, InitHolds, Inductive, PTL DEF Spec

(* MERGE lands only what REVIEW has called approved, over restarts and requeues.  The *)
(* checkpoint of MERGE names the pull request that was approved, and a number in it   *)
(* goes before the one on the board.                                                  *)
THEOREM MergesApproved == Spec => MergesWereApproved
<1>1. IInv /\ [Next]_vars =>
        [lead.at = "MERGE" /\ lead'.at = "landed" => Current.seen \/ Merged # {}]_vars
  <2> SUFFICES ASSUME IInv, Next, lead.at = "MERGE", lead'.at = "landed"
               PROVE  Current.seen \/ Merged # {}
    OBVIOUS
  <2>1. Vetted(lead.pr)
    BY DEF IInv, Approvals
  <2>2. MergeLands
    <3>1. ~(Ends \/ Passes \/ Stays)
      BY IdleIsLead DEF Ends, Passes, Stays
    <3> QED BY <3>1, Shapes, SpecialEffects, IdleIsLead DEF Phases, MergeRecorded
  <2> QED BY <2>1, <2>2 DEF MergeLands, Vetted, Current, Merged
<1> QED BY <1>1, InitHolds, Inductive, PTL DEF Spec, MergesWereApproved

(* A step of a call that takes done away is the write of a processor that had read    *)
(* the status before somebody else set it.                                            *)
THEOREM DoneIsKept == Spec => DoneStands
<1>1. IInv /\ [Next]_vars =>
        [lead' # lead /\ status \in Done /\ status' \notin Done => lead.raced]_vars
  <2> SUFFICES ASSUME IInv, Next, lead' # lead, status \in Done, status' \notin Done, lead.at \notin Windows
               PROVE  FALSE
    BY DEF IInv, Unraced
  <2>0. lead \in Leads
    BY TypeSplit DEF IInv
  <2> USE DEF Windows, Done, board, ToStatus
  <2>1. CASE Works
    <3>1. ~\E s \in {"PLAN", "EXECUTE"} : Intake(s)
      BY DEF Intake
    <3>2. ~(\/ GivesUp \/ (\E again \in BOOLEAN : Plan(again)) \/ ExecuteRefused \/ ExecuteEscalates
            \/ (\E p \in PRs : FindsOpen(p)) \/ FindsNone \/ SkipsToReview \/ FoundUnsaved
            \/ GateCloses \/ Launch)
      BY DEF GivesUp, Plan, ExecuteRefused, ExecuteEscalates, FindsOpen, FindsNone, SkipsToReview,
             FoundUnsaved, GateCloses, Launch
    <3>3. ~(AgentSucceeds \/ AgentUnreviewable \/ ReviewReads)
      BY DEF AgentSucceeds, AgentUnreviewable, ReviewReads
    <3>4. ~\E s \in {status, "backlog", "blocked"} : AgentFails(s) \/ AgentGivesUp(s)
      BY DEF AgentFails, AgentGivesUp
    <3>5. ~(\/ Superseded \/ (\E closes \in BOOLEAN : Conflicts(closes)) \/ Approved \/ TakenAsMerged
            \/ Dismisses \/ ReviewEscalates \/ ReviewWaits \/ PrIsClosed
            \/ \E verdict \in {"changes", "failed"} : Remediates(verdict))
      BY DEF Superseded, Conflicts, Approved, TakenAsMerged, Dismisses, ReviewEscalates, ReviewWaits,
             PrIsClosed, Remediates, Found, Looks
    <3>6. ~(MergeLands \/ MergeWaits \/ MergeEscalates \/ \E source \in BOOLEAN : MergeRecorded(source))
      BY DEF MergeLands, MergeWaits, MergeEscalates, MergeRecorded, CanMerge
    <3>7. ~(Deploys \/ EscalationSuppressed \/ EscalateReads \/ EscalateBlocks)
      BY DEF Deploys, EscalationSuppressed, EscalateReads, EscalateBlocks
    <3> QED BY <2>1, <3>1, <3>2, <3>3, <3>4, <3>5, <3>6, <3>7 DEF Works
  <2>2. CASE Schedules \/ RunFeature \/ GhostPr \/ Crash
    BY <2>2 DEF Schedules, RunFeature, Dispatch, Begins, Reconciles, Unlinks, Unblocks, Decays,
                SyncsToReview, GhostPr, Crash
  <2>3. CASE Others
    BY <2>3 DEF Others, AgentPushes, Reviewed, Checked, MergedOrClosed, WebhookMerged, Moves,
                WebhookClosed, Resets, TimePasses, Disturbed
  <2> QED BY <2>1, <2>2, <2>3 DEF Next
<1> QED BY <1>1, InitHolds, Inductive, PTL DEF Spec, DoneStands
================================================================================
