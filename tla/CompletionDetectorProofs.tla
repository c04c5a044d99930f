------------------------ MODULE CompletionDetectorProofs ------------------------
(***************************************************************************)
(* Theorems about CompletionDetector, for any board, any number of calls of *)
(* onFeatureDone, other writers, restarts and reopened items.               *)
(*                                                                         *)
(* Until the histories say that it was disturbed, a key is looked at by one *)
(* call at a time and by none once it is claimed, and one writer at a time  *)
(* holds a copy of the project.  So a lone writer's milestones and status    *)
(* can be followed through its three steps: into its text, to the file, to  *)
(* the cache.  What is announced is on the board, in the file and in the     *)
(* cache by then, where the next process looks before it announces again.   *)
(***************************************************************************)
EXTENDS CompletionDetector, TLAPS

EpicPlaces == {"epic", "probing", "completing", "reviewing", "blocking"}
LookPlaces == {"epic", "probing", "blocking", "milestone", "features", "project"}
ClaimPlaces == {"completing", "reviewing", "save", "land", "writing", "cache", "report"}
WritePlaces == {"features", "save", "land", "writing", "cache"}

Announcing(c) == call[c].at \in ClaimPlaces

(* What a call at each place works on. *)
KeysFit ==
    \A c \in Calls :
        /\ call[c].at \in EpicPlaces => call[c].key \in Epics
        /\ call[c].at \in {"milestone", "features"} => call[c].key \in Milestones
        /\ call[c].at \in {"save", "land", "writing", "cache"} => call[c].key \in Milestones \cup {Project}
        /\ call[c].at \in {"project", "report"} => call[c].key = Project

(* Between a crash and initialize nothing is under way. *)
Down ==
    up \/ /\ \A c \in Calls : call[c].at = "idle"
          /\ \A s \in Syncs : sync[s].at = "idle"
          /\ \A x \in Items : owed[x] = 0

(* The lines of the ledger count too: the Sets of the next process are read from it. *)
Honoured(k) == k \in emitted \/ k \in broken \/ \E c \in Calls : call[c].key = k /\ Announcing(c)
Honest == \A k \in claimed \cup ledger : Honoured(k)

(* Nobody looks at what is claimed, and one call announces it. *)
ClaimedOnce ==
    /\ \A c \in Calls : Announcing(c) => call[c].key \in claimed
    /\ \A c \in Calls : call[c].key \in claimed => call[c].at \notin LookPlaces
    /\ \A c, d \in Calls : Announcing(c) /\ Announcing(d) /\ call[c].key = call[d].key => c = d

(* Nobody holds a copy of a project that cannot be read. *)
Unread == pstatus = "torn" => /\ \A c \in Calls : call[c].at \notin WritePlaces
                              /\ \A s \in Syncs : sync[s].at = "idle"

(* The board says so of an epic that is announced, and no call will take it back. *)
Standing == (Epics \cap emitted) \ returned
EpicsStand ==
    \A e \in Standing :
        /\ board[e] \in IF pr[e] \in {"settling", "landing", "landed"} THEN {"done"} ELSE {"review", "done"}
        /\ \A c \in Calls : call[c].key = e
              => call[c].at \notin {"probing", "blocking", "completing", "reviewing"}

(* So do the cache, the file, and what will replace them, of a milestone. *)
Writing(x) == x.at \in {"land", "writing"}
Lists(t, m) == t = Torn \/ m \in t.mdone
MilestonesStand ==
    \A m \in Milestones \cap emitted :
        /\ pstatus # "torn" => m \in mdone
        /\ \A t \in file : Lists(t, m)
        /\ \A c \in Calls : Writing(call[c]) => m \in call[c].text.mdone
        /\ \A s \in Syncs : Writing(sync[s]) => m \in sync[s].text.mdone
        /\ \A c \in Calls : call[c].key = m => call[c].at \notin WritePlaces

(* A milestone on its way. *)
MilestonesFollow ==
    \A c \in Calls : call[c].key \in Milestones =>
        /\ call[c].at \in {"save", "land", "writing", "cache"} => call[c].key \in mdone
        /\ Writing(call[c]) => call[c].key \in call[c].text.mdone
        /\ call[c].at \in {"writing", "cache"} => \A t \in file : Lists(t, call[c].key)

ProjectKept ==
    /\ pstatus # "active" /\ \A t \in file : t.status # "active"
    /\ \A c \in Calls :
        /\ call[c].at \in WritePlaces => call[c].held = "completed"
        /\ Writing(call[c]) => call[c].text.status = "completed"
    /\ \A s \in Syncs :
        /\ sync[s].at # "idle" => sync[s].held = "completed"
        /\ Writing(sync[s]) => sync[s].text.status = "completed"
ProjectStands ==
    /\ Project \in emitted => \A c \in Calls : ~(call[c].key = Project /\ Announcing(c))
    /\ Project \in emitted \/ (\E c \in Calls : call[c].at = "report") => ProjectKept

(* The project on its way. *)
ProjectFollows ==
    \A c \in Calls : call[c].key = Project =>
        /\ call[c].at \in {"save", "land", "writing", "cache"} => call[c].held = "completed"
        /\ Writing(call[c]) => call[c].text.status = "completed"
        /\ call[c].at \in {"writing", "cache"} => \A t \in file : t.status # "active"

Orderly ==
    /\ ~Crossing /\ (returned = {} => ~twice)
    /\ ClaimedOnce /\ EpicsStand
    /\ MilestonesStand /\ MilestonesFollow
    /\ ProjectStands /\ ProjectFollows

IInv == TypeOK /\ KeysFit /\ Down /\ Unread /\ Honest /\ (disturbed \/ Orderly)

--------------------------------------------------------------------------------
(* The steps, sorted by what they do to the calls *)

SyncSteps(s) == SyncBegins(s) \/ SyncOpens(s) \/ SyncLands(s) \/ SyncFails(s) \/ SyncCached(s)
Webhook(e) ==
    \/ PullRequestEnds(e) \/ ClosedRead(e) \/ ClosedRecovered(e)
    \/ MergeRead(e) \/ MergeInspected(e) \/ MergeSettles(e) \/ EpicLands(e)
    \/ WebhookFails(e)

Begins(c) == (\E x \in Items : OnFeatureDone(c, x)) \/ (\E e \in Epics : SweepEpic(c, e))
Elsewhere ==
    \/ \E s \in Syncs : SyncSteps(s)
    \/ \E x \in Items : Reopen(x) \/ \E n \in 1..2 : Finish(x, n)
    \/ \E e \in Epics : Webhook(e)
Acts == (\E c \in Calls : Step(c) \/ Begins(c)) \/ Elsewhere \/ Crash \/ Initialize

(* Every step is one of these. *)
LEMMA ActCases == Act => Acts
BY DEF Act, Acts, Begins, Elsewhere, SyncSteps, Webhook

(* The webhook, wherever it stands, writes its own place, the board and the events. *)
LEMMA WebhookFrame ==
    ASSUME NEW e \in Epics, Webhook(e)
    PROVE  /\ UNCHANGED <<branch, up, call, books, cache, mishaps, emitted, twice, broken>>
           /\ \/ returned' = returned
              \/ returned' = returned \cup {e}
BY DEF Webhook, PullRequestEnds, ClosedRead, ClosedRecovered, MergeRead, MergeInspected, MergeSettles,
       EpicLands, WebhookFails, history

--------------------------------------------------------------------------------
(* Types *)

Places == {"idle"} \cup LookPlaces \cup ClaimPlaces
Statuses == {"active", "completed"}

(* Every field of a call has its type. *)
LEMMA CallTypes ==
    ASSUME TypeOK, NEW c \in Calls
    PROVE  /\ call[c].at \in Places /\ call[c].key \in Keys \cup {None}
           /\ call[c].later \in Milestones \cup {None}
           /\ call[c].held \in Statuses /\ call[c].text \in Texts
           /\ call[c] \in CallStates
BY DEF TypeOK, CallStates, Places, LookPlaces, ClaimPlaces, Statuses

(* A field of a call is replaced. *)
LEMMA FieldTypes ==
    ASSUME NEW r \in CallStates
    PROVE  /\ \A at \in Places : [r EXCEPT !.at = at] \in CallStates
           /\ \A s \in Statuses : [r EXCEPT !.held = s] \in CallStates
           /\ \A x \in Texts : [r EXCEPT !.text = x] \in CallStates
BY DEF CallStates, Places, LookPlaces, ClaimPlaces, Statuses

(* What a call is when it turns to a milestone, to an epic, or to the project. *)
LEMMA AfterTypes ==
    ASSUME NEW first \in Milestones \cup {None}, NEW later \in Milestones \cup {None}
    PROVE  After(first, later) \in CallStates
BY DEF After, IdleCall, CallStates, Texts, NoText, Keys

(* The look at an epic. *)
LEMMA LookTypes ==
    ASSUME NEW e \in Epics \cup {None}, NEW later \in Milestones \cup {None}
    PROVE  LookAtEpic(e, later) \in CallStates
BY AfterTypes DEF LookAtEpic, IdleCall, CallStates, Texts, NoText, Keys

(* The look at the project. *)
LEMMA ProjectLookTypes ==
    ASSUME NEW later \in Milestones \cup {None}
    PROVE  [IdleCall EXCEPT !.at = "project", !.key = Project, !.later = later] \in CallStates
BY DEF IdleCall, CallStates, Texts, NoText, Keys

(* A step leaves calls behind, whichever it is. *)
LEMMA CallMoves ==
    ASSUME TypeOK, KeysFit, NEW c \in Calls, Step(c)
    PROVE  call' \in [Calls -> CallStates]
<1>1. call \in [Calls -> CallStates] /\ call[c] \in CallStates
  BY DEF TypeOK
<1>2. ASSUME NEW r \in CallStates, call' = [call EXCEPT ![c] = r]
      PROVE  call' \in [Calls -> CallStates]
  BY <1>1, <1>2
<1>3. ASSUME NEW at \in Places, call' = [call EXCEPT ![c].at = at]
      PROVE  call' \in [Calls -> CallStates]
  BY <1>1, <1>2, <1>3, FieldTypes
<1>4. ASSUME Leaves(c) PROVE call' \in [Calls -> CallStates]
  BY <1>2, <1>4, AfterTypes, CallTypes DEF Leaves
<1>5. CASE EpicRead(c) \/ NothingToMerge(c) \/ PullRequestReady(c) \/ PullRequestFails(c)
             \/ EpicInReview(c) \/ EpicBlocked(c)
  <2>1. \/ Leaves(c)
        \/ \E at \in {"probing", "completing", "reviewing", "blocking"} : call' = [call EXCEPT ![c].at = at]
    BY <1>5 DEF EpicRead, NothingToMerge, PullRequestReady, PullRequestFails, EpicInReview, EpicBlocked
  <2> QED BY <1>3, <1>4, <2>1 DEF Places, LookPlaces, ClaimPlaces
<1>6. CASE EpicCompleted(c)
  <2>1. call[c].key \in Epics
    BY <1>6 DEF EpicCompleted, KeysFit, EpicPlaces
  <2>2. MilestoneOf[call[c].key] \in Milestones \cup {None}
    BY <2>1, OfAssumption
  <2>3. call' = [call EXCEPT ![c] = After(MilestoneOf[call[c].key], call[c].later)]
    BY <1>6 DEF EpicCompleted
  <2> QED BY <1>2, <2>2, <2>3, AfterTypes, CallTypes
<1>7. CASE MilestoneLook(c)
  <2>1. Leaves(c) \/ call' = [call EXCEPT ![c].at = "features", ![c].held = pstatus]
    BY <1>7 DEF MilestoneLook
  <2>2. pstatus \in Statuses
    BY <1>7 DEF MilestoneLook, TypeOK, Statuses
  <2> QED BY <1>1, <1>4, <2>1, <2>2, FieldTypes DEF Places, LookPlaces
<1>8. CASE MilestoneDecide(c)
  <2>1. Leaves(c) \/ call' = [call EXCEPT ![c].at = "save"]
    BY <1>8 DEF MilestoneDecide
  <2> QED BY <1>3, <1>4, <2>1 DEF Places, ClaimPlaces
<1>9. CASE Save(c)
  <2>1. call' = [call EXCEPT ![c].at = "land", ![c].text = [status |-> call[c].held, mdone |-> mdone]]
    BY <1>9 DEF Save
  <2>2. [status |-> call[c].held, mdone |-> mdone] \in Texts
    BY CallTypes DEF Texts, Statuses, TypeOK
  <2> QED BY <1>1, <2>1, <2>2, FieldTypes DEF Places, ClaimPlaces
<1>10. CASE Land(c)
  <2>1. call' = [call EXCEPT ![c].at = "cache", ![c].text = NoText] /\ NoText \in Texts
    BY <1>10 DEF Land, NoText, Texts
  <2> QED BY <1>1, <2>1, FieldTypes DEF Places, ClaimPlaces
<1>11. CASE Cached(c)
  <2>1. \/ Leaves(c) \/ call' = [call EXCEPT ![c].at = "report"]
        \/ call' = [call EXCEPT ![c] = [IdleCall EXCEPT !.at = "project", !.key = Project, !.later = call[c].later]]
    BY <1>11 DEF Cached, Leaves
  <2> QED BY <1>2, <1>3, <1>4, <2>1, ProjectLookTypes, CallTypes DEF Places, ClaimPlaces
<1>12. CASE ProjectDecide(c)
  <2>1. Leaves(c) \/ call' = [call EXCEPT ![c].at = "save", ![c].held = "completed"]
    BY <1>12 DEF ProjectDecide
  <2>2. [call[c] EXCEPT !.at = "save"] \in CallStates
    BY <1>1, FieldTypes DEF Places, ClaimPlaces
  <2>3. [[call[c] EXCEPT !.at = "save"] EXCEPT !.held = "completed"] \in CallStates
    BY <2>2, FieldTypes DEF Statuses
  <2> QED BY <1>1, <1>4, <2>1, <2>3
<1>13. CASE ProjectReport(c)
  BY <1>4, <1>13 DEF ProjectReport
<1>14. CASE WriteFails(c) \/ ProjectUnreadable(c)
  <2>1. IdleCall \in CallStates
    BY DEF IdleCall, CallStates, NoText, Texts
  <2> QED BY <1>2, <1>14, <2>1 DEF WriteFails, ProjectUnreadable
<1>15. CASE Open(c)
  BY <1>3, <1>15 DEF Open, Places, ClaimPlaces
<1> QED BY <1>5, <1>6, <1>7, <1>8, <1>9, <1>10, <1>11, <1>12, <1>13, <1>14, <1>15 DEF Step

(* What a write makes of project.json. *)
LEMMA FileTypes ==
    ASSUME TypeOK, NEW text \in Texts
    PROVE  /\ Written \in SUBSET Texts
           /\ Emptied(text) \in SUBSET (Texts \cup {Torn})
           /\ Filled(text) \in SUBSET (Texts \cup {Torn})
           /\ file \cup {text} \in SUBSET (Texts \cup {Torn})
<1>1. \A s \in Syncs : sync[s].text \in Texts
  BY DEF TypeOK
<1>2. Written \in SUBSET Texts
  BY <1>1, CallTypes DEF Written
<1> QED BY <1>2 DEF Emptied, Filled, TypeOK

(* The steps of a call keep the types. *)
LEMMA CallStepTypes ==
    ASSUME TypeOK, KeysFit, disturbed' \in BOOLEAN, NEW c \in Calls, Step(c)
    PROVE  TypeOK'
<1>1. call' \in [Calls -> CallStates]
  BY CallMoves
<1>2. /\ call[c].at \in EpicPlaces => call[c].key \in Epics
      /\ call[c].at \in {"milestone", "features"} => call[c].key \in Milestones
      /\ call[c].at \in {"save", "land", "writing", "cache"} => call[c].key \in Milestones \cup {Project}
      /\ call[c].held \in Statuses /\ call[c].text \in Texts
  BY CallTypes DEF KeysFit
<1> USE <1>1, <1>2 DEF TypeOK, EpicPlaces, Statuses, Keys, Items
<1>3. CASE EpicRead(c) \/ NothingToMerge(c) \/ PullRequestFails(c)
  BY <1>3 DEF EpicRead, NothingToMerge, PullRequestFails, Claim, books, cache, history
<1>4. CASE PullRequestReady(c)
  BY <1>4 DEF PullRequestReady, Claim, cache, history
<1>5. CASE EpicCompleted(c)
  BY <1>5 DEF EpicCompleted, SetStatus, Emit, books, cache
<1>6. CASE EpicInReview(c)
  BY <1>6 DEF EpicInReview, SetStatus, Emit, books, cache
<1>7. CASE EpicBlocked(c)
  BY <1>7 DEF EpicBlocked, SetStatus, books, cache, history
<1>8. CASE MilestoneLook(c) \/ Save(c)
  BY <1>8 DEF MilestoneLook, Save, books, cache, history
<1>9. CASE MilestoneDecide(c)
  BY <1>9 DEF MilestoneDecide, Claim, books, history
<1>10. CASE Open(c) \/ Land(c)
  BY <1>10, FileTypes DEF Open, Land, books, history
<1>11. CASE Cached(c)
  BY <1>11 DEF Cached, Emit, books
<1>12. CASE ProjectDecide(c)
  BY <1>12 DEF ProjectDecide, Claim, books, cache, history
<1>13. CASE ProjectReport(c)
  BY <1>13 DEF ProjectReport, Emit, books, cache
<1>14. CASE WriteFails(c)
  BY <1>14, FileTypes DEF WriteFails, books
<1>15. CASE ProjectUnreadable(c)
  BY <1>15 DEF ProjectUnreadable, books, cache, history
<1> QED BY <1>3, <1>4, <1>5, <1>6, <1>7, <1>8, <1>9, <1>10, <1>11, <1>12, <1>13, <1>14, <1>15 DEF Step

(* So do all the others. *)
LEMMA OtherStepTypes ==
    ASSUME TypeOK, KeysFit, disturbed' \in BOOLEAN,
           (\E c \in Calls : Begins(c)) \/ Elsewhere \/ Crash \/ Initialize
    PROVE  TypeOK'
<1>1. NoText \in Texts /\ IdleCall \in CallStates
  BY DEF NoText, Texts, IdleCall, CallStates
<1> USE <1>1 DEF TypeOK
<1>2. ASSUME NEW c \in Calls, NEW x \in Items, OnFeatureDone(c, x) PROVE TypeOK'
  <2>1. /\ MilestoneOf[x] \in Milestones \cup {None}
        /\ (IF x \in Features THEN EpicOf[x] ELSE None) \in Epics \cup {None}
    BY OfAssumption DEF Items
  <2>2. LookAtEpic(IF x \in Features THEN EpicOf[x] ELSE None, MilestoneOf[x]) \in CallStates
    BY <2>1, LookTypes
  <2> QED BY <1>2, <2>2 DEF OnFeatureDone, books, cache, history
<1>3. ASSUME NEW c \in Calls, NEW e \in Epics, SweepEpic(c, e) PROVE TypeOK'
  BY <1>3, LookTypes DEF SweepEpic, SetStatus, books, cache, history, Items
<1>4. ASSUME NEW s \in Syncs, SyncBegins(s) PROVE TypeOK'
  BY <1>4 DEF SyncBegins, books, history, Texts
<1>5. ASSUME NEW s \in Syncs, SyncOpens(s) \/ SyncLands(s) \/ SyncFails(s) PROVE TypeOK'
  <2>1. sync[s].text \in Texts /\ IdleSync \in [at : {"idle", "land", "writing", "cache"},
                                                held : {"active", "completed"}, text : Texts]
    BY DEF IdleSync
  <2>2. file' \in SUBSET (Texts \cup {Torn})
    BY <1>5, <2>1, FileTypes DEF SyncOpens, SyncLands, SyncFails
  <2> QED BY <1>5, <2>1, <2>2 DEF SyncOpens, SyncLands, SyncFails, books, history
<1>6. ASSUME NEW s \in Syncs, SyncCached(s) PROVE TypeOK'
  BY <1>6 DEF SyncCached, IdleSync, books, history
<1>7. ASSUME NEW x \in Items, Reopen(x) PROVE TypeOK'
  BY <1>7, BoundAssumption DEF Reopen, SetStatus, books, cache, history
<1>8. ASSUME NEW x \in Items, NEW n \in 1..2, Finish(x, n) PROVE TypeOK'
  BY <1>8 DEF Finish, SetStatus, books, cache, history
<1>9. ASSUME NEW e \in Epics, Webhook(e) PROVE TypeOK'
  <2>1. board' \in [Items -> {"open", "blocked", "review", "done"}] /\ owed' \in [Items -> 0..2]
    BY <1>9 DEF Webhook, PullRequestEnds, ClosedRead, ClosedRecovered, MergeRead, MergeInspected,
       MergeSettles, EpicLands, WebhookFails, SetStatus, Items
  <2>2. pr' \in [Epics -> {"none", "open", "closed", "recovering",
                            "merged", "inspecting", "settling", "landing", "landed"}]
    BY <1>9 DEF Webhook, PullRequestEnds, ClosedRead, ClosedRecovered, MergeRead, MergeInspected,
       MergeSettles, EpicLands, WebhookFails, Redelivered
  <2> QED BY <1>9, <2>1, <2>2, WebhookFrame DEF books, cache
<1>10. CASE Crash
  <2>1. {call[c].key : c \in {d \in Calls : Claims(d)}} \subseteq Keys
    BY DEF Claims, KeysFit, EpicPlaces, Keys
  <2>2. /\ \A text \in Texts \cup {Torn} :
              text.mdone \in SUBSET Milestones /\ text.status \in {"active", "completed", "torn"}
        /\ file \cup Written \in SUBSET (Texts \cup {Torn})
    BY <1>1, FileTypes DEF Texts, Torn
  <2>3. [s \in Syncs |-> IdleSync] \in [Syncs -> [at : {"idle", "land", "writing", "cache"},
                                                 held : {"active", "completed"}, text : Texts]]
    BY <1>1 DEF IdleSync
  <2>4. broken' \in SUBSET Keys /\ mishaps' \in 0..MaxMishaps
    BY <1>10, <2>1, BoundAssumption DEF Crash
  <2>5. ledger' \in SUBSET Keys /\ claimed' \in SUBSET Keys /\ owed' \in [Items -> 0..2]
    BY <1>10 DEF Crash
  <2>6. sync' = [s \in Syncs |-> IdleSync] /\ call' \in [Calls -> CallStates]
    BY <1>10 DEF Crash
  <2>7. pr' \in [Epics -> {"none", "open", "closed", "recovering",
                            "merged", "inspecting", "settling", "landing", "landed"}]
    BY <1>10 DEF Crash, Redelivered
  <2>8. PICK text \in file \cup Written :
            file' = {text} /\ mdone' = text.mdone /\ pstatus' = text.status
    BY <1>10 DEF Crash
  <2>9. UNCHANGED <<board, branch, emitted, twice, returned>> /\ up' = FALSE
    BY <1>10 DEF Crash
  <2> QED BY <2>2, <2>3, <2>4, <2>5, <2>6, <2>7, <2>8, <2>9
<1>11. CASE Initialize
  BY <1>11 DEF Initialize, cache, history
<1> QED BY <1>2, <1>3, <1>4, <1>5, <1>7, <1>8, <1>9, <1>10, <1>11, <1>6
        DEF Begins, Elsewhere, SyncSteps

--------------------------------------------------------------------------------
(* What a step does to the call that takes it *)

Stays(c) == \A d \in Calls : d # c => call'[d] = call[d]

(* It goes to another place with its key, or turns to a milestone that is not claimed. *)
Moved(c, at) == Stays(c) /\ call'[c].at = at /\ call'[c].key = call[c].key
Left(c) ==
    /\ Stays(c) /\ call'[c].at \in {"idle", "milestone"}
    /\ call'[c].at = "milestone" => call'[c].key \in Milestones \ claimed

(* A milestone that a call turns to is not claimed, nor is an epic. *)
LEMMA AfterFacts ==
    ASSUME NEW first \in Milestones \cup {None}, NEW later \in Milestones \cup {None}
    PROVE  /\ After(first, later).at \in {"idle", "milestone"}
           /\ After(first, later).at = "milestone" => After(first, later).key \in Milestones \ claimed
BY DEF After, IdleCall

(* A call that begins looks at nothing that is claimed. *)
LEMMA LookFacts ==
    ASSUME NEW e \in Epics \cup {None}, NEW later \in Milestones \cup {None}
    PROVE  LET r == LookAtEpic(e, later) IN
           /\ r.at \in {"idle", "milestone", "epic"}
           /\ r.at = "milestone" => r.key \in Milestones \ claimed
           /\ r.at = "epic" => r.key \in Epics \ claimed
BY AfterFacts DEF LookAtEpic, IdleCall

(* Done with its key, or on to another place with it. *)
LEMMA LeavesFacts ==
    ASSUME TypeOK, NEW c \in Calls, Leaves(c)
    PROVE  Left(c)
<1>1. call[c].later \in Milestones \cup {None} /\ call \in [Calls -> CallStates]
  BY CallTypes DEF TypeOK
<1> QED BY <1>1, AfterFacts DEF Leaves, Left, Stays

(* A step to another place with the same key. *)
LEMMA MovesFacts ==
    ASSUME TypeOK, NEW c \in Calls, NEW at, call' = [call EXCEPT ![c].at = at]
    PROVE  Moved(c, at) /\ call'[c].held = call[c].held
BY CallTypes DEF TypeOK, Moved, Stays, CallStates

(* Each step of checkEpicCompletion. *)
LEMMA EpicStepFacts ==
    ASSUME TypeOK, KeysFit, NEW c \in Calls
    PROVE  /\ EpicRead(c) => \/ (Left(c) /\ claimed' = claimed)
                          \/ /\ board[call[c].key] \notin {"done", "review"}
                             /\ \/ (Moved(c, "probing") /\ claimed' = claimed)
                                \/ (Moved(c, "completing") /\ claimed' = claimed \cup {call[c].key})
           /\ NothingToMerge(c) => Moved(c, "completing")
           /\ PullRequestReady(c) => Moved(c, "reviewing")
           /\ PullRequestFails(c) => Moved(c, "blocking")
           /\ EpicCompleted(c) \/ EpicInReview(c) \/ EpicBlocked(c) => Left(c)
<1>1. EpicRead(c) => \/ (Left(c) /\ claimed' = claimed)
                       \/ /\ board[call[c].key] \notin {"done", "review"}
                          /\ \/ (Moved(c, "probing") /\ claimed' = claimed)
                             \/ (Moved(c, "completing") /\ claimed' = claimed \cup {call[c].key})
  BY LeavesFacts, MovesFacts DEF EpicRead, Claim, books
<1>2. /\ NothingToMerge(c) => Moved(c, "completing")
      /\ PullRequestReady(c) => Moved(c, "reviewing")
      /\ PullRequestFails(c) => Moved(c, "blocking")
  BY MovesFacts DEF NothingToMerge, PullRequestReady, PullRequestFails
<1>3. EpicInReview(c) \/ EpicBlocked(c) => Left(c)
  BY LeavesFacts DEF EpicInReview, EpicBlocked
<1>4. EpicCompleted(c) => Left(c)
  <2> SUFFICES ASSUME EpicCompleted(c) PROVE Left(c)
    OBVIOUS
  <2>1. call[c].key \in Epics
    BY DEF EpicCompleted, KeysFit, EpicPlaces
  <2>2. MilestoneOf[call[c].key] \in Milestones \cup {None}
    BY <2>1, OfAssumption
  <2>3. call' = [call EXCEPT ![c] = After(MilestoneOf[call[c].key], call[c].later)]
    BY DEF EpicCompleted
  <2>4. call[c].later \in Milestones \cup {None} /\ call \in [Calls -> CallStates]
    BY CallTypes DEF TypeOK
  <2> QED BY <2>2, <2>3, <2>4, AfterFacts DEF Left, Stays
<1> QED BY <1>1, <1>2, <1>3, <1>4

(* Each step of checkMilestoneCompletion and checkProjectCompletion. *)
LEMMA ProjectStepFacts ==
    ASSUME TypeOK, KeysFit, NEW c \in Calls
    PROVE  /\ MilestoneLook(c) => \/ Left(c)
                                  \/ /\ call[c].key \notin mdone
                                     /\ Moved(c, "features") /\ call'[c].held = pstatus
           /\ MilestoneDecide(c) =>
                \/ (Left(c) /\ claimed' = claimed /\ mdone' = mdone)
                \/ /\ Moved(c, "save") /\ call'[c].held = call[c].held
                   /\ claimed' = claimed \cup {call[c].key} /\ mdone' = mdone \cup {call[c].key}
           /\ Save(c) => /\ Moved(c, "land") /\ call'[c].held = call[c].held
                         /\ call'[c].text.status = call[c].held /\ call'[c].text.mdone = mdone
           /\ Open(c) => /\ Moved(c, "writing") /\ call'[c].held = call[c].held
                         /\ call'[c].text = call[c].text
           /\ Land(c) => Moved(c, "cache") /\ call'[c].held = call[c].held
           /\ Cached(c) => \/ /\ call[c].key = Project /\ Moved(c, "report")
                              /\ UNCHANGED <<emitted, twice>>
                           \/ /\ call[c].key # Project /\ Emit(call[c].key)
                              /\ \/ Left(c)
                                 \/ /\ Project \notin claimed /\ Stays(c)
                                    /\ call'[c].at = "project" /\ call'[c].key = Project
           /\ ProjectDecide(c) =>
                \/ (Left(c) /\ claimed' = claimed)
                \/ /\ pstatus # "completed" /\ claimed' = claimed \cup {Project}
                   /\ Moved(c, "save") /\ call'[c].held = "completed"
           /\ ProjectReport(c) \/ WriteFails(c) \/ ProjectUnreadable(c) => Left(c)
<1>1. MilestoneLook(c) => \/ Left(c)
                          \/ /\ call[c].key \notin mdone
                             /\ Moved(c, "features") /\ call'[c].held = pstatus
  BY LeavesFacts, CallTypes DEF MilestoneLook, TypeOK, Moved, Stays, CallStates
<1>2. MilestoneDecide(c) =>
      \/ (Left(c) /\ claimed' = claimed /\ mdone' = mdone)
      \/ /\ Moved(c, "save") /\ call'[c].held = call[c].held
         /\ claimed' = claimed \cup {call[c].key} /\ mdone' = mdone \cup {call[c].key}
  BY LeavesFacts, MovesFacts DEF MilestoneDecide, Claim, books
<1>3. Save(c) => /\ Moved(c, "land") /\ call'[c].held = call[c].held
                 /\ call'[c].text.status = call[c].held /\ call'[c].text.mdone = mdone
  BY CallTypes DEF Save, TypeOK, Moved, Stays, CallStates
<1>4. Land(c) => Moved(c, "cache") /\ call'[c].held = call[c].held
  BY CallTypes DEF Land, TypeOK, Moved, Stays, CallStates
<1>5. Open(c) => Moved(c, "writing") /\ call'[c].held = call[c].held /\ call'[c].text = call[c].text
  BY CallTypes DEF Open, TypeOK, Moved, Stays, CallStates
<1>6. Cached(c) => \/ /\ call[c].key = Project /\ Moved(c, "report")
                      /\ UNCHANGED <<emitted, twice>>
                   \/ /\ call[c].key # Project /\ Emit(call[c].key)
                      /\ \/ Left(c)
                         \/ /\ Project \notin claimed /\ Stays(c)
                            /\ call'[c].at = "project" /\ call'[c].key = Project
  <2> SUFFICES ASSUME Cached(c), call[c].key # Project, Project \notin claimed
               PROVE  Stays(c) /\ call'[c].at = "project" /\ call'[c].key = Project
    BY LeavesFacts, MovesFacts DEF Cached, Leaves
  <2> DEFINE r == [IdleCall EXCEPT !.at = "project", !.key = Project, !.later = call[c].later]
  <2>1. r.at = "project" /\ r.key = Project
    BY DEF IdleCall
  <2>2. call' = [call EXCEPT ![c] = r] /\ call \in [Calls -> CallStates]
    BY DEF Cached, TypeOK
  <2> HIDE DEF r
  <2> QED BY <2>1, <2>2 DEF Stays
<1>7. ProjectDecide(c) =>
      \/ (Left(c) /\ claimed' = claimed)
      \/ /\ pstatus # "completed" /\ claimed' = claimed \cup {Project}
         /\ Moved(c, "save") /\ call'[c].held = "completed"
  <2> SUFFICES ASSUME ProjectDecide(c), ~(Leaves(c) /\ claimed' = claimed)
               PROVE  Moved(c, "save") /\ call'[c].held = "completed"
    BY LeavesFacts DEF ProjectDecide, Claim, books
  <2> DEFINE r == [call[c] EXCEPT !.at = "save"]
             q == [r EXCEPT !.held = "completed"]
  <2>1. r \in CallStates /\ r.at = "save" /\ r.key = call[c].key
    BY CallTypes, FieldTypes DEF CallStates, Places, ClaimPlaces
  <2> HIDE DEF r
  <2>2. q.at = "save" /\ q.key = call[c].key /\ q.held = "completed"
    BY <2>1 DEF CallStates
  <2>3. call' = [call EXCEPT ![c] = q] /\ call \in [Calls -> CallStates]
    BY DEF ProjectDecide, TypeOK, r, Claim, books
  <2> HIDE DEF q
  <2> QED BY <2>2, <2>3 DEF Moved, Stays
<1>8. ProjectReport(c) => Left(c)
  BY LeavesFacts DEF ProjectReport
<1>9. WriteFails(c) \/ ProjectUnreadable(c) => Left(c)
  BY DEF WriteFails, ProjectUnreadable, TypeOK, Left, Stays, IdleCall
<1> QED BY <1>1, <1>2, <1>3, <1>4, <1>6, <1>7, <1>8, <1>9, <1>5

(* A call begins. *)
LEMMA BeginFacts ==
    ASSUME TypeOK, NEW c \in Calls, NEW e \in Epics \cup {None}, NEW later \in Milestones \cup {None},
           call' = [call EXCEPT ![c] = LookAtEpic(e, later)]
    PROVE  /\ Stays(c) /\ call'[c].at \in {"idle", "milestone", "epic"}
           /\ call'[c].at = "milestone" => call'[c].key \in Milestones \ claimed
           /\ call'[c].at = "epic" => call'[c].key \in Epics \ claimed
BY LookFacts DEF TypeOK, Stays

--------------------------------------------------------------------------------
(* Keys and places, and what is under way while the server is down *)

(* An event, or the sweep, gives an idle call something to look at. *)
LEMMA BeginsFacts ==
    ASSUME TypeOK, NEW c \in Calls, Begins(c)
    PROVE  \/ call' = call
           \/ /\ call[c].at = "idle" /\ Stays(c) /\ call'[c].at \in {"idle", "milestone", "epic"}
              /\ call'[c].at = "milestone" => call'[c].key \in Milestones \ claimed
              /\ call'[c].at = "epic" => call'[c].key \in Epics \ claimed
<1>1. ASSUME NEW x \in Items, OnFeatureDone(c, x)
      PROVE  \E e \in Epics \cup {None}, later \in Milestones \cup {None} :
                call[c].at = "idle" /\ call' = [call EXCEPT ![c] = LookAtEpic(e, later)]
  <2>1. /\ MilestoneOf[x] \in Milestones \cup {None}
        /\ (IF x \in Features THEN EpicOf[x] ELSE None) \in Epics \cup {None}
    BY OfAssumption DEF Items
  <2>2. call[c].at = "idle" /\ call' = [call EXCEPT ![c] =
                LookAtEpic(IF x \in Features THEN EpicOf[x] ELSE None, MilestoneOf[x])]
    BY <1>1 DEF OnFeatureDone
  <2> QED BY <2>1, <2>2
<1>2. ASSUME NEW e \in Epics, SweepEpic(c, e)
      PROVE  \/ call' = call
             \/ call[c].at = "idle" /\ call' = [call EXCEPT ![c] = LookAtEpic(e, None)]
  BY <1>2 DEF SweepEpic
<1> QED BY <1>1, <1>2, BeginFacts DEF Begins

(* The rest of the program leaves the calls and the claims alone. *)
LEMMA ElsewhereFacts ==
    ASSUME Elsewhere
    PROVE  /\ UNCHANGED <<call, up, claimed, ledger, mdone, emitted, twice, broken>>
           /\ returned \subseteq returned'
<1>1. ASSUME NEW s \in Syncs, SyncSteps(s)
      PROVE  UNCHANGED <<call, up, claimed, ledger, mdone, emitted, twice, broken, returned>>
  BY <1>1 DEF SyncSteps, SyncBegins, SyncOpens, SyncLands, SyncFails, SyncCached, books, history
<1>2. ASSUME NEW x \in Items, Reopen(x) \/ \E n \in 1..2 : Finish(x, n)
      PROVE  UNCHANGED <<call, up, claimed, ledger, mdone, emitted, twice, broken, returned>>
  BY <1>2 DEF Reopen, Finish, books, cache, history
<1> QED BY <1>1, <1>2, WebhookFrame DEF Elsewhere, books, cache

(* A call at an epic's place works on an epic, and so on. *)
LEMMA KeysFitStep ==
    ASSUME TypeOK, KeysFit, Acts
    PROVE  KeysFit'
<1> USE DEF KeysFit, EpicPlaces, Moved, Left, Stays
<1>1. ASSUME NEW c \in Calls, Step(c) PROVE KeysFit'
  <2>1. CASE EpicRead(c) \/ NothingToMerge(c) \/ PullRequestReady(c) \/ PullRequestFails(c)
             \/ EpicCompleted(c) \/ EpicInReview(c) \/ EpicBlocked(c)
    BY <2>1, EpicStepFacts DEF EpicRead, NothingToMerge, PullRequestReady, PullRequestFails
  <2>2. CASE MilestoneLook(c) \/ MilestoneDecide(c)
    BY <2>2, ProjectStepFacts DEF MilestoneLook, MilestoneDecide
  <2>3. CASE Save(c) \/ Open(c) \/ Land(c)
    BY <2>3, ProjectStepFacts DEF Save, Open, Land
  <2>4. CASE Cached(c)
    BY <2>4, ProjectStepFacts
  <2>5. CASE ProjectDecide(c) \/ ProjectReport(c) \/ WriteFails(c) \/ ProjectUnreadable(c)
    BY <2>5, ProjectStepFacts DEF ProjectDecide
  <2> QED BY <1>1, <2>1, <2>2, <2>3, <2>4, <2>5 DEF Step
<1>2. ASSUME NEW c \in Calls, Begins(c) PROVE KeysFit'
  BY <1>2, BeginsFacts
<1>3. CASE Elsewhere
  BY <1>3, ElsewhereFacts
<1>4. CASE Crash
  BY <1>4 DEF Crash, IdleCall
<1>5. CASE Initialize
  BY <1>5 DEF Initialize
<1> QED BY <1>1, <1>2, <1>3, <1>4, <1>5 DEF Acts

(* A crash leaves nothing under way, and nothing starts before initialize. *)
LEMMA DownStep ==
    ASSUME TypeOK, Down, Acts
    PROVE  Down'
<1> SUFFICES ASSUME ~up' PROVE Down'
  BY DEF Down
<1>1. CASE Crash
  BY <1>1 DEF Crash, Down, IdleCall, IdleSync
<1>2. ASSUME ~up, NEW c \in Calls PROVE ~Step(c) /\ ~\E x \in Items : OnFeatureDone(c, x)
  BY <1>2 DEF Down, Step, OnFeatureDone, EpicRead, NothingToMerge, PullRequestReady, PullRequestFails,
     EpicCompleted, EpicInReview, EpicBlocked, MilestoneLook, MilestoneDecide, Save, Open, Land, Cached,
     ProjectDecide, ProjectReport, WriteFails, ProjectUnreadable
<1>3. ASSUME NEW c \in Calls, NEW e \in Epics, SweepEpic(c, e) PROVE up /\ up' = up
  BY <1>3 DEF SweepEpic
<1>4. ASSUME NEW c \in Calls, Step(c) PROVE up' = up
  BY <1>4 DEF Step, EpicRead, NothingToMerge, PullRequestReady, PullRequestFails,
     EpicCompleted, EpicInReview, EpicBlocked, MilestoneLook, MilestoneDecide, Save, Open, Land, Cached,
     ProjectDecide, ProjectReport, WriteFails, ProjectUnreadable
<1>5. ASSUME NEW c \in Calls, NEW x \in Items, OnFeatureDone(c, x) PROVE up' = up
  BY <1>5 DEF OnFeatureDone
<1>6. CASE Elsewhere
  <2>1. ~up /\ call' = call
    BY <1>6, ElsewhereFacts
  <2>2. ASSUME NEW s \in Syncs PROVE ~SyncSteps(s)
    BY <2>1 DEF SyncSteps, SyncBegins, SyncOpens, SyncLands, SyncFails, SyncCached, Down
  <2>3. ASSUME NEW e \in Epics, Webhook(e) PROVE sync' = sync /\ owed' = owed
    BY <2>1, <2>3, WebhookFrame DEF Webhook, PullRequestEnds, ClosedRead, ClosedRecovered, MergeRead,
       MergeInspected, MergeSettles, EpicLands, WebhookFails, SetStatus, cache
  <2>4. sync' = sync /\ owed' = owed
    BY <1>6, <2>1, <2>2, <2>3 DEF Elsewhere, Reopen, Finish, SetStatus, cache
  <2> QED BY <2>1, <2>4 DEF Down
<1>7. ~Initialize
  BY DEF Initialize
<1> QED BY <1>1, <1>2, <1>3, <1>4, <1>5, <1>6, <1>7 DEF Acts, Begins

--------------------------------------------------------------------------------
(* The claims *)

(* A call that has claimed keeps its claim until it has announced it, or failed. *)
Answers(c) ==
    /\ emitted \subseteq emitted' /\ broken \subseteq broken'
    /\ Announcing(c) => \/ Announcing(c)' /\ call'[c].key = call[c].key
                        \/ call[c].key \in emitted' \cup broken'
Claiming(c) ==
    /\ ledger' = ledger
    /\ \/ claimed' = claimed
       \/ claimed' = claimed \cup {call[c].key} /\ Announcing(c)' /\ call'[c].key = call[c].key

(* A claim is made by a call that goes on to announce it. *)
LEMMA StepAnswers ==
    ASSUME TypeOK, KeysFit, NEW c \in Calls, Step(c)
    PROVE  Answers(c) /\ Claiming(c) /\ Stays(c)
<1> USE DEF Answers, Claiming, Announcing, ClaimPlaces, Moved, Left
<1>1. CASE EpicRead(c)
  BY <1>1, EpicStepFacts DEF EpicRead, Claim, books, history
<1>2. CASE NothingToMerge(c) \/ PullRequestReady(c) \/ PullRequestFails(c)
  BY <1>2, EpicStepFacts DEF NothingToMerge, PullRequestReady, PullRequestFails, Claim, books, history
<1>3. CASE EpicCompleted(c) \/ EpicInReview(c)
  BY <1>3, EpicStepFacts DEF EpicCompleted, EpicInReview, Emit, books
<1>4. CASE EpicBlocked(c)
  BY <1>4, EpicStepFacts DEF EpicBlocked, books, history
<1>5. CASE MilestoneLook(c) \/ Save(c) \/ Open(c) \/ Land(c)
  BY <1>5, ProjectStepFacts DEF MilestoneLook, Save, Open, Land, books, history
<1>6. CASE MilestoneDecide(c)
  BY <1>6, ProjectStepFacts DEF MilestoneDecide, Claim, books, history
<1>7. CASE Cached(c)
  BY <1>7, ProjectStepFacts DEF Cached, Emit, books
<1>8. CASE ProjectDecide(c)
  BY <1>8, ProjectStepFacts DEF ProjectDecide, Claim, books, history, KeysFit
<1>9. CASE ProjectReport(c)
  BY <1>9, ProjectStepFacts DEF ProjectReport, Emit, books, KeysFit
<1>10. CASE WriteFails(c)
  BY <1>10, ProjectStepFacts DEF WriteFails, books
<1>11. CASE ProjectUnreadable(c)
  BY <1>11, ProjectStepFacts DEF ProjectUnreadable, books, history
<1> QED BY <1>1, <1>2, <1>3, <1>4, <1>5, <1>6, <1>7, <1>8, <1>9, <1>10, <1>11 DEF Step

(* No claim, and no line of the ledger, is without an announcement or a failure. *)
LEMMA HonestStep ==
    ASSUME TypeOK, KeysFit, Honest, Acts
    PROVE  Honest'
<1>1. ASSUME NEW c \in Calls, Step(c) PROVE Honest'
  <2>1. Answers(c) /\ Claiming(c) /\ Stays(c)
    BY <1>1, StepAnswers
  <2>2. ASSUME NEW k, Honoured(k) PROVE Honoured(k)'
    BY <2>1, <2>2 DEF Honoured, Answers, Announcing, Stays
  <2>3. claimed' # claimed => Honoured(call[c].key)'
    BY <2>1 DEF Honoured, Claiming
  <2> QED BY <2>1, <2>2, <2>3 DEF Honest, Claiming
<1>2. ASSUME NEW c \in Calls, Begins(c) PROVE Honest'
  <2>1. UNCHANGED <<claimed, ledger, emitted, broken>>
    BY <1>2 DEF Begins, OnFeatureDone, SweepEpic, books, history
  <2>2. ASSUME NEW k, Honoured(k) PROVE Honoured(k)'
    BY <1>2, <2>1, <2>2, BeginsFacts DEF Honoured, Announcing, Stays, ClaimPlaces
  <2> QED BY <2>1, <2>2 DEF Honest
<1>3. CASE Elsewhere
  BY <1>3, ElsewhereFacts DEF Honest, Honoured, Announcing
<1>4. CASE Crash
  <2>1. /\ claimed' = {} /\ ledger' \subseteq ledger \cup claimed /\ emitted' = emitted
        /\ broken' = broken \cup {call[c].key : c \in {d \in Calls : Claims(d)}}
    BY <1>4 DEF Crash
  <2>2. ASSUME NEW k, Honoured(k) PROVE Honoured(k)'
    BY <2>1, <2>2 DEF Honoured, Announcing, ClaimPlaces, Claims
  <2> QED BY <2>1, <2>2 DEF Honest
<1>5. CASE Initialize
  BY <1>5 DEF Initialize, Honest, Honoured, Announcing, history
<1> QED BY <1>1, <1>2, <1>3, <1>4, <1>5 DEF Acts

--------------------------------------------------------------------------------
(* Undisturbed steps *)

(* Nobody else looks at the key of a call that looks, or writes beside a writer. *)
LEMMA Alone ==
    ASSUME KeysFit, ~Crossing, NEW c \in Calls
    PROVE  /\ call[c].at \in LookPlaces =>
                \A d \in Calls : d # c /\ call[d].key = call[c].key => call[d].at \notin LookPlaces
           /\ call[c].at \in WritePlaces =>
                /\ \A d \in Calls : d # c => call[d].at \notin WritePlaces
                /\ \A s \in Syncs : sync[s].at = "idle"
<1>1. ASSUME call[c].at \in LookPlaces, NEW d \in Calls, d # c, call[d].key = call[c].key,
             call[d].at \in LookPlaces
      PROVE  FALSE
  <2>1. call[c].key \in Keys
    BY <1>1 DEF KeysFit, LookPlaces, EpicPlaces, Keys
  <2>2. c \in Looking(call[c].key) /\ d \in Looking(call[c].key)
    BY <1>1 DEF Looking, LookPlaces
  <2> QED BY <1>1, <2>1, <2>2 DEF Crossing, Several
<1>2. ASSUME call[c].at \in WritePlaces, NEW d \in Calls, d # c, call[d].at \in WritePlaces
      PROVE  FALSE
  BY <1>2 DEF Crossing, Several, Writers, WritePlaces
<1>3. ASSUME call[c].at \in WritePlaces, NEW s \in Syncs PROVE sync[s].at = "idle"
  <2>1. s # c
    BY CallersAssumption
  <2> QED BY <1>3, <2>1 DEF Crossing, Several, Writers, WritePlaces
<1> QED BY <1>1, <1>2, <1>3

(* Other writers too are alone. *)
LEMMA SyncAlone ==
    ASSUME ~Crossing, NEW s \in Syncs, sync[s].at # "idle"
    PROVE  \A d \in Calls : call[d].at \notin WritePlaces
<1> SUFFICES ASSUME NEW d \in Calls, call[d].at \in WritePlaces PROVE FALSE
  OBVIOUS
<1>1. s # d
  BY CallersAssumption
<1> QED BY <1>1 DEF Crossing, Several, Writers, WritePlaces

(* What a step of a call has to do with the claims. *)
LEMMA StepClaims ==
    ASSUME TypeOK, KeysFit, NEW c \in Calls, Step(c)
    PROVE  /\ Stays(c)
           /\ \/ /\ claimed' = claimed
                 /\ \/ call'[c].at = "idle"
                    \/ call'[c].at \in {"milestone", "project"} /\ call'[c].key \notin claimed
              \/ /\ claimed' = claimed /\ call'[c].key = call[c].key
                 /\ call[c].at \in LookPlaces /\ call'[c].at \in LookPlaces
              \/ /\ claimed' = claimed \cup {call[c].key} /\ call'[c].key = call[c].key
                 /\ call[c].at \in LookPlaces /\ Announcing(c)'
              \/ /\ claimed' = claimed /\ call'[c].key = call[c].key
                 /\ Announcing(c) /\ Announcing(c)'
<1> USE DEF Announcing, ClaimPlaces, LookPlaces, Moved, Left
<1>1. CASE EpicRead(c)
  BY <1>1, EpicStepFacts DEF EpicRead
<1>2. CASE NothingToMerge(c) \/ PullRequestReady(c) \/ PullRequestFails(c)
  BY <1>2, EpicStepFacts DEF NothingToMerge, PullRequestReady, PullRequestFails, Claim, books
<1>3. CASE EpicCompleted(c) \/ EpicInReview(c) \/ EpicBlocked(c)
  BY <1>3, EpicStepFacts DEF EpicCompleted, EpicInReview, EpicBlocked, books
<1>4. CASE MilestoneLook(c) \/ Save(c) \/ Open(c) \/ Land(c)
  BY <1>4, ProjectStepFacts DEF MilestoneLook, Save, Open, Land, books
<1>5. CASE MilestoneDecide(c)
  BY <1>5, ProjectStepFacts DEF MilestoneDecide
<1>6. CASE Cached(c)
  BY <1>6, ProjectStepFacts DEF Cached, books
<1>7. CASE ProjectDecide(c)
  BY <1>7, ProjectStepFacts DEF ProjectDecide, KeysFit
<1>8. CASE ProjectReport(c) \/ WriteFails(c) \/ ProjectUnreadable(c)
  BY <1>8, ProjectStepFacts DEF ProjectReport, WriteFails, ProjectUnreadable, books
<1> QED BY <1>1, <1>2, <1>3, <1>4, <1>5, <1>6, <1>7, <1>8 DEF Step

(* As long as no two calls look at one key, no key is claimed twice. *)
LEMMA ClaimedOnceStep ==
    ASSUME TypeOK, KeysFit, Down, ~Crossing, ClaimedOnce, Acts
    PROVE  ClaimedOnce'
<1>1. ASSUME NEW c \in Calls, Step(c) PROVE ClaimedOnce'
  <2>1. call[c].at \in LookPlaces =>
            \A d \in Calls : d # c /\ call[d].key = call[c].key => call[d].at \notin LookPlaces
    BY Alone
  <2> QED BY <1>1, <2>1, StepClaims DEF ClaimedOnce, Announcing, Stays, ClaimPlaces, LookPlaces
<1>2. ASSUME NEW c \in Calls, Begins(c) PROVE ClaimedOnce'
  <2>1. claimed' = claimed
    BY <1>2 DEF Begins, OnFeatureDone, SweepEpic, books
  <2> QED BY <1>2, <2>1, BeginsFacts DEF ClaimedOnce, Announcing, Stays, ClaimPlaces, LookPlaces
<1>3. CASE Elsewhere
  BY <1>3, ElsewhereFacts DEF ClaimedOnce, Announcing
<1>4. CASE Crash
  BY <1>4 DEF Crash, ClaimedOnce, Announcing, ClaimPlaces, IdleCall
<1>5. CASE Initialize
  BY <1>5 DEF Initialize, ClaimedOnce, Announcing, ClaimPlaces, LookPlaces, Down
<1> QED BY <1>1, <1>2, <1>3, <1>4, <1>5 DEF Acts

(* What is announced of an epic stays true on the board. *)
LEMMA EpicsStandStep ==
    ASSUME TypeOK, KeysFit, ClaimedOnce, EpicsStand, Acts, ~LandsEarly, ~ReopensEpic
    PROVE  EpicsStand'
<1> USE DEF EpicsStand, Standing, Moved, Left, Stays
<1>1. ASSUME NEW c \in Calls, Step(c) PROVE EpicsStand'
  <2>1. CASE EpicRead(c)
    BY <2>1, EpicStepFacts DEF EpicRead, history
  <2>2. CASE NothingToMerge(c) \/ PullRequestFails(c)
    BY <2>2, EpicStepFacts DEF NothingToMerge, PullRequestFails, history
  <2>3. CASE PullRequestReady(c)
    BY <2>3, EpicStepFacts DEF PullRequestReady, history, TypeOK
  <2>4. CASE EpicCompleted(c) \/ EpicInReview(c)
    <3>1. \A d \in Calls : d # c /\ call[d].key = call[c].key
            => call[d].at \notin {"probing", "blocking", "completing", "reviewing"}
      BY <2>4 DEF ClaimedOnce, Announcing, ClaimPlaces, LookPlaces, EpicCompleted, EpicInReview
    <3>2. /\ emitted' = emitted \cup {call[c].key} /\ returned' = returned
          /\ pr' = pr /\ call[c].key \in Epics
          /\ \/ board' = [board EXCEPT ![call[c].key] = "done"]
             \/ /\ board' = [board EXCEPT ![call[c].key] = "review"]
                /\ pr[call[c].key] \notin {"settling", "landing", "landed"}
      BY <2>4 DEF EpicCompleted, EpicInReview, SetStatus, Emit, KeysFit, EpicPlaces, LandsEarly
    <3>3. Stays(c) /\ call'[c].at \in {"idle", "milestone"}
      BY <2>4, EpicStepFacts
    <3>4. board'[call[c].key] \in IF pr'[call[c].key] \in {"settling", "landing", "landed"} THEN {"done"} ELSE {"review", "done"}
      BY <3>2 DEF TypeOK, Items
    <3>5. \A e \in Epics : e # call[c].key => board'[e] = board[e]
      BY <3>2 DEF TypeOK, Items
    <3>6. \A d \in Calls : call'[d].key = call[c].key
            => call'[d].at \notin {"probing", "blocking", "completing", "reviewing"}
      BY <3>1, <3>3
    <3>7. \A e \in Epics, d \in Calls :
            call'[d].at \in {"probing", "blocking", "completing", "reviewing"} /\ call'[d].key = e
              => call[d].at = call'[d].at /\ call[d].key = e
      BY <3>3
    <3> DEFINE Known(e) == board'[e] \in IF pr'[e] \in {"settling", "landing", "landed"} THEN {"done"} ELSE {"review", "done"}
               Free(e) == \A d \in Calls : call'[d].key = e
                  => call'[d].at \notin {"probing", "blocking", "completing", "reviewing"}
    <3>8. Known(call[c].key) /\ Free(call[c].key)
      BY <3>4, <3>6
    <3>9. ASSUME NEW e \in Standing, e # call[c].key PROVE Known(e) /\ Free(e)
      <4>1. Known(e)
        BY <3>2, <3>5, <3>9
      <4>2. Free(e)
        BY <3>7, <3>9
      <4> QED BY <4>1, <4>2
    <3>10. \A e \in Standing' : Known(e) /\ Free(e)
      <4> HIDE DEF Known, Free
      <4> QED BY <3>2, <3>8, <3>9
    <3> QED BY <3>10
  <2>5. CASE EpicBlocked(c)
    <3>1. /\ UNCHANGED <<pr, emitted, returned>> /\ Stays(c) /\ call'[c].at \in {"idle", "milestone"}
          /\ board' = [board EXCEPT ![call[c].key] = "blocked"] /\ call[c].at = "blocking"
      BY <2>5, EpicStepFacts DEF EpicBlocked, SetStatus, history
    <3>2. \A e \in Standing : e # call[c].key /\ board'[e] = board[e]
      BY <3>1 DEF TypeOK, Items
    <3>3. ASSUME NEW d \in Calls, call'[d].at \in {"probing", "blocking", "completing", "reviewing"}
          PROVE  call'[d] = call[d]
      BY <3>1, <3>3
    <3> QED BY <3>1, <3>2, <3>3
  <2>6. CASE MilestoneLook(c) \/ MilestoneDecide(c) \/ Save(c) \/ ProjectDecide(c)
    BY <2>6, ProjectStepFacts DEF MilestoneLook, MilestoneDecide, Save, ProjectDecide, history, cache
  <2>7. CASE Open(c) \/ Land(c)
    BY <2>7, ProjectStepFacts DEF Open, Land, history
  <2>8. CASE Cached(c) \/ ProjectReport(c)
    <3>1. board' = board /\ pr' = pr /\ returned' = returned /\ emitted' \cap Epics = emitted \cap Epics
      BY <2>8, KeysAssumption DEF Cached, ProjectReport, Emit, KeysFit
    <3>2. Stays(c) /\ call'[c].at \in {"idle", "milestone", "project", "report"}
      BY <2>8, ProjectStepFacts
    <3>3. ASSUME NEW d \in Calls, call'[d].at \in {"probing", "blocking", "completing", "reviewing"}
          PROVE  call'[d] = call[d]
      BY <3>2, <3>3
    <3> QED BY <3>1, <3>3
  <2>9. CASE WriteFails(c) \/ ProjectUnreadable(c)
    <3>1. UNCHANGED <<board, pr, emitted, returned>> /\ Stays(c) /\ call'[c].at \in {"idle", "milestone"}
      BY <2>9, ProjectStepFacts DEF WriteFails, ProjectUnreadable, history
    <3>2. ASSUME NEW d \in Calls, call'[d].at \in {"probing", "blocking", "completing", "reviewing"}
          PROVE  call'[d] = call[d]
      BY <3>1, <3>2
    <3> QED BY <3>1, <3>2
  <2> QED BY <1>1, <2>1, <2>2, <2>3, <2>4, <2>5, <2>6, <2>8, <2>9, <2>7 DEF Step
<1>2. ASSUME NEW c \in Calls, Begins(c) PROVE EpicsStand'
  <2>1. /\ UNCHANGED <<pr, emitted, returned>>
        /\ board' = board \/ \E e \in Epics : board' = [board EXCEPT ![e] = "done"]
    BY <1>2 DEF Begins, OnFeatureDone, SweepEpic, SetStatus, history
  <2> QED BY <1>2, <2>1, BeginsFacts DEF TypeOK, Items
<1>3. CASE Elsewhere
  <2>1. UNCHANGED <<call, emitted>>
    BY <1>3, ElsewhereFacts
  <2>2. ASSUME NEW s \in Syncs, SyncSteps(s) PROVE EpicsStand'
    <3>1. UNCHANGED <<board, pr, returned>>
      BY <2>2 DEF SyncSteps, SyncBegins, SyncOpens, SyncLands, SyncFails, SyncCached, history
    <3> QED BY <2>1, <3>1
  <2>3. ASSUME NEW x \in Items, Reopen(x) PROVE EpicsStand'
    <3>1. x \notin Epics
      BY <2>3 DEF Reopen, SetStatus, ReopensEpic, TypeOK
    <3> QED BY <2>1, <2>3, <3>1 DEF Reopen, SetStatus, TypeOK, Items, history
  <2>4. ASSUME NEW x \in Items, NEW n, Finish(x, n) PROVE EpicsStand'
    BY <2>1, <2>4 DEF Finish, SetStatus, TypeOK, Items, history
  <2>5. ASSUME NEW e \in Epics, Webhook(e) PROVE EpicsStand'
    <3>1. CASE PullRequestEnds(e) \/ ClosedRead(e) \/ MergeRead(e)
      BY <2>1, <3>1 DEF PullRequestEnds, ClosedRead, MergeRead, TypeOK, history
    <3>2. CASE MergeSettles(e) \/ WebhookFails(e)
      BY <2>1, <3>2 DEF MergeSettles, WebhookFails, Redelivered, TypeOK, history
    <3>3. CASE ClosedRecovered(e) \/ MergeInspected(e)
      BY <2>1, <3>3 DEF ClosedRecovered, MergeInspected, SetStatus, TypeOK, Items
    <3>4. CASE EpicLands(e)
      BY <2>1, <3>4 DEF EpicLands, SetStatus, TypeOK, Items, history
    <3> QED BY <2>5, <3>1, <3>2, <3>3, <3>4 DEF Webhook
  <2> QED BY <1>3, <2>2, <2>3, <2>4, <2>5 DEF Elsewhere
<1>4. CASE Crash
  BY <1>4 DEF Crash, IdleCall, Redelivered
<1>5. CASE Initialize
  BY <1>5 DEF Initialize, history
<1> QED BY <1>1, <1>2, <1>3, <1>4, <1>5 DEF Acts

(* What the calls that work on epics leave alone. *)
LEMMA EpicStepFrame ==
    ASSUME TypeOK, KeysFit, NEW c \in Calls,
           \/ EpicRead(c) \/ NothingToMerge(c) \/ PullRequestReady(c) \/ PullRequestFails(c)
           \/ EpicCompleted(c) \/ EpicInReview(c) \/ EpicBlocked(c)
    PROVE  /\ UNCHANGED cache /\ Stays(c)
           /\ call'[c].at \in {"idle", "milestone", "probing", "completing", "reviewing", "blocking"}
           /\ emitted' \subseteq emitted \cup {call[c].key} /\ call[c].key \in Epics
<1>1. call[c].key \in Epics
  BY DEF EpicRead, NothingToMerge, PullRequestReady, PullRequestFails, EpicCompleted,
         EpicInReview, EpicBlocked, KeysFit, EpicPlaces
<1>2. UNCHANGED cache /\ emitted' \subseteq emitted \cup {call[c].key}
  BY DEF EpicRead, NothingToMerge, PullRequestReady, PullRequestFails, EpicCompleted,
         EpicInReview, EpicBlocked, history, Emit
<1> QED BY <1>1, <1>2, EpicStepFacts DEF Moved, Left

(* And those that read the board, or begin. *)
LEMMA ElsewhereFrame ==
    ASSUME TypeOK,
           \/ \E c \in Calls : Begins(c)
           \/ \E x \in Items : Reopen(x) \/ \E n \in 1..2 : Finish(x, n)
           \/ \E e \in Epics : Webhook(e)
           \/ Initialize
    PROVE  /\ UNCHANGED <<cache, emitted>>
           /\ \A c \in Calls : \/ call'[c] = call[c]
                               \/ call'[c].at \in {"idle", "milestone", "epic"}
<1>1. UNCHANGED <<cache, emitted>>
  BY WebhookFrame DEF Begins, OnFeatureDone, SweepEpic, Reopen, Finish, Initialize, history
<1>2. ASSUME NEW c \in Calls, Begins(c)
      PROVE  \A d \in Calls : call'[d] = call[d] \/ call'[d].at \in {"idle", "milestone", "epic"}
  BY <1>2, BeginsFacts DEF Stays
<1>3. ASSUME ~\E c \in Calls : Begins(c) PROVE call' = call
  BY <1>3, WebhookFrame DEF Reopen, Finish, Initialize
<1> QED BY <1>1, <1>2, <1>3

(* A lone writer empties the file. *)
LEMMA LoneOpen ==
    ASSUME KeysFit, ~Crossing, NEW c \in Calls, Open(c)
    PROVE  file' = {Torn}
<1>1. \A d \in Calls : call[d].at # "writing"
  BY Alone DEF Open, WritePlaces
<1>2. \A s \in Syncs : sync[s].at # "writing"
  BY Alone DEF Open, WritePlaces
<1> QED BY <1>1, <1>2 DEF Open, Emptied, Written

(* Nothing comes into the file but a text that is being written, or half of one. *)
LEMMA WriteFacts ==
    ASSUME NEW text
    PROVE  /\ Emptied(text) \subseteq file \cup Written \cup {text, Torn}
           /\ Filled(text) \subseteq file \cup {text}
           /\ \A t \in Written : \/ \E c \in Calls : call[c].at = "writing" /\ t = call[c].text
                                 \/ \E s \in Syncs : sync[s].at = "writing" /\ t = sync[s].text
<1>1. \A t \in Written : \/ \E c \in Calls : call[c].at = "writing" /\ t = call[c].text
                         \/ \E s \in Syncs : sync[s].at = "writing" /\ t = sync[s].text
  BY DEF Written
<1>2. Emptied(text) \subseteq file \cup Written \cup {text, Torn} /\ Filled(text) \subseteq file \cup {text}
  BY DEF Emptied, Filled
<1> QED BY <1>1, <1>2

(* What the steps of another writer do. *)
LEMMA SyncFacts ==
    ASSUME TypeOK, NEW s \in Syncs, SyncSteps(s)
    PROVE  /\ UNCHANGED <<call, mdone, emitted>> /\ \A r \in Syncs : r # s => sync'[r] = sync[r]
           /\ \/ SyncBegins(s)
              \/ sync[s].at # "idle"
           /\ SyncBegins(s) => /\ UNCHANGED <<pstatus, file>> /\ pstatus # "torn"
                               /\ sync'[s].at = "land" /\ sync'[s].held = pstatus
                               /\ sync'[s].text = [status |-> pstatus, mdone |-> mdone]
           /\ SyncOpens(s) => /\ pstatus' = pstatus /\ Writing(sync[s]) /\ Writing(sync'[s])
                              /\ sync'[s].held = sync[s].held /\ sync'[s].text = sync[s].text
                              /\ file' \subseteq file \cup Written \cup {sync[s].text, Torn}
           /\ SyncLands(s) \/ SyncFails(s) =>
                /\ pstatus' = pstatus /\ Writing(sync[s]) /\ sync'[s].at \in {"idle", "cache"}
                /\ sync'[s].at # "idle" => sync'[s].held = sync[s].held
                /\ file' \subseteq file \cup {sync[s].text}
           /\ SyncCached(s) => /\ file' = file /\ sync'[s].at = "idle" /\ pstatus' = sync[s].held
                               /\ pstatus' # "torn"
<1>1. sync \in [Syncs -> [at : {"idle", "land", "writing", "cache"},
                          held : {"active", "completed"}, text : Texts]]
  BY DEF TypeOK
<1>2. /\ UNCHANGED <<call, mdone, emitted>> /\ \A r \in Syncs : r # s => sync'[r] = sync[r]
      /\ SyncBegins(s) \/ sync[s].at # "idle"
  BY <1>1 DEF SyncSteps, SyncBegins, SyncOpens, SyncLands, SyncFails, SyncCached, history
<1>3. SyncBegins(s) => /\ UNCHANGED <<pstatus, file>> /\ pstatus # "torn"
                       /\ sync'[s].at = "land" /\ sync'[s].held = pstatus
                       /\ sync'[s].text = [status |-> pstatus, mdone |-> mdone]
  BY <1>1 DEF SyncBegins
<1>4. SyncOpens(s) => /\ pstatus' = pstatus /\ Writing(sync[s]) /\ Writing(sync'[s])
                      /\ sync'[s].held = sync[s].held /\ sync'[s].text = sync[s].text
                      /\ file' \subseteq file \cup Written \cup {sync[s].text, Torn}
  BY <1>1, WriteFacts DEF SyncOpens, Writing
<1>5. SyncLands(s) \/ SyncFails(s) =>
                /\ pstatus' = pstatus /\ Writing(sync[s]) /\ sync'[s].at \in {"idle", "cache"}
                /\ sync'[s].at # "idle" => sync'[s].held = sync[s].held
                /\ file' \subseteq file \cup {sync[s].text}
  BY <1>1, WriteFacts DEF SyncLands, SyncFails, Writing, IdleSync
<1>6. SyncCached(s) => /\ file' = file /\ sync'[s].at = "idle" /\ pstatus' = sync[s].held
                       /\ pstatus' # "torn"
  BY <1>1 DEF SyncCached, IdleSync
<1> QED BY <1>2, <1>3, <1>4, <1>5, <1>6

(* Only a crash makes the project unreadable, and then nobody begins to write it. *)
LEMMA UnreadStep ==
    ASSUME TypeOK, KeysFit, Unread, Acts
    PROVE  Unread'
<1> USE DEF Unread, WritePlaces, Moved, Left, Stays
<1>1. ASSUME NEW c \in Calls, Step(c) PROVE Unread'
  <2>1. CASE EpicRead(c) \/ NothingToMerge(c) \/ PullRequestReady(c) \/ PullRequestFails(c)
             \/ EpicCompleted(c) \/ EpicInReview(c) \/ EpicBlocked(c)
    BY <2>1, EpicStepFrame DEF cache
  <2>2. CASE MilestoneLook(c) \/ ProjectDecide(c)
    BY <2>2 DEF MilestoneLook, ProjectDecide, cache
  <2>3. CASE MilestoneDecide(c) \/ Save(c) \/ Open(c) \/ Land(c)
    BY <2>3 DEF MilestoneDecide, Save, Open, Land, cache
  <2>4. CASE Cached(c)
    <3>1. pstatus' # "torn"
      BY <2>4, CallTypes DEF Cached, Statuses
    <3> QED BY <3>1
  <2>5. CASE ProjectReport(c) \/ ProjectUnreadable(c) \/ WriteFails(c)
    <3>1. UNCHANGED <<pstatus, sync>> /\ Left(c)
      BY <2>5, ProjectStepFacts DEF ProjectReport, ProjectUnreadable, WriteFails, cache
    <3> QED BY <3>1
  <2> QED BY <1>1, <2>1, <2>2, <2>3, <2>4, <2>5 DEF Step
<1>2. ASSUME NEW s \in Syncs, SyncSteps(s) PROVE Unread'
  BY <1>2, SyncFacts DEF SyncSteps
<1>3. CASE Crash
  BY <1>3 DEF Crash, IdleCall, IdleSync
<1>4. CASE \/ \E c \in Calls : Begins(c)
           \/ \E x \in Items : Reopen(x) \/ \E n \in 1..2 : Finish(x, n)
           \/ \E e \in Epics : Webhook(e)
           \/ Initialize
  BY <1>4, ElsewhereFrame DEF cache
<1> QED BY <1>1, <1>2, <1>3, <1>4 DEF Acts, Elsewhere

(* A milestone is in the cache and in the file before it is announced, and stays there. *)
LEMMA MilestonesStep ==
    ASSUME TypeOK, KeysFit, Unread, ~Crossing, MilestonesStand, MilestonesFollow, Acts
    PROVE  MilestonesStand' /\ MilestonesFollow'
<1> USE KeysAssumption DEF MilestonesStand, MilestonesFollow, WritePlaces, Lists
<1>1. ASSUME NEW c \in Calls, Step(c) PROVE MilestonesStand' /\ MilestonesFollow'
  <2> USE DEF Moved, Left, Stays
  <2>1. CASE EpicRead(c) \/ NothingToMerge(c) \/ PullRequestReady(c) \/ PullRequestFails(c)
             \/ EpicCompleted(c) \/ EpicInReview(c) \/ EpicBlocked(c)
    BY <2>1, EpicStepFrame DEF cache, Writing
  <2>2. CASE MilestoneLook(c)
    <3>1. /\ UNCHANGED <<emitted, file, sync, mdone, pstatus>> /\ Stays(c) /\ pstatus # "torn"
          /\ \/ call'[c].at \in {"idle", "milestone"}
             \/ /\ call'[c].at = "features" /\ call'[c].key = call[c].key /\ call[c].key \notin mdone
      BY <2>2, ProjectStepFacts DEF MilestoneLook, cache, history
    <3>2. MilestonesStand'
      BY <3>1 DEF Writing
    <3>3. MilestonesFollow'
      BY <3>1 DEF Writing
    <3> QED BY <3>2, <3>3
  <2>3. CASE MilestoneDecide(c)
    <3>1. /\ UNCHANGED <<emitted, file, sync, pstatus>> /\ Stays(c) /\ mdone \subseteq mdone'
          /\ \/ call'[c].at \in {"idle", "milestone"}
             \/ /\ call[c].at = "features" /\ call'[c].at = "save"
                /\ call'[c].key = call[c].key /\ call[c].key \in mdone'
      BY <2>3, ProjectStepFacts DEF MilestoneDecide, history
    <3>2. MilestonesStand'
      BY <3>1 DEF Writing
    <3>3. MilestonesFollow'
      BY <3>1 DEF Writing
    <3> QED BY <3>2, <3>3
  <2>4. CASE Save(c)
    <3>1. /\ UNCHANGED <<emitted, file, sync, mdone, pstatus>> /\ Stays(c) /\ pstatus # "torn"
          /\ call[c].at = "save" /\ call'[c].at = "land" /\ call'[c].key = call[c].key
          /\ call'[c].text.mdone = mdone
      BY <2>4, ProjectStepFacts DEF Save, history, cache, Unread
    <3>2. MilestonesStand'
      BY <3>1 DEF Writing
    <3>3. MilestonesFollow'
      BY <3>1 DEF Writing
    <3> QED BY <3>2, <3>3
  <2>5. CASE Open(c)
    <3>1. \A d \in Calls : d # c => call[d].at \notin WritePlaces
      BY <2>5, Alone DEF Open
    <3>2. /\ UNCHANGED <<emitted, sync, mdone, pstatus>> /\ Stays(c) /\ file' = {Torn}
          /\ call[c].at = "land" /\ call'[c].at = "writing" /\ call'[c].key = call[c].key
          /\ call'[c].text = call[c].text
      BY <2>5, ProjectStepFacts, LoneOpen DEF Open, history
    <3>3. MilestonesStand'
      BY <3>2 DEF Writing
    <3>4. MilestonesFollow'
      BY <3>1, <3>2 DEF Writing
    <3> QED BY <3>3, <3>4
  <2>6. CASE Land(c)
    <3>1. \A d \in Calls : d # c => call[d].at \notin WritePlaces
      BY <2>6, Alone DEF Land
    <3>2. /\ UNCHANGED <<emitted, sync, mdone, pstatus>> /\ Stays(c)
          /\ file' \subseteq file \cup {call[c].text} /\ Writing(call[c])
          /\ call[c].at = "writing" /\ call'[c].at = "cache" /\ call'[c].key = call[c].key
      BY <2>6, ProjectStepFacts, WriteFacts DEF Land, history, Writing
    <3>3. MilestonesStand'
      BY <3>2 DEF Writing
    <3>4. MilestonesFollow'
      BY <3>1, <3>2 DEF Writing
    <3> QED BY <3>3, <3>4
  <2>7. CASE Cached(c)
    <3>1. /\ \A d \in Calls : d # c => call[d].at \notin WritePlaces
          /\ \A s \in Syncs : sync[s].at = "idle"
      BY <2>7, Alone DEF Cached
    <3>2. /\ UNCHANGED <<file, sync, mdone>> /\ Stays(c) /\ call[c].at = "cache" /\ pstatus # "torn"
          /\ call'[c].at \in {"idle", "milestone", "project", "report"}
          /\ emitted' = emitted \/ emitted' = emitted \cup {call[c].key}
      BY <2>7, ProjectStepFacts DEF Cached, Emit, Unread
    <3>3. \A m \in Milestones \cap emitted' : m \in mdone /\ \A t \in file : Lists(t, m)
      BY <3>2
    <3>4. \A d \in Calls : call'[d].at \notin WritePlaces
      BY <3>1, <3>2
    <3>5. MilestonesStand'
      BY <3>1, <3>2, <3>3, <3>4 DEF Writing
    <3>6. MilestonesFollow'
      BY <3>4 DEF Writing
    <3> QED BY <3>5, <3>6
  <2>8. CASE ProjectDecide(c)
    <3>1. /\ UNCHANGED <<emitted, cache>> /\ Stays(c)
          /\ \/ call'[c].at \in {"idle", "milestone"}
             \/ call'[c].at = "save" /\ call'[c].key = Project
      BY <2>8, ProjectStepFacts DEF ProjectDecide, history, KeysFit
    <3> QED BY <3>1 DEF cache, Writing
  <2>9. CASE ProjectReport(c) \/ ProjectUnreadable(c)
    <3>1. /\ UNCHANGED cache /\ Stays(c) /\ call'[c].at \in {"idle", "milestone"}
          /\ emitted' \subseteq emitted \cup {Project}
      BY <2>9, ProjectStepFacts DEF ProjectReport, ProjectUnreadable, Emit, history
    <3> QED BY <3>1 DEF cache, Writing
  <2>10. CASE WriteFails(c)
    <3>1. /\ UNCHANGED <<emitted, sync, mdone, pstatus>> /\ Stays(c) /\ call'[c].at \in {"idle", "milestone"}
          /\ \/ file' = file
             \/ file' = file \cup {call[c].text} /\ call[c].at = "writing"
      BY <2>10, ProjectStepFacts DEF WriteFails
    <3>2. MilestonesStand'
      BY <3>1 DEF Writing
    <3>3. \A d \in Calls : call[c].at = "writing" => call'[d].at \notin WritePlaces
      BY <3>1, Alone
    <3>4. MilestonesFollow'
      BY <3>1, <3>3 DEF Writing
    <3> QED BY <3>2, <3>4
  <2> QED BY <1>1, <2>1, <2>2, <2>3, <2>4, <2>5, <2>6, <2>7, <2>8, <2>9, <2>10 DEF Step
<1>2. ASSUME NEW s \in Syncs, SyncSteps(s) PROVE MilestonesStand' /\ MilestonesFollow'
  <2>1. CASE SyncBegins(s)
    BY <2>1, <1>2, SyncFacts DEF Writing
  <2>2. CASE ~SyncBegins(s)
    <3>1. \A d \in Calls : call[d].at \notin WritePlaces
      BY <1>2, <2>2, SyncFacts, SyncAlone
    <3>2. UNCHANGED <<call, mdone, emitted>>
      BY <1>2, SyncFacts
    <3>3. MilestonesFollow'
      BY <3>1, <3>2 DEF Writing
    <3>4. \A m \in Milestones \cap emitted, t \in Written : Lists(t, m)
      BY WriteFacts DEF Writing
    <3>5. CASE SyncOpens(s)
      BY <1>2, <3>2, <3>4, <3>5, SyncFacts, <3>3
    <3>6. CASE SyncLands(s) \/ SyncFails(s)
      BY <1>2, <3>2, <3>6, SyncFacts, <3>3 DEF Writing
    <3>7. CASE SyncCached(s)
      BY <1>2, <3>2, <3>7, SyncFacts, <3>3 DEF Unread, Writing
    <3> QED BY <1>2, <2>2, <3>5, <3>6, <3>7 DEF SyncSteps
  <2> QED BY <2>1, <2>2
<1>3. CASE Crash
  <2>1. PICK text \in file \cup Written :
            file' = {text} /\ mdone' = text.mdone /\ pstatus' = text.status
    BY <1>3 DEF Crash
  <2>2. \A m \in Milestones \cap emitted : Lists(text, m)
    BY WriteFacts DEF Writing
  <2>3. /\ emitted' = emitted /\ \A c \in Calls : call'[c].at = "idle"
        /\ \A s \in Syncs : sync'[s].at = "idle"
    BY <1>3 DEF Crash, IdleCall, IdleSync
  <2>4. MilestonesFollow'
    BY <2>3 DEF Writing
  <2>5. \A m \in Milestones \cap emitted : text.status # "torn" => m \in text.mdone
    BY <2>2 DEF Torn
  <2>6. MilestonesStand'
    BY <2>1, <2>2, <2>3, <2>5 DEF Writing
  <2> QED BY <2>4, <2>6
<1>4. CASE \/ \E c \in Calls : Begins(c)
           \/ \E x \in Items : Reopen(x) \/ \E n \in 1..2 : Finish(x, n)
           \/ \E e \in Epics : Webhook(e)
           \/ Initialize
  BY <1>4, ElsewhereFrame DEF cache, Writing
<1> QED BY <1>1, <1>2, <1>3, <1>4 DEF Acts, Elsewhere

(* The project's completion on its way, and after it has been announced. *)
LEMMA ProjectStep ==
    ASSUME TypeOK, KeysFit, ~Crossing, ClaimedOnce, ProjectStands, ProjectFollows, Acts
    PROVE  ProjectStands' /\ ProjectFollows'
<1> USE KeysAssumption DEF ProjectStands, ProjectFollows, ProjectKept, Announcing, WritePlaces, ClaimPlaces, Writing
<1>1. KeysFit'
  BY KeysFitStep
<1>2. \A c \in Calls :
        call'[c].at \in {"completing", "reviewing", "features"} => call'[c].key # Project
  BY <1>1 DEF KeysFit, EpicPlaces
<1>3. ASSUME NEW c \in Calls, Step(c) PROVE ProjectStands' /\ ProjectFollows'
  <2> USE DEF Moved, Left, Stays
  <2>1. CASE EpicRead(c) \/ NothingToMerge(c) \/ PullRequestReady(c) \/ PullRequestFails(c)
             \/ EpicCompleted(c) \/ EpicInReview(c) \/ EpicBlocked(c)
    <3>1. /\ UNCHANGED <<pstatus, file, sync>> /\ Stays(c)
          /\ call'[c].at \in {"idle", "milestone", "probing", "completing", "reviewing", "blocking"}
          /\ Project \in emitted' => Project \in emitted
      BY <2>1, EpicStepFrame DEF cache
    <3> QED BY <1>2, <3>1
  <2>2. CASE MilestoneLook(c)
    <3>1. /\ UNCHANGED <<pstatus, file, sync, emitted>> /\ Stays(c)
          /\ \/ call'[c].at \in {"idle", "milestone"}
             \/ /\ call'[c].at = "features" /\ call'[c].held = pstatus
                /\ pstatus \in {"active", "completed"}
      BY <2>2, ProjectStepFacts DEF MilestoneLook, cache, history, TypeOK
    <3>2. ProjectKept => ProjectKept'
      BY <3>1
    <3>3. ProjectStands'
      BY <1>2, <3>1, <3>2
    <3>4. ProjectFollows'
      BY <1>2, <3>1
    <3> QED BY <3>3, <3>4
  <2>3. CASE MilestoneDecide(c)
    <3>1. /\ UNCHANGED <<pstatus, file, sync, emitted>> /\ Stays(c)
          /\ \/ call'[c].at \in {"idle", "milestone"}
             \/ /\ call[c].at = "features" /\ call'[c].at = "save" /\ call[c].key # Project
                /\ call'[c].held = call[c].held /\ call'[c].key = call[c].key
      BY <2>3, ProjectStepFacts DEF MilestoneDecide, history, KeysFit
    <3> QED BY <3>1
  <2>4. CASE Save(c)
    <3>1. /\ UNCHANGED <<pstatus, file, sync, emitted>> /\ Stays(c)
          /\ call[c].at = "save" /\ call'[c].at = "land" /\ call'[c].key = call[c].key
          /\ call'[c].held = call[c].held /\ call'[c].text.status = call[c].held
      BY <2>4, ProjectStepFacts DEF Save, history, cache
    <3> QED BY <3>1
  <2>5. CASE Open(c)
    <3>1. \A d \in Calls : d # c => call[d].at \notin WritePlaces
      BY <2>5, Alone DEF Open
    <3>2. /\ UNCHANGED <<pstatus, sync, emitted>> /\ Stays(c) /\ file' = {Torn}
          /\ call[c].at = "land" /\ call'[c].at = "writing" /\ call'[c].key = call[c].key
          /\ call'[c].held = call[c].held /\ call'[c].text = call[c].text
      BY <2>5, ProjectStepFacts, LoneOpen DEF Open, history
    <3>3. ProjectStands'
      BY <3>2 DEF Torn
    <3>4. ProjectFollows'
      BY <3>1, <3>2 DEF Torn
    <3> QED BY <3>3, <3>4
  <2>6. CASE Land(c)
    <3>1. \A d \in Calls : d # c => call[d].at \notin WritePlaces
      BY <2>6, Alone DEF Land
    <3>2. /\ UNCHANGED <<pstatus, sync, emitted>> /\ Stays(c)
          /\ file' \subseteq file \cup {call[c].text}
          /\ call[c].at = "writing" /\ call'[c].at = "cache" /\ call'[c].key = call[c].key
          /\ call'[c].held = call[c].held
      BY <2>6, ProjectStepFacts, WriteFacts DEF Land, history
    <3>3. ProjectStands'
      BY <3>2
    <3>4. ProjectFollows'
      BY <3>1, <3>2
    <3> QED BY <3>3, <3>4
  <2>7. CASE Cached(c)
    <3>1. /\ \A d \in Calls : d # c => call[d].at \notin WritePlaces
          /\ \A s \in Syncs : sync[s].at = "idle"
      BY <2>7, Alone DEF Cached
    <3>2. /\ UNCHANGED <<file, sync>> /\ Stays(c) /\ call[c].at = "cache"
          /\ pstatus' = call[c].held
          /\ \/ /\ call[c].key = Project /\ call'[c].key = Project /\ call'[c].at = "report"
                /\ emitted' = emitted
             \/ /\ call[c].key # Project /\ call'[c].at \in {"idle", "milestone", "project"}
                /\ emitted' = emitted \cup {call[c].key}
      BY <2>7, ProjectStepFacts DEF Cached, Emit
    <3>3. \A d \in Calls : call'[d].at \notin WritePlaces
      BY <3>1, <3>2
    <3>4. ProjectFollows'
      BY <3>3
    <3>5. CASE call[c].key = Project
      BY <3>1, <3>2, <3>3, <3>5
    <3>6. CASE call[c].key # Project
      BY <3>1, <3>2, <3>3, <3>6
    <3> QED BY <3>4, <3>5, <3>6
  <2>8. CASE ProjectDecide(c)
    <3>1. /\ UNCHANGED <<pstatus, file, sync, emitted>> /\ Stays(c)
          /\ \/ call'[c].at \in {"idle", "milestone"}
             \/ /\ call[c].at = "project" /\ call'[c].at = "save" /\ pstatus = "active"
                /\ call'[c].held = "completed"
      BY <2>8, ProjectStepFacts DEF ProjectDecide, cache, history, KeysFit, TypeOK
    <3> QED BY <3>1
  <2>9. CASE ProjectReport(c)
    <3>1. /\ UNCHANGED <<pstatus, file, sync>> /\ Stays(c) /\ call'[c].at \in {"idle", "milestone"}
          /\ call[c].key = Project /\ call[c].at = "report"
      BY <2>9, ProjectStepFacts DEF ProjectReport, cache, KeysFit
    <3>2. \A d \in Calls : d # c /\ call[d].key = Project => call[d].at \notin ClaimPlaces
      BY <3>1 DEF ClaimedOnce
    <3> QED BY <3>1, <3>2
  <2>10. CASE WriteFails(c)
    <3>1. /\ UNCHANGED <<pstatus, sync, emitted>> /\ Stays(c) /\ call'[c].at \in {"idle", "milestone"}
          /\ \/ file' = file
             \/ file' = file \cup {call[c].text} /\ call[c].at = "writing"
      BY <2>10, ProjectStepFacts DEF WriteFails
    <3>2. \A d \in Calls : call[c].at = "writing" => call'[d].at \notin WritePlaces
      BY <3>1, Alone
    <3>3. ProjectStands'
      BY <3>1
    <3>4. ProjectFollows'
      BY <3>1, <3>2
    <3> QED BY <3>3, <3>4
  <2>11. CASE ProjectUnreadable(c)
    <3>1. UNCHANGED <<pstatus, file, sync, emitted>> /\ Stays(c) /\ call'[c].at \in {"idle", "milestone"}
      BY <2>11, ProjectStepFacts DEF ProjectUnreadable, cache, history
    <3> QED BY <3>1
  <2> QED BY <1>3, <2>1, <2>2, <2>3, <2>4, <2>6, <2>7, <2>8, <2>9, <2>10, <2>5, <2>11 DEF Step
<1>4. ASSUME NEW s \in Syncs, SyncSteps(s) PROVE ProjectStands' /\ ProjectFollows'
  <2>1. CASE SyncBegins(s)
    <3>1. pstatus \in {"active", "completed"}
      BY <1>4, <2>1, SyncFacts DEF TypeOK
    <3>2. /\ UNCHANGED <<call, emitted, pstatus, file>> /\ \A r \in Syncs : r # s => sync'[r] = sync[r]
          /\ sync'[s].held = pstatus /\ sync'[s].text.status = pstatus
      BY <1>4, <2>1, SyncFacts
    <3>3. ProjectKept => ProjectKept'
      BY <3>1, <3>2
    <3> QED BY <3>2, <3>3
  <2>2. CASE ~SyncBegins(s)
    <3>1. \A d \in Calls : call[d].at \notin WritePlaces
      BY <1>4, <2>2, SyncFacts, SyncAlone
    <3>2. UNCHANGED <<call, mdone, emitted>>
      BY <1>4, SyncFacts
    <3>3. ProjectFollows'
      BY <3>1, <3>2
    <3>4. ProjectKept => \A t \in Written \cup {Torn} : t.status # "active"
      BY WriteFacts DEF Torn
    <3>5. ProjectKept => ProjectKept'
      <4>1. CASE SyncOpens(s)
        BY <1>4, <3>2, <3>4, <4>1, SyncFacts
      <4>2. CASE SyncLands(s) \/ SyncFails(s)
        BY <1>4, <3>2, <4>2, SyncFacts
      <4>3. CASE SyncCached(s)
        BY <1>4, <2>2, <3>2, <4>3, SyncFacts
      <4> QED BY <1>4, <2>2, <4>1, <4>2, <4>3 DEF SyncSteps
    <3> QED BY <3>2, <3>3, <3>5
  <2> QED BY <2>1, <2>2
<1>5. CASE Crash
  <2>1. PICK text \in file \cup Written :
            file' = {text} /\ mdone' = text.mdone /\ pstatus' = text.status
    BY <1>5 DEF Crash
  <2>2. ProjectKept => text.status # "active"
    BY WriteFacts
  <2>3. /\ emitted' = emitted /\ \A c \in Calls : call'[c].at = "idle"
        /\ \A s \in Syncs : sync'[s].at = "idle"
    BY <1>5 DEF Crash, IdleCall, IdleSync
  <2>4. ProjectKept => ProjectKept'
    BY <2>1, <2>2, <2>3
  <2> QED BY <2>3, <2>4
<1>6. CASE \/ \E c \in Calls : Begins(c)
           \/ \E x \in Items : Reopen(x) \/ \E n \in 1..2 : Finish(x, n)
           \/ \E e \in Epics : Webhook(e)
           \/ Initialize
  BY <1>6, ElsewhereFrame DEF cache
<1> QED BY <1>3, <1>4, <1>5, <1>6 DEF Acts, Elsewhere

(* Nothing is announced again, as long as no webhook has returned an epic. *)
LEMMA NotTwice ==
    ASSUME KeysFit, EpicsStand, MilestonesStand, ProjectStands, returned = {}, ~twice, Acts
    PROVE  ~twice'
<1>1. ASSUME NEW c \in Calls, Step(c) PROVE ~twice'
  <2>1. CASE EpicCompleted(c) \/ EpicInReview(c)
    <3>1. call[c].key \in Epics /\ call[c].key \notin emitted
      BY <2>1 DEF EpicCompleted, EpicInReview, KeysFit, EpicPlaces, EpicsStand, Standing
    <3> QED BY <2>1, <3>1 DEF EpicCompleted, EpicInReview, Emit
  <2>2. CASE Cached(c)
    <3>1. call[c].key # Project => call[c].key \notin emitted
      BY <2>2 DEF Cached, KeysFit, MilestonesStand, WritePlaces
    <3> QED BY <2>2, <3>1 DEF Cached, Emit
  <2>3. CASE ProjectReport(c)
    <3>1. Project \notin emitted
      BY <2>3 DEF ProjectReport, KeysFit, ProjectStands, Announcing, ClaimPlaces
    <3> QED BY <2>3, <3>1 DEF ProjectReport, Emit
  <2>4. CASE ~(EpicCompleted(c) \/ EpicInReview(c) \/ Cached(c) \/ ProjectReport(c))
    BY <1>1, <2>4 DEF Step, EpicRead, NothingToMerge, PullRequestReady, PullRequestFails, EpicBlocked,
       MilestoneLook, MilestoneDecide, Save, Open, Land, ProjectDecide, WriteFails, ProjectUnreadable,
       history
  <2> QED BY <2>1, <2>2, <2>3, <2>4
<1>2. ASSUME NEW c \in Calls, Begins(c) PROVE ~twice'
  BY <1>2 DEF Begins, OnFeatureDone, SweepEpic, history
<1>3. CASE Elsewhere \/ Crash \/ Initialize
  BY <1>3, ElsewhereFacts DEF Crash, Initialize, history
<1> QED BY <1>1, <1>2, <1>3 DEF Acts

(* What a webhook has returned stays so. *)
LEMMA ReturnedGrows ==
    ASSUME Acts
    PROVE  returned \subseteq returned'
<1>1. ASSUME NEW c \in Calls, Step(c) PROVE returned' = returned
  BY <1>1 DEF Step, EpicRead, NothingToMerge, PullRequestReady, PullRequestFails, EpicCompleted,
     EpicInReview, EpicBlocked, MilestoneLook, MilestoneDecide, Save, Open, Land, Cached,
     ProjectDecide, ProjectReport, WriteFails, ProjectUnreadable, history
<1>2. ASSUME NEW c \in Calls, Begins(c) PROVE returned' = returned
  BY <1>2 DEF Begins, OnFeatureDone, SweepEpic, history
<1> QED BY <1>1, <1>2, ElsewhereFacts DEF Acts, Crash, Initialize, history

--------------------------------------------------------------------------------
(* The theorems *)

(* The invariant holds at first. *)
LEMMA Beginning == Init => IInv
<1> SUFFICES ASSUME Init PROVE IInv
  OBVIOUS
<1>1. NoText \in Texts /\ IdleCall \in CallStates
  BY DEF NoText, Texts, IdleCall, CallStates
<1>2. TypeOK
  <2>1. mishaps \in 0..MaxMishaps
    BY BoundAssumption DEF Init
  <2>2. call \in [Calls -> CallStates] /\ owed \in [Items -> 0..2]
    BY <1>1 DEF Init
  <2>3. sync \in [Syncs -> [at : {"idle", "land", "writing", "cache"}, held : {"active", "completed"}, text : Texts]]
    BY <1>1 DEF Init, IdleSync
  <2>4. /\ board \in [Items -> {"open", "blocked", "review", "done"}]
        /\ branch \in [Epics -> {"none", "epic", "other"}]
        /\ pr \in [Epics -> {"none", "open", "closed", "recovering",
                             "merged", "inspecting", "settling", "landing", "landed"}]
    BY DEF Init
  <2>5. /\ claimed = {} /\ ledger = {} /\ emitted = {} /\ broken = {} /\ mdone = {}
        /\ pstatus = "active" /\ file = {NoText} /\ returned = {}
    BY <1>1 DEF Init
  <2>6. up \in BOOLEAN /\ disturbed \in BOOLEAN /\ twice \in BOOLEAN
    BY Zenon DEF Init
  <2> QED BY <1>1, <2>1, <2>2, <2>3, <2>4, <2>5, <2>6 DEF TypeOK
<1>3. /\ \A c \in Calls : call[c] = IdleCall /\ call[c].at = "idle" /\ call[c].key = None
      /\ \A s \in Syncs : sync[s].at = "idle"
  BY DEF Init, IdleCall, IdleSync
<1>4. ~Crossing
  BY <1>3 DEF Crossing, Several, Looking, Writers
<1>5. /\ up /\ claimed = {} /\ ledger = {} /\ emitted = {} /\ twice = FALSE /\ pstatus = "active"
  BY DEF Init
<1>6. KeysFit /\ Down /\ Unread /\ Honest
  BY <1>3, <1>5 DEF KeysFit, Down, Unread, Honest, EpicPlaces
<1>7. ClaimedOnce /\ EpicsStand /\ MilestonesStand
  BY <1>3, <1>5 DEF ClaimedOnce, EpicsStand, Standing, MilestonesStand, Announcing, ClaimPlaces, LookPlaces
<1>8. MilestonesFollow /\ ProjectStands /\ ProjectFollows
  BY <1>3, <1>5 DEF MilestonesFollow, ProjectStands, ProjectFollows, Writing
<1> QED BY <1>2, <1>4, <1>5, <1>6, <1>7, <1>8 DEF IInv, Orderly

(* And every step keeps it. *)
LEMMA NextKeeps == IInv /\ [Next]_vars => IInv'
<1>1. ASSUME IInv, Next PROVE IInv'
  <2>1. Acts /\ disturbed' = (disturbed \/ Crossing' \/ LandsEarly \/ ReopensEpic)
    BY <1>1, ActCases DEF Next
  <2>2. TypeOK /\ KeysFit /\ Down /\ Unread /\ Honest
    BY <1>1 DEF IInv
  <2>3. disturbed' \in BOOLEAN
    BY <2>1, <2>2 DEF TypeOK
  <2>4. TypeOK'
    BY <2>1, <2>2, <2>3, CallStepTypes, OtherStepTypes DEF Acts
  <2>5. KeysFit' /\ Down' /\ Unread' /\ Honest'
    BY <2>1, <2>2, KeysFitStep, DownStep, UnreadStep, HonestStep
  <2>6. ASSUME ~disturbed' PROVE Orderly'
    <3>1. ~disturbed /\ ~Crossing' /\ ~LandsEarly /\ ~ReopensEpic
      BY <2>1, <2>6
    <3>2. Orderly
      BY <1>1, <3>1 DEF IInv
    <3>3. ClaimedOnce' /\ EpicsStand'
      BY <2>1, <2>2, <3>1, <3>2, ClaimedOnceStep, EpicsStandStep DEF Orderly
    <3>4. MilestonesStand' /\ MilestonesFollow'
      BY <2>1, <2>2, <3>2, MilestonesStep DEF Orderly
    <3>5. ProjectStands' /\ ProjectFollows'
      BY <2>1, <2>2, <3>2, ProjectStep DEF Orderly
    <3>6. returned \subseteq returned'
      BY <2>1, ReturnedGrows
    <3>7. returned' = {} => ~twice'
      BY <2>1, <2>2, <3>2, <3>6, NotTwice DEF Orderly
    <3> QED BY <3>1, <3>3, <3>4, <3>5, <3>7 DEF Orderly
  <2> QED BY <2>4, <2>5, <2>6 DEF IInv
<1>2. ASSUME IInv, UNCHANGED vars PROVE IInv'
  <2>1. UNCHANGED <<board, branch, pr, up, owed, call, claimed, ledger, mdone, pstatus, file, sync,
                    mishaps, emitted, twice, broken, returned, disturbed>>
    BY <1>2 DEF vars, books, cache, history
  <2>2. TypeOK' /\ KeysFit' /\ Down' /\ Unread' /\ Honest'
    BY <1>2, <2>1 DEF IInv, TypeOK, KeysFit, Down, Unread, Honest, Honoured, Announcing
  <2>3. Orderly => ~Crossing' /\ (returned' = {} => ~twice') /\ ClaimedOnce' /\ EpicsStand'
    BY <2>1 DEF Orderly, Crossing, Several, Looking, Writers, ClaimedOnce, EpicsStand, Standing, Announcing
  <2>4. Orderly => MilestonesStand' /\ MilestonesFollow' /\ ProjectStands' /\ ProjectFollows'
    BY <2>1 DEF Orderly, MilestonesStand, MilestonesFollow, ProjectStands, ProjectFollows, ProjectKept,
       Announcing, Writing, Lists
  <2> QED BY <1>2, <2>1, <2>2, <2>3, <2>4 DEF IInv, Orderly
<1> QED BY <1>1, <1>2

(* So it always holds. *)
LEMMA Inductive == Spec => []IInv
BY Beginning, NextKeeps, PTL DEF Spec

(* Every variable of the detector, of the board and of the books stays in its type. *)
THEOREM TypeCorrect == Spec => []TypeOK
<1>1. IInv => TypeOK
  BY DEF IInv
<1> QED BY <1>1, Inductive, PTL

(* A claimed completion has been announced, is about to be, or its call failed or died: *)
(* onFeatureDone never takes a key and forgets it.                                        *)
THEOREM ClaimsHonoured == Spec => []ClaimIsHonoured
<1>1. IInv => ClaimIsHonoured
  BY DEF IInv, Honest, Honoured, ClaimIsHonoured, Claims, Announcing, ClaimPlaces
<1> QED BY <1>1, Inductive, PTL

(* Nothing is announced twice, over restarts and lost lines of the ledger, unless two calls *)
(* met at a look, two writers at project.json, an epic was opened again, or a webhook has     *)
(* returned one, for a pull request that was closed or changed no source file.                *)
THEOREM RepeatsRace == Spec => []RepeatsNeedARace
<1>1. IInv => RepeatsNeedARace
  BY DEF IInv, Orderly, RepeatsNeedARace
<1> QED BY <1>1, Inductive, PTL

(* An announced epic stays in review, or done once its merge has been handled, unless the *)
(* webhook returned it: for every board, number of calls, writers and restarts.             *)
THEOREM EpicStands == Spec => []AnnouncedEpicStands
<1>1. IInv => AnnouncedEpicStands
  BY DEF IInv, Orderly, EpicsStand, Standing, AnnouncedEpicStands
<1> QED BY <1>1, Inductive, PTL

(* An announced project stays completed in the cache and in whatever project.json may     *)
(* hold, half-written and mixed texts included: what is not completed there is torn.        *)
THEOREM ProjectStays == Spec => []ProjectStaysCompleted
<1>1. IInv => ProjectStaysCompleted
  BY DEF IInv, Orderly, ProjectStands, ProjectKept, ProjectStaysCompleted
<1> QED BY <1>1, Inductive, PTL

================================================================================
