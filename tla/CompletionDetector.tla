-------------------------- MODULE CompletionDetector --------------------------
(***************************************************************************)
(* CompletionDetectorService: how the completion of features is passed on   *)
(* to their epic, to their milestone and to the project, together with what *)
(* it writes: the board, project.json with its cache in ProjectService, and *)
(* the ledger of the completions that it has announced.                     *)
(*                                                                         *)
(* Every event starts a call of onFeatureDone that nobody waits for, so the *)
(* calls interleave at each await.  A completion is claimed in a Set before *)
(* it is written and announced after that; ProjectService and the detector  *)
(* share the cached objects of the project, and its other writers do too.   *)
(* Code between two awaits is one action.                                   *)
(***************************************************************************)
EXTENDS Naturals, FiniteSets

CONSTANTS
    Features,     \* features that are not epics
    Epics,
    Milestones,   \* of one project that is not ongoing, with every phase scaffolded
    Project,      \* the key of the project
    None,
    EpicOf,       \* the epic of a feature, or None
    MilestoneOf,  \* the milestone that a feature or an epic names, or None
    Calls,        \* calls of onFeatureDone past their first await at once
    Syncs,        \* other writers of project.json at once
    MaxMishaps    \* bound: restarts of the server, and items opened again

ASSUME KeysAssumption ==
    /\ None \notin Epics \cup Milestones
    /\ Project \notin Epics \cup Milestones
    /\ Features \cap Epics = {} /\ Epics \cap Milestones = {}
ASSUME CallersAssumption == Calls \cap Syncs = {}
ASSUME OfAssumption ==
    /\ EpicOf \in [Features -> Epics \cup {None}]
    /\ MilestoneOf \in [Features \cup Epics -> Milestones \cup {None}]
ASSUME BoundAssumption == MaxMishaps \in Nat

Items == Features \cup Epics
Keys == Epics \cup Milestones \cup {Project}

VARIABLES
    board,     \* status of each feature and epic
    branch,    \* the branch of each epic: "none", named "epic/..." or "other"
    pr,        \* the epic-to-base pull request, and how far the webhook of its end has got
    up,        \* initialize has loaded the ledger and subscribed
    owed,      \* calls of onFeatureDone at their first await, by feature
    call,      \* the other calls
    claimed,   \* emittedEpics, emittedMilestones, emittedProjects
    ledger,    \* completion-emitted.jsonl as the last restart found it
    mdone,     \* milestones whose object in the cache says completed
    pstatus,   \* status of the project object in the cache
    file,      \* what project.json may hold: writers at once leave either text or a mixture
    sync,      \* _syncPhaseFromFeatureStatus, updatePhaseClaim
    mishaps,
    emitted,   \* history: the completions announced
    twice,     \* history: one has been announced again
    broken,    \* history: claims whose call failed, or died, before it announced
    returned,  \* history: epics whose pull request was closed, or changed no source file
    disturbed  \* history: two calls were at the same place, or an epic was opened again or landed early

cache == <<mdone, pstatus, file, sync>>
books == <<claimed, ledger>>
history == <<emitted, twice, broken, returned>>
vars == <<board, branch, pr, up, owed, call, books, cache, mishaps, history, disturbed>>

Texts == [status : {"active", "completed"}, mdone : SUBSET Milestones]
NoText == [status |-> "active", mdone |-> {}]
Torn == [status |-> "torn", mdone |-> {}]   \* not JSON: cut off, or a mixture of two texts

CallStates == [
    at : {"idle", "epic", "probing", "completing", "reviewing", "blocking",
          "milestone", "features", "save", "land", "writing", "cache", "project", "report"},
    key : Keys \cup {None},             \* the epic, milestone or project it works on
    later : Milestones \cup {None},     \* the milestone it looks at after that
    held : {"active", "completed"},     \* status of the project object it holds
    text : Texts]                       \* what it writes to project.json

IdleCall == [at |-> "idle", key |-> None, later |-> None, held |-> "active", text |-> NoText]
IdleSync == [at |-> "idle", held |-> "active", text |-> NoText]

Init ==
    /\ board = [x \in Items |-> "open"]
    /\ branch \in [Epics -> {"none", "epic", "other"}]
    /\ pr = [e \in Epics |-> "none"]
    /\ up = TRUE
    /\ owed = [x \in Items |-> 0]
    /\ call = [c \in Calls |-> IdleCall]
    /\ claimed = {} /\ ledger = {}
    /\ mdone = {} /\ pstatus = "active" /\ file = {NoText}
    /\ sync = [s \in Syncs |-> IdleSync]
    /\ mishaps = 0
    /\ emitted = {} /\ twice = FALSE /\ broken = {} /\ returned = {} /\ disturbed = FALSE

--------------------------------------------------------------------------------
(* Steps that several handlers share *)

(* Statuses are set through FeatureLoader.update, whose event starts a call for done. *)
SetStatus(x, status, events) ==
    /\ board' = [board EXCEPT ![x] = status]
    /\ owed' = IF up /\ status = "done" /\ board[x] # "done"
               THEN [owed EXCEPT ![x] = IF @ + events > 2 THEN 2 ELSE @ + events] ELSE owed

Emit(k) ==
    /\ emitted' = emitted \cup {k}
    /\ twice' = (twice \/ k \in emitted)

(* The Set takes the key; whether its line reaches the ledger shows at a restart. *)
Claim(k) ==
    /\ claimed' = claimed \cup {k}
    /\ UNCHANGED ledger

(* A call turns to the milestone first, then to later, and passes over those claimed. *)
After(first, later) ==
    IF first \notin claimed \cup {None}
    THEN [IdleCall EXCEPT !.at = "milestone", !.key = first, !.later = later]
    ELSE IF later \notin claimed \cup {None} THEN [IdleCall EXCEPT !.at = "milestone", !.key = later]
    ELSE IdleCall

(* A call has done with its key. *)
Leaves(c) == call' = [call EXCEPT ![c] = After(None, @.later)]

Children(e) == {f \in Features : EpicOf[f] = e}
AllDone(S) == \A x \in S : board[x] = "done"

(* Calls between the look at k in its Set and the claim, or the block that stands for it. *)
Looking(k) == {c \in Calls : call[c].key = k
                 /\ call[c].at \in {"epic", "probing", "blocking", "milestone", "features", "project"}}

(* Whoever holds a copy of the project that it will write, or may write, back. *)
Writers == {c \in Calls : call[c].at \in {"features", "save", "land", "writing", "cache"}}
             \cup {s \in Syncs : sync[s].at # "idle"}

(* The texts that are being written into project.json. *)
Written == {call[c].text : c \in {d \in Calls : call[d].at = "writing"}}
             \cup {sync[s].text : s \in {r \in Syncs : sync[r].at = "writing"}}

(* What it may hold when one more write of text begins, and when that write ends. *)
Emptied(text) == IF Written = {} THEN {Torn} ELSE file \cup Written \cup {text, Torn}
Filled(text) == IF file = {Torn} THEN {text} ELSE file \cup {text}

Several(S) == \E x, y \in S : x # y
Crossing == Several(Writers) \/ \E k \in Keys : Several(Looking(k))

--------------------------------------------------------------------------------
(* onFeatureDone, retryEpicCompletion and checkEpicCompletion *)

LookAtEpic(e, later) ==
    IF e = None \/ e \in claimed THEN After(None, later)
    ELSE [IdleCall EXCEPT !.at = "epic", !.key = e, !.later = later]

OnFeatureDone(c, x) ==
    /\ owed[x] > 0 /\ call[c].at = "idle"
    /\ owed' = [owed EXCEPT ![x] = @ - 1]
    /\ call' = [call EXCEPT ![c] = LookAtEpic(IF x \in Features THEN EpicOf[x] ELSE None,
                                              MilestoneOf[x])]
    /\ UNCHANGED <<board, branch, pr, up, books, cache, mishaps, history>>

(* A mutant: an epic in review is finished again. *)
EpicReadInReview(c) ==
    LET e == call[c].key
        finished == AllDone(Children(e)) /\ board[e] # "done" IN
    /\ call[c].at = "epic"
    /\ \/ /\ finished /\ branch[e] # "none"
          /\ call' = [call EXCEPT ![c].at = "probing"]
          /\ UNCHANGED books
       \/ /\ finished /\ branch[e] = "none"
          /\ Claim(e)
          /\ call' = [call EXCEPT ![c].at = "completing"]
       \/ /\ ~finished
          /\ Leaves(c)
          /\ UNCHANGED books
    /\ UNCHANGED <<board, branch, pr, up, owed, cache, mishaps, history>>

(* The board has been read: is the epic finished, and does it have a branch? *)
EpicRead(c) ==
    LET e == call[c].key
        finished == AllDone(Children(e)) /\ board[e] \notin {"done", "review"} IN
    /\ call[c].at = "epic"
    /\ \/ /\ finished /\ branch[e] # "none"
          /\ call' = [call EXCEPT ![c].at = "probing"]
          /\ UNCHANGED books
       \/ /\ finished /\ branch[e] = "none"
          /\ Claim(e)
          /\ call' = [call EXCEPT ![c].at = "completing"]
       \/ /\ ~finished
          /\ Leaves(c)
          /\ UNCHANGED books
    /\ UNCHANGED <<board, branch, pr, up, owed, cache, mishaps, history>>

(* The branch is not on the remote, or not ahead of the base: completeEpicDirectly. *)
NothingToMerge(c) ==
    /\ call[c].at = "probing"
    /\ Claim(call[c].key)
    /\ call' = [call EXCEPT ![c].at = "completing"]
    /\ UNCHANGED <<board, branch, pr, up, owed, cache, mishaps, history>>

(* createEpicToBasePR has made a pull request, or found the open one, and has tried *)
(* to merge it (githubMergeService.mergePR).                                         *)
PullRequestReady(c) ==
    LET e == call[c].key IN
    /\ call[c].at = "probing" /\ pr[e] \in {"none", "open"}
    /\ \E state \in {"open", "merged"} : pr' = [pr EXCEPT ![e] = state]
    /\ Claim(e)
    /\ call' = [call EXCEPT ![c].at = "reviewing"]
    /\ UNCHANGED <<board, branch, up, owed, cache, mishaps, history>>

(* A mutant: the epic is claimed although it has no pull request. *)
PullRequestFailsClaimed(c) ==
    /\ call[c].at = "probing"
    /\ Claim(call[c].key)
    /\ call' = [call EXCEPT ![c].at = "blocking"]
    /\ UNCHANGED <<board, branch, pr, up, owed, cache, mishaps, history>>

PullRequestFails(c) ==
    /\ call[c].at = "probing"
    /\ call' = [call EXCEPT ![c].at = "blocking"]
    /\ UNCHANGED <<board, branch, pr, up, owed, books, cache, mishaps, history>>

EpicCompleted(c) ==
    LET e == call[c].key IN
    /\ call[c].at = "completing"
    /\ SetStatus(e, "done", 1)
    /\ Emit(e)
    /\ call' = [call EXCEPT ![c] = After(MilestoneOf[e], @.later)]
    /\ UNCHANGED <<branch, pr, up, books, cache, mishaps, broken, returned>>

EpicInReview(c) ==
    /\ call[c].at = "reviewing"
    /\ SetStatus(call[c].key, "review", 1)
    /\ Emit(call[c].key)
    /\ Leaves(c)
    /\ UNCHANGED <<branch, pr, up, books, cache, mishaps, broken, returned>>

EpicBlocked(c) ==
    /\ call[c].at = "blocking"
    /\ SetStatus(call[c].key, "blocked", 1)
    /\ Leaves(c)
    /\ UNCHANGED <<branch, pr, up, books, cache, mishaps, history>>

--------------------------------------------------------------------------------
(* checkMilestoneCompletion and checkProjectCompletion *)

(* A mutant: the milestone is not asked whether it is completed. *)
MilestoneLookAnyway(c) ==
    /\ call[c].at = "milestone" /\ pstatus # "torn"
    /\ call' = [call EXCEPT ![c].at = "features", ![c].held = pstatus]
    /\ UNCHANGED <<board, branch, pr, up, owed, books, cache, mishaps, history>>

MilestoneLook(c) ==
    /\ call[c].at = "milestone" /\ pstatus # "torn"
    /\ \/ /\ call[c].key \in mdone
          /\ Leaves(c)
       \/ /\ call[c].key \notin mdone
          /\ call' = [call EXCEPT ![c].at = "features", ![c].held = pstatus]
    /\ UNCHANGED <<board, branch, pr, up, owed, books, cache, mishaps, history>>

MilestoneDecide(c) ==
    LET m == call[c].key IN
    /\ call[c].at = "features"
    /\ \/ /\ AllDone({x \in Items : MilestoneOf[x] = m})
          /\ Claim(m)
          /\ mdone' = mdone \cup {m}
          /\ call' = [call EXCEPT ![c].at = "save"]
       \/ /\ ~AllDone({x \in Items : MilestoneOf[x] = m})
          /\ Leaves(c)
          /\ UNCHANGED <<books, mdone>>
    /\ UNCHANGED <<board, branch, pr, up, owed, pstatus, file, sync, mishaps, history>>

(* updateProject: it makes the text, writes it over project.json in place, writes *)
(* project.md and replaces the cache.                                             *)
Save(c) ==
    /\ call[c].at = "save"
    /\ call' = [call EXCEPT ![c].at = "land",
                            ![c].text = [status |-> call[c].held, mdone |-> mdone]]
    /\ UNCHANGED <<board, branch, pr, up, owed, books, cache, mishaps, history>>

(* The file is emptied; a text that comes over another one may mix with it. *)
Open(c) ==
    /\ call[c].at = "land"
    /\ file' = Emptied(call[c].text)
    /\ call' = [call EXCEPT ![c].at = "writing"]
    /\ UNCHANGED <<board, branch, pr, up, owed, books, mdone, pstatus, sync, mishaps, history>>

Land(c) ==
    /\ call[c].at = "writing"
    /\ file' = Filled(call[c].text)
    /\ call' = [call EXCEPT ![c].at = "cache", ![c].text = NoText]
    /\ UNCHANGED <<board, branch, pr, up, owed, books, mdone, pstatus, sync, mishaps, history>>

(* A mutant: the cache keeps the object it had. *)
CachedNot(c) ==
    LET k == call[c].key IN
    /\ call[c].at = "cache"
    /\ UNCHANGED pstatus
    /\ \/ /\ k = Project
          /\ call' = [call EXCEPT ![c].at = "report"]
          /\ UNCHANGED <<emitted, twice>>
       \/ /\ k # Project
          /\ Emit(k)
          /\ call' = [call EXCEPT ![c] =
                IF Project \in claimed THEN After(None, @.later)
                ELSE [IdleCall EXCEPT !.at = "project", !.key = Project, !.later = call[c].later]]
    /\ UNCHANGED <<board, branch, pr, up, owed, books, mdone, file, sync, mishaps, broken, returned>>

(* A milestone is announced now, the project once its features have been read. *)
Cached(c) ==
    LET k == call[c].key IN
    /\ call[c].at = "cache"
    /\ pstatus' = call[c].held
    /\ \/ /\ k = Project
          /\ call' = [call EXCEPT ![c].at = "report"]
          /\ UNCHANGED <<emitted, twice>>
       \/ /\ k # Project
          /\ Emit(k)
          /\ call' = [call EXCEPT ![c] =
                IF Project \in claimed THEN After(None, @.later)
                ELSE [IdleCall EXCEPT !.at = "project", !.key = Project, !.later = call[c].later]]
    /\ UNCHANGED <<board, branch, pr, up, owed, books, mdone, file, sync, mishaps, broken, returned>>

ProjectDecide(c) ==
    /\ call[c].at = "project" /\ pstatus # "torn"
    /\ \/ /\ pstatus # "completed" /\ mdone = Milestones
          /\ Claim(Project)
          /\ call' = [call EXCEPT ![c].at = "save", ![c].held = "completed"]
       \/ /\ pstatus = "completed" \/ mdone # Milestones
          /\ Leaves(c)
          /\ UNCHANGED books
    /\ UNCHANGED <<board, branch, pr, up, owed, cache, mishaps, history>>

ProjectReport(c) ==
    /\ call[c].at = "report"
    /\ Emit(Project)
    /\ Leaves(c)
    /\ UNCHANGED <<board, branch, pr, up, owed, books, cache, mishaps, broken, returned>>

(* A write throws, of project.json half-way, or of project.md after it: onFeatureDone *)
(* logs it and gives up, whatever was claimed.                                        *)
WriteFails(c) ==
    /\ call[c].at \in {"completing", "reviewing", "save", "land", "writing", "cache"}
    /\ call' = [call EXCEPT ![c] = IdleCall]
    /\ broken' = broken \cup {call[c].key}
    /\ file' = IF call[c].at = "writing" THEN file \cup {call[c].text} ELSE file
    /\ UNCHANGED <<board, branch, pr, up, owed, books, mdone, pstatus, sync, mishaps, emitted, twice, returned>>

(* getProject throws for ever when a restart has found project.json torn: _initDoc *)
(* rejects, and its promise is kept.  The call gives up.                           *)
ProjectUnreadable(c) ==
    /\ pstatus = "torn" /\ call[c].at \in {"milestone", "project"}
    /\ call' = [call EXCEPT ![c] = IdleCall]
    /\ UNCHANGED <<board, branch, pr, up, owed, books, cache, mishaps, history>>

--------------------------------------------------------------------------------
(* The other writers of the project, and the sweep *)

(* A phase changes: the cached object is written out and put back into the cache. *)
SyncBegins(s) ==
    /\ up /\ sync[s].at = "idle" /\ pstatus # "torn"
    /\ sync' = [sync EXCEPT ![s] = [at |-> "land", held |-> pstatus,
                                    text |-> [status |-> pstatus, mdone |-> mdone]]]
    /\ UNCHANGED <<board, branch, pr, up, owed, call, books, mdone, pstatus, file, mishaps, history>>

SyncOpens(s) ==
    /\ sync[s].at = "land"
    /\ file' = Emptied(sync[s].text)
    /\ sync' = [sync EXCEPT ![s].at = "writing"]
    /\ UNCHANGED <<board, branch, pr, up, owed, call, books, mdone, pstatus, mishaps, history>>

SyncLands(s) ==
    /\ sync[s].at = "writing"
    /\ file' = Filled(sync[s].text)
    /\ sync' = [sync EXCEPT ![s].at = "cache", ![s].text = NoText]
    /\ UNCHANGED <<board, branch, pr, up, owed, call, books, mdone, pstatus, mishaps, history>>

SyncFails(s) ==
    /\ sync[s].at \in {"land", "writing"}
    /\ sync' = [sync EXCEPT ![s] = IdleSync]
    /\ file' = IF sync[s].at = "writing" THEN file \cup {sync[s].text} ELSE file
    /\ UNCHANGED <<board, branch, pr, up, owed, call, books, mdone, pstatus, mishaps, history>>

SyncCached(s) ==
    /\ sync[s].at = "cache"
    /\ pstatus' = sync[s].held
    /\ sync' = [sync EXCEPT ![s] = IdleSync]
    /\ UNCHANGED <<board, branch, pr, up, owed, call, books, mdone, file, mishaps, history>>

(* FeatureHealthService finds all children done and the epic not. *)
SweepEpic(c, e) ==
    /\ up /\ Children(e) # {} /\ AllDone(Children(e)) /\ board[e] # "done"
    /\ \/ /\ branch[e] # "none" /\ e \notin claimed /\ call[c].at = "idle"
          /\ call' = [call EXCEPT ![c] = LookAtEpic(e, None)]
          /\ UNCHANGED <<board, owed>>
       \/ /\ branch[e] = "none"
          /\ SetStatus(e, "done", 1)
          /\ UNCHANGED call
    /\ UNCHANGED <<branch, pr, up, books, cache, mishaps, history>>

--------------------------------------------------------------------------------
(* The rest of the server, GitHub and the user *)

(* auto_mode_feature_complete and feature:status-changed may both announce a feature. *)
Finish(x, events) ==
    /\ board[x] \notin {"done", "review"}
    /\ x \in Epics => events = 1
    /\ SetStatus(x, "done", events)
    /\ UNCHANGED <<branch, pr, up, call, books, cache, mishaps, history>>

(* The pull request ends, merged or not. *)
PullRequestEnds(e) ==
    /\ pr[e] = "open"
    /\ \E end \in {"merged", "closed"} : pr' = [pr EXCEPT ![e] = end]
    /\ UNCHANGED <<board, branch, up, owed, call, books, cache, mishaps, history>>

(* The webhook of one that was not merged finds the epic by its number, in review: *)
(* it goes back to the backlog.                                                    *)
ClosedRead(e) ==
    /\ pr[e] = "closed"
    /\ pr' = [pr EXCEPT ![e] = IF board[e] = "review" THEN "recovering" ELSE "none"]
    /\ UNCHANGED <<board, branch, up, owed, call, books, cache, mishaps, history>>

ClosedRecovered(e) ==
    /\ pr[e] = "recovering"
    /\ pr' = [pr EXCEPT ![e] = "none"]
    /\ SetStatus(e, "open", 1)
    /\ returned' = returned \cup {e}
    /\ UNCHANGED <<branch, up, call, books, cache, mishaps, emitted, twice, broken>>

(* The webhook of a merge finds the epic by its branch; unless it is done, git lists *)
(* the files of the merge.                                                           *)
MergeRead(e) ==
    /\ pr[e] = "merged"
    /\ pr' = [pr EXCEPT ![e] = IF board[e] = "done" THEN "settling" ELSE "inspecting"]
    /\ UNCHANGED <<board, branch, up, owed, call, books, cache, mishaps, history>>

(* Only lock files, metadata or Markdown: the epic is blocked.  Otherwise, and when git *)
(* fails, it is done.                                                                   *)
MergeInspected(e) ==
    /\ pr[e] = "inspecting"
    /\ pr' = [pr EXCEPT ![e] = "settling"]
    /\ \/ /\ SetStatus(e, "done", 1)
          /\ UNCHANGED returned
       \/ /\ SetStatus(e, "blocked", 1)
          /\ returned' = returned \cup {e}
    /\ UNCHANGED <<branch, up, call, books, cache, mishaps, emitted, twice, broken>>

(* A branch named epic/... makes the handler look again. *)
MergeSettles(e) ==
    /\ pr[e] = "settling"
    /\ pr' = [pr EXCEPT ![e] = IF branch[e] = "epic" /\ board[e] # "done" THEN "landing" ELSE "landed"]
    /\ UNCHANGED <<board, branch, up, owed, call, books, cache, mishaps, history>>

EpicLands(e) ==
    /\ pr[e] = "landing"
    /\ pr' = [pr EXCEPT ![e] = "landed"]
    /\ SetStatus(e, "done", 1)
    /\ UNCHANGED <<branch, up, call, books, cache, mishaps, history>>

(* The handler dies with the server, or throws; GitHub may deliver the webhook again. *)
Redelivered(state) ==
    IF state \in {"inspecting", "settling", "landing"} THEN "merged"
    ELSE IF state = "recovering" THEN "closed" ELSE state

(* When the last write throws the handler logs it and goes on. *)
WebhookFails(e) ==
    /\ pr[e] # Redelivered(pr[e])
    /\ pr' = [pr EXCEPT ![e] = IF @ = "landing" THEN "landed" ELSE Redelivered(@)]
    /\ UNCHANGED <<board, branch, up, owed, call, books, cache, mishaps, history>>

Reopen(x) ==
    /\ board[x] \in {"done", "review"} /\ mishaps < MaxMishaps
    /\ mishaps' = mishaps + 1
    /\ SetStatus(x, "open", 1)
    /\ UNCHANGED <<branch, pr, up, call, books, cache, history>>

Claims(c) == call[c].at \in {"completing", "reviewing", "save", "land", "writing", "cache", "report"}

(* The process ends.  appendLedgerEntry is not awaited: any of the lines may be missing. *)
Crash ==
    /\ up /\ mishaps < MaxMishaps
    /\ mishaps' = mishaps + 1
    /\ up' = FALSE
    /\ owed' = [x \in Items |-> 0]
    /\ broken' = broken \cup {call[c].key : c \in {d \in Calls : Claims(d)}}
    /\ call' = [c \in Calls |-> IdleCall] /\ sync' = [s \in Syncs |-> IdleSync]
    /\ claimed' = {}
    /\ \E written \in SUBSET claimed : ledger' = ledger \cup written
    /\ \E text \in file \cup Written :
          file' = {text} /\ mdone' = text.mdone /\ pstatus' = text.status
    /\ pr' = [e \in Epics |-> Redelivered(pr[e])]
    /\ UNCHANGED <<board, branch, emitted, twice, returned>>

Initialize ==
    /\ ~up /\ up' = TRUE
    /\ claimed' = ledger
    /\ UNCHANGED <<board, branch, pr, owed, call, ledger, cache, mishaps, history>>

Step(c) ==
    \/ EpicRead(c) \/ NothingToMerge(c) \/ PullRequestReady(c) \/ PullRequestFails(c)
    \/ EpicCompleted(c) \/ EpicInReview(c) \/ EpicBlocked(c)
    \/ MilestoneLook(c) \/ MilestoneDecide(c) \/ Save(c) \/ Open(c) \/ Land(c) \/ Cached(c)
    \/ ProjectDecide(c) \/ ProjectReport(c) \/ WriteFails(c) \/ ProjectUnreadable(c)

Act ==
    \/ \E c \in Calls : Step(c) \/ (\E x \in Items : OnFeatureDone(c, x))
                                \/ (\E e \in Epics : SweepEpic(c, e))
    \/ \E s \in Syncs : SyncBegins(s) \/ SyncOpens(s) \/ SyncLands(s) \/ SyncFails(s) \/ SyncCached(s)
    \/ \E x \in Items : Reopen(x) \/ \E n \in 1..2 : Finish(x, n)
    \/ \E e \in Epics : \/ PullRequestEnds(e) \/ ClosedRead(e) \/ ClosedRecovered(e)
                       \/ MergeRead(e) \/ MergeInspected(e) \/ MergeSettles(e) \/ EpicLands(e)
                       \/ WebhookFails(e)
    \/ Crash \/ Initialize

(* The webhook is handled before the call has written the review that it ends. *)
LandsEarly ==
    \E c \in Calls : call[c].at = "reviewing" /\ pr[call[c].key] \in {"settling", "landing", "landed"}

ReopensEpic == \E e \in Epics : board[e] \in {"done", "review"} /\ board'[e] = "open"

Next == Act /\ disturbed' = (disturbed \/ Crossing' \/ LandsEarly \/ ReopensEpic)

Spec == Init /\ [][Next]_vars

--------------------------------------------------------------------------------
(* Type invariant. *)
TypeOK ==
    /\ board \in [Items -> {"open", "blocked", "review", "done"}]
    /\ branch \in [Epics -> {"none", "epic", "other"}]
    /\ pr \in [Epics -> {"none", "open", "closed", "recovering",
                         "merged", "inspecting", "settling", "landing", "landed"}]
    /\ up \in BOOLEAN /\ disturbed \in BOOLEAN
    /\ owed \in [Items -> 0..2]
    /\ call \in [Calls -> CallStates]
    /\ claimed \in SUBSET Keys /\ ledger \in SUBSET Keys
    /\ mdone \in SUBSET Milestones
    /\ pstatus \in {"active", "completed", "torn"} /\ file \in SUBSET (Texts \cup {Torn})
    /\ sync \in [Syncs -> [at : {"idle", "land", "writing", "cache"},
                           held : {"active", "completed"}, text : Texts]]
    /\ mishaps \in 0..MaxMishaps
    /\ emitted \in SUBSET Keys /\ twice \in BOOLEAN /\ broken \in SUBSET Keys
    /\ returned \in SUBSET Epics

(* A completion that is in the Sets, and will not be looked at again, has been       *)
(* announced, or a call is about to announce it, or that call failed or died: it is  *)
(* claimed only once nothing but its own writes can keep it back ("dedup is claimed  *)
(* only after a successful PR creation so that failures are retryable").             *)
ClaimIsHonoured ==
    \A k \in claimed :
        k \in emitted \/ k \in broken \/ \E c \in Calls : call[c].key = k /\ Claims(c)

(* Once project:completed is announced nobody takes it back: the project says completed, *)
(* in the cache and in whatever the file may hold, or the file is torn, by a write that   *)
(* failed or died, and with it the cache of the next restart.  Unless two writers have    *)
(* held a copy of the project at the same time.                                           *)
ProjectStaysCompleted ==
    Project \in emitted /\ ~disturbed =>
        pstatus # "active" /\ \A text \in file : text.status # "active"

(* An epic that has been announced is in review, or done once its merge has been handled: *)
(* no later look, retry or failed pull request blocks it or takes it back, unless its     *)
(* webhook did so for a pull request that was closed or without source files, it met      *)
(* another call, was opened again, or its merge was handled before it was in review.      *)
AnnouncedEpicStands ==
    ~disturbed => \A e \in (Epics \cap emitted) \ returned :
        board[e] \in IF pr[e] = "landed" THEN {"done"} ELSE {"review", "done"}

(* No completion is announced twice, over a restart that finds lines of the ledger   *)
(* missing too (the board and project.json are written first), unless two calls were *)
(* between the look at the Set and the claim, an epic was opened again, or a webhook *)
(* has returned one.                                                                 *)
RepeatsNeedARace == twice => disturbed \/ returned # {}

================================================================================
