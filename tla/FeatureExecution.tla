---------------------------- MODULE FeatureExecution ----------------------------
(***************************************************************************)
(* The runs of one feature: ConcurrencyManager's lease, the runningFeatures *)
(* entry, the retry timers and the status on disk, as they are handled by   *)
(* AutoModeService.executeFeature, resumeFeature, followUpFeature,          *)
(* stopFeature and stopAutoLoopForProject, by ExecutionService and by       *)
(* PostExecutionMiddleware.                                                 *)
(*                                                                         *)
(* Two structures say whether the feature runs.  The lease is a count that  *)
(* executeFeature of AutoModeService takes and gives back; the entry is the *)
(* object of one run, and the guard of ExecutionService.  Retries go to     *)
(* ExecutionService directly, follow-ups write both without asking, and a   *)
(* stop clears both while the stopped run is still unwinding.               *)
(* Code between two awaits is one action.                                   *)
(***************************************************************************)
EXTENDS Naturals, FiniteSets

CONSTANTS
    Runs,        \* runs under way at once
    NoRun,
    Timers,      \* retries waiting at once
    Stoppers,    \* calls of stopFeature under way at once
    MaxLease,    \* bound: a follow-up joins while the count is below it
    MaxRetries   \* MAX_LOOP_RETRIES, MAX_MAX_TURNS_RETRIES, maxRetries of RecoveryService

ASSUME NoRunAssumption == NoRun \notin Runs
ASSUME BoundsAssumption == MaxRetries \in Nat /\ MaxLease \in Nat \ {0}

VARIABLES
    lease,    \* leaseCount of the feature's lease, 0 without one
    entry,    \* the run whose object runningFeatures holds
    run,      \* each run: where it is and what it carries
    timer,    \* retries scheduled: setTimeout and setImmediate callbacks
    retryTimers,  \* the one that the retryTimers map can still cancel
    stops,    \* calls of stopFeature
    status,   \* the feature's status on disk
    output,   \* agent-output.md exists and is not stale
    seen      \* history: the strongest thing that has interfered with the runs

vars == <<lease, entry, run, timer, retryTimers, stops, status, output, seen>>

(* "done" stands for done, verified and completed, "interrupted" for that and *)
(* needs_human, "open" for backlog, review, blocked, failed, waiting_approval. *)
Statuses == {"open", "in_progress", "interrupted", "done"}
Terminal == {"done", "interrupted"}

RunStates == [
    at : {"idle", "entered", "resuming", "preparing", "agent", "exhausted",
          "failing", "delaying", "aborting", "cleanup", "returning", "joining", "joined"},
    followUp : BOOLEAN,       \* a call of followUpFeature
    leases : 0..2,            \* releases that its executeFeature frames still owe
    retry : 0..MaxRetries,    \* retryCount
    fresh : BOOLEAN,          \* called without a continuation prompt
    aborted : BOOLEAN]        \* its abort controller

IdleRun == [at |-> "idle", followUp |-> FALSE, leases |-> 0, retry |-> 0,
            fresh |-> FALSE, aborted |-> FALSE]

NoTimer == [kind |-> "none", retry |-> 0]
TimerStates == [kind : {"none", "relaunch", "immediate", "reset"}, retry : 0..MaxRetries]

(* What can interfere, by strength. *)
Nothing == 0
Denial == 1     \* the authority service denied a run
Stop == 2       \* an agent was stopped
FollowUp == 3   \* a follow-up took a lease
AtLeast(level) == IF seen < level THEN level ELSE seen

IdleStop == [at |-> "idle", target |-> "open"]

Init ==
    /\ lease = 0 /\ entry = NoRun
    /\ run = [r \in Runs |-> IdleRun]
    /\ timer = [t \in Timers |-> NoTimer] /\ retryTimers = {}
    /\ stops = [s \in Stoppers |-> IdleStop]
    /\ status = "open" /\ output = FALSE
    /\ seen = Nothing

--------------------------------------------------------------------------------
(* Shared steps *)

Moved(r, at) == [run EXCEPT ![r].at = at]

(* A run keeps only what later steps read: its controller until its agent is *)
(* done, its retryCount until its failure is handled.                        *)
Left(r, at) == [run EXCEPT ![r].at = at, ![r].aborted = FALSE]
Spent(r, at) == [run EXCEPT ![r] = [IdleRun EXCEPT !.at = at,
                                  !.followUp = run[r].followUp, !.leases = run[r].leases]]
Over(r) == Spent(r, "cleanup")
Abort(f) ==
    IF entry # NoRun /\ f[entry].at \in {"entered", "preparing", "joined", "agent"}
    THEN [f EXCEPT ![entry].aborted = TRUE] ELSE f
FreeTimers == {t \in Timers : timer[t].kind = "none"}
Delaying == {r \in Runs : run[r].at = "delaying"}

(* release(): the count never goes below zero. *)
Released(n) == IF lease > n THEN lease - n ELSE 0

(* A status write, and the listener of feature:status-changed that stops the *)
(* agent of a finished feature.  f, g: the runs and the stops after the      *)
(* step's own change.  Bound: without an idle stopper no agent is stopped.   *)
WriteStatus(new, f, g) ==
    /\ status' = new
    /\ LET stopper == {s \in Stoppers : g[s].at = "idle"}
       IN  IF new = "done" /\ status # "done" /\ entry # NoRun /\ stopper # {}
           THEN /\ run' = Abort(f)
                /\ \E s \in stopper : stops' = [g EXCEPT ![s] = [at |-> "writing", target |-> "done"]]
                /\ seen' = AtLeast(Stop)
           ELSE run' = f /\ stops' = g /\ UNCHANGED seen

SetStatus(new, f) == WriteStatus(new, f, stops)

(* The retry that run r schedules; a setTimeout replaces the map's timer. *)
Arm(r, kind) ==
    \E t \in FreeTimers :
        /\ timer' = [timer EXCEPT ![t] =
              [kind |-> kind, retry |-> IF kind = "reset" THEN 0 ELSE run[r].retry + 1]]
        /\ retryTimers' = IF kind = "immediate" THEN retryTimers ELSE {t}

--------------------------------------------------------------------------------
(* AutoModeService.executeFeature and ExecutionService.executeFeature *)

(* A call that is refused, by the lease or by the entry, changes nothing.    *)
(* ExecuteProcessor passes the retryCount of its own context.                *)
Start(r) ==
    /\ run[r].at = "idle" /\ lease = 0 /\ entry = NoRun
    /\ lease' = 1 /\ entry' = r
    /\ \E fresh \in BOOLEAN, retry \in 0..MaxRetries :
        run' = [run EXCEPT ![r] = [IdleRun EXCEPT !.at = "entered", !.leases = 1,
                                       !.fresh = fresh, !.retry = retry]]
    /\ UNCHANGED <<timer, retryTimers, stops, status, output, seen>>

LoadTerminal(r) ==
    /\ run[r].at = "entered" /\ status \in Terminal
    /\ entry' = NoRun
    /\ run' = Over(r)
    /\ UNCHANGED <<lease, timer, retryTimers, stops, status, output, seen>>

(* An approved plan: the call recurses with a continuation prompt, without   *)
(* asking the guard and without its retryCount.                              *)
Recurse(r) ==
    /\ run[r].at = "entered" /\ status \notin Terminal /\ run[r].fresh
    /\ entry' = r
    /\ run' = [run EXCEPT ![r].retry = 0, ![r].fresh = FALSE, ![r].aborted = FALSE]
    /\ UNCHANGED <<lease, timer, retryTimers, stops, status, output, seen>>

(* Context from an earlier run: the call is handed to resumeFeature. *)
Delegate(r) ==
    /\ run[r].at = "entered" /\ status \notin Terminal /\ run[r].fresh /\ output
    /\ entry' = NoRun
    /\ run' = Spent(r, "resuming")
    /\ UNCHANGED <<lease, timer, retryTimers, stops, status, output, seen>>

(* No context, or a stale one that is renamed. *)
Load(r) ==
    /\ run[r].at = "entered" /\ status \notin Terminal
    /\ output' = (output /\ ~run[r].fresh)
    /\ run' = [run EXCEPT ![r].at = "preparing", ![r].fresh = FALSE]
    /\ UNCHANGED <<lease, entry, timer, retryTimers, stops, status, seen>>

(* resumeFeature calls executeFeature again, for which the lease of the      *)
(* outer call is another run.                                                *)
ResumeRefused(r) ==
    /\ run[r].at = "resuming"
    /\ status = "done" \/ lease > 0 \/ entry # NoRun
    /\ run' = Spent(r, "returning")
    /\ UNCHANGED <<lease, entry, timer, retryTimers, stops, status, output, seen>>

ResumeRuns(r) ==
    /\ run[r].at = "resuming" /\ status # "done" /\ lease = 0 /\ entry = NoRun
    /\ lease' = 1 /\ entry' = r
    /\ run' = [run EXCEPT ![r].at = "entered", ![r].leases = @ + 1]
    /\ UNCHANGED <<timer, retryTimers, stops, status, output, seen>>

(* The status write that precedes the agent is unconditional. *)
Prepare(r) ==
    /\ run[r].at = "preparing"
    /\ SetStatus("in_progress", Moved(r, "agent"))
    /\ output' \in {output, TRUE}
    /\ UNCHANGED <<lease, entry, timer, retryTimers>>

(* No worktree, a merge conflict. *)
PrepareBlocks(r) ==
    /\ run[r].at = "preparing"
    /\ SetStatus("open", Over(r))
    /\ UNCHANGED <<lease, entry, timer, retryTimers, output>>

AuthorityDenies(r) ==
    /\ run[r].at = "preparing"
    /\ entry' = NoRun
    /\ run' = Over(r)
    /\ seen' = AtLeast(Denial)
    /\ UNCHANGED <<lease, timer, retryTimers, stops, status, output>>

PrepareThrows(r) ==
    /\ run[r].at = "preparing"
    /\ run' = Left(r, "failing")
    /\ UNCHANGED <<lease, entry, timer, retryTimers, stops, status, output, seen>>

AgentSucceeds(r) ==
    /\ run[r].at = "agent"
    /\ \E new \in {"done", "open"} \cup (IF run[r].followUp THEN {} ELSE {"interrupted"}) :
          SetStatus(new, Over(r))
    /\ UNCHANGED <<lease, entry, timer, retryTimers, output>>

(* A failed follow-up writes no status; "exhausted" is a loop or the turn limit. *)
AgentFails(r) ==
    /\ run[r].at = "agent" /\ (run[r].aborted => run[r].followUp)
    /\ run' \in IF run[r].followUp THEN {Over(r)}
               ELSE {Left(r, "failing"), Left(r, "exhausted")}
    /\ UNCHANGED <<lease, entry, timer, retryTimers, stops, status, output, seen>>

(* By a stop, by the heap monitor or because its process died. *)
AgentAborts(r) ==
    /\ run[r].at = "agent" /\ ~run[r].followUp
    /\ run' = Spent(r, "aborting")
    /\ UNCHANGED <<lease, entry, timer, retryTimers, stops, status, output, seen>>

(* The code writes backlog. *)
AbortResets(r) ==
    /\ run[r].at = "aborting"
    /\ SetStatus("open", Over(r))
    /\ UNCHANGED <<lease, entry, timer, retryTimers, output>>

--------------------------------------------------------------------------------
(* The catch block of executeFeature *)

RetryLater(r) ==
    /\ run[r].at = "exhausted" /\ run[r].retry < MaxRetries
    /\ Cardinality(FreeTimers) > Cardinality(Delaying)
    /\ entry' = NoRun
    /\ Arm(r, "relaunch")
    /\ run' = Over(r)
    /\ UNCHANGED <<lease, stops, status, output, seen>>

RetriesExhausted(r) ==
    /\ run[r].at = "exhausted" /\ run[r].retry = MaxRetries
    /\ SetStatus("open", Over(r))
    /\ UNCHANGED <<lease, entry, timer, retryTimers, output>>

(* A failure that RecoveryService finds retryable: first its delay. *)
RecoveryWaits(r) ==
    /\ run[r].at = "failing" /\ run[r].retry < MaxRetries
    /\ Cardinality(FreeTimers) > Cardinality(Delaying)
    /\ run' = Moved(r, "delaying")
    /\ UNCHANGED <<lease, entry, timer, retryTimers, stops, status, output, seen>>

RecoveryRetries(r) ==
    /\ run[r].at = "delaying"
    /\ entry' = NoRun
    /\ Arm(r, "immediate")
    /\ run' = Over(r)
    /\ UNCHANGED <<lease, stops, status, output, seen>>

(* A failed commit hook: the feature goes back to the backlog when a timer fires. *)
BackOff(r) ==
    /\ run[r].at = "failing"
    /\ Cardinality(FreeTimers) > Cardinality(Delaying)
    /\ Arm(r, "reset")
    /\ run' = Over(r)
    /\ UNCHANGED <<lease, entry, stops, status, output, seen>>

(* Mutant of GiveUp: no status is written. *)
GiveUpSilently(r) ==
    /\ run[r].at = "failing"
    /\ run' = Over(r)
    /\ UNCHANGED <<lease, entry, timer, retryTimers, stops, status, output, seen>>

(* Not retryable, out of retries, or the third failure in a row. *)
GiveUp(r) ==
    /\ run[r].at = "failing"
    /\ \E new \in {"open", "interrupted"} : SetStatus(new, Over(r))
    /\ UNCHANGED <<lease, entry, timer, retryTimers, output>>

(* Mutant of Cleanup: the entry is left to the caller. *)
CleanupKeepingEntry(r) ==
    /\ run[r].at = "cleanup" /\ ~run[r].followUp
    /\ run' = Moved(r, "returning")
    /\ UNCHANGED <<lease, entry, timer, retryTimers, stops, status, output, seen>>

(* PostExecutionMiddleware.run: only the entry that is still its own. *)
Cleanup(r) ==
    /\ run[r].at = "cleanup" /\ ~run[r].followUp
    /\ entry' = IF entry = r THEN NoRun ELSE entry
    /\ run' = Moved(r, "returning")
    /\ UNCHANGED <<lease, timer, retryTimers, stops, status, output, seen>>

(* Mutant of Return: only the innermost executeFeature releases its lease. *)
ReturnKeepingLease(r) ==
    /\ run[r].at = "returning"
    /\ lease' = IF run[r].leases = 2 THEN Released(1) ELSE lease
    /\ run' = [run EXCEPT ![r] = IdleRun]
    /\ UNCHANGED <<entry, timer, retryTimers, stops, status, output, seen>>

Return(r) ==
    /\ run[r].at = "returning"
    /\ lease' = Released(run[r].leases)
    /\ run' = [run EXCEPT ![r] = IdleRun]
    /\ UNCHANGED <<entry, timer, retryTimers, stops, status, output, seen>>

--------------------------------------------------------------------------------
(* The callbacks of the timers: no lease, and the guard of ExecutionService. *)

Fired(t) ==
    /\ timer' = [timer EXCEPT ![t] = NoTimer]
    /\ retryTimers' = IF timer[t].kind = "immediate" THEN retryTimers ELSE {}

(* Mutant of Relaunch: the guard of executeFeature is skipped. *)
RelaunchUnguarded(t, r) ==
    /\ timer[t].kind \in {"relaunch", "immediate"} /\ Fired(t)
    /\ run[r].at = "idle"
    /\ entry' = r
    /\ run' = [run EXCEPT ![r] = [IdleRun EXCEPT !.at = "entered", !.fresh = TRUE,
                                  !.retry = timer[t].retry]]
    /\ UNCHANGED <<lease, stops, status, output, seen>>

Relaunch(t, r) ==
    /\ timer[t].kind \in {"relaunch", "immediate"} /\ Fired(t)
    /\ entry = NoRun /\ run[r].at = "idle"
    /\ entry' = r
    /\ run' = [run EXCEPT ![r] = [IdleRun EXCEPT !.at = "entered", !.fresh = TRUE,
                                  !.retry = timer[t].retry]]
    /\ UNCHANGED <<lease, stops, status, output, seen>>

RelaunchRefused(t) ==
    /\ timer[t].kind \in {"relaunch", "immediate"} /\ Fired(t)
    /\ entry # NoRun
    /\ UNCHANGED <<lease, entry, run, stops, status, output, seen>>

ResetAfterBackOff(t) ==
    /\ timer[t].kind = "reset" /\ Fired(t)
    /\ SetStatus("open", run)
    /\ UNCHANGED <<lease, entry, output>>

--------------------------------------------------------------------------------
(* followUpFeature *)

(* Asks the entry, then loads the feature and its worktree. *)
CallFollowUp(r) ==
    /\ run[r].at = "idle" /\ entry = NoRun
    /\ run' = [run EXCEPT ![r] = [IdleRun EXCEPT !.at = "joining", !.followUp = TRUE]]
    /\ UNCHANGED <<lease, entry, timer, retryTimers, stops, status, output, seen>>

FollowUpBlocks(r) ==
    /\ run[r].at = "joining"
    /\ SetStatus("open", [run EXCEPT ![r] = IdleRun])
    /\ UNCHANGED <<lease, entry, timer, retryTimers, output>>

(* What acquire returns and what the entry holds by now are not looked at. *)
Join(r) ==
    /\ run[r].at = "joining" /\ lease < MaxLease
    /\ lease' = lease + 1 /\ entry' = r
    /\ run' = Moved(r, "joined")
    /\ seen' = AtLeast(FollowUp)
    /\ UNCHANGED <<timer, retryTimers, stops, status, output>>

FollowUpRuns(r) ==
    /\ run[r].at = "joined"
    /\ SetStatus("in_progress", Moved(r, "agent"))
    /\ UNCHANGED <<lease, entry, timer, retryTimers, output>>

FollowUpEnds(r) ==
    /\ run[r].at = "cleanup" /\ run[r].followUp
    /\ lease' = IF entry = r THEN Released(1) ELSE lease
    /\ entry' = IF entry = r THEN NoRun ELSE entry
    /\ run' = [run EXCEPT ![r] = IdleRun]
    /\ UNCHANGED <<timer, retryTimers, stops, status, output, seen>>

--------------------------------------------------------------------------------
(* stopFeature, stopAutoLoopForProject, and the rest of the server *)

StopFeature(s) ==
    /\ stops[s].at = "idle" /\ entry # NoRun
    /\ \E target \in {"open", "done"} :
          stops' = [stops EXCEPT ![s] = [at |-> "writing", target |-> target]]
    /\ run' = Abort(run)
    /\ seen' = AtLeast(Stop)
    /\ UNCHANGED <<lease, entry, timer, retryTimers, status, output>>

StopWrites(s) ==
    /\ stops[s].at = "writing"
    /\ WriteStatus(stops[s].target, run, [stops EXCEPT ![s] = [IdleStop EXCEPT !.at = "written"]])
    /\ UNCHANGED <<lease, entry, timer, retryTimers, output>>

(* By now the lease, the entry and the timer may be those of a later run. *)
StopEnds(s) ==
    /\ stops[s].at = "written"
    /\ lease' = Released(1) /\ entry' = NoRun
    /\ timer' = [t \in Timers |-> IF t \in retryTimers THEN NoTimer ELSE timer[t]]
    /\ retryTimers' = {}
    /\ stops' = [stops EXCEPT ![s] = IdleStop]
    /\ UNCHANGED <<run, status, output, seen>>

(* The timers of the project are looked up by the entries just deleted. *)
StopAutoLoop ==
    /\ entry' = NoRun /\ lease' = 0
    /\ run' = Abort(run)
    /\ seen' = IF entry = NoRun /\ lease = 0 THEN seen ELSE AtLeast(Stop)
    /\ UNCHANGED <<timer, retryTimers, stops, status, output>>

(* Somebody else finishes the feature. *)
MarkDone ==
    /\ status # "done"
    /\ SetStatus("done", run)
    /\ UNCHANGED <<lease, entry, timer, retryTimers, output>>

(* The health sweep releases a lease that is older than 45 minutes. *)
ReleaseStaleLease ==
    /\ lease > 0
    /\ lease' = 0
    /\ UNCHANGED <<entry, run, timer, retryTimers, stops, status, output, seen>>

--------------------------------------------------------------------------------

RunStep(r) ==
    \/ LoadTerminal(r) \/ Recurse(r) \/ Delegate(r) \/ Load(r)
    \/ ResumeRefused(r) \/ ResumeRuns(r)
    \/ Prepare(r) \/ PrepareBlocks(r) \/ AuthorityDenies(r) \/ PrepareThrows(r)
    \/ AgentSucceeds(r) \/ AgentFails(r) \/ AgentAborts(r) \/ AbortResets(r)
    \/ RetryLater(r) \/ RetriesExhausted(r) \/ RecoveryWaits(r) \/ RecoveryRetries(r) \/ BackOff(r) \/ GiveUp(r)
    \/ Cleanup(r) \/ Return(r)
    \/ FollowUpBlocks(r) \/ Join(r) \/ FollowUpRuns(r) \/ FollowUpEnds(r)

TimerStep(t) == RelaunchRefused(t) \/ ResetAfterBackOff(t) \/ \E r \in Runs : Relaunch(t, r)

StopStep(s) == StopWrites(s) \/ StopEnds(s)

Next ==
    \/ \E r \in Runs : Start(r) \/ CallFollowUp(r) \/ RunStep(r)
    \/ \E t \in Timers : TimerStep(t)
    \/ \E s \in Stoppers : StopFeature(s) \/ StopStep(s)
    \/ StopAutoLoop \/ MarkDone \/ ReleaseStaleLease

Spec == Init /\ [][Next]_vars

--------------------------------------------------------------------------------

TypeOK ==
    /\ lease \in Nat /\ entry \in Runs \cup {NoRun}
    /\ run \in [Runs -> RunStates]
    /\ timer \in [Timers -> TimerStates]
    /\ retryTimers \subseteq Timers /\ Cardinality(retryTimers) <= 1
    /\ stops \in [Stoppers -> [at : {"idle", "writing", "written"}, target : {"open", "done"}]]
    /\ status \in Statuses /\ output \in BOOLEAN
    /\ seen \in Nothing..FollowUp

Live == {r \in Runs : run[r].at = "agent" /\ ~run[r].aborted}
Quiet ==
    /\ \A r \in Runs : run[r].at = "idle"
    /\ \A t \in Timers : timer[t].kind = "none"
    /\ \A s \in Stoppers : stops[s].at = "idle"

(* The entry of runningFeatures belongs to a run that will still remove it:  *)
(* an entry left behind refuses the feature for the rest of the process.     *)
EntryIsAlive ==
    entry # NoRun => run[entry].at \notin {"idle", "joining", "resuming", "returning"}

(* As long as nobody stops a run or follows up on it, at most one agent      *)
(* works on the feature, although retries bypass the lease, delegated calls  *)
(* drop the entry and the sweep releases leases that are in use.             *)
OneLiveAgent == seen < Stop => Cardinality(Live) <= 1

(* Without follow-ups the lease is never taken twice and never outlives the  *)
(* calls that give it back, whatever the stops release in between.           *)
LeaseIsBacked ==
    seen < FollowUp /\ lease > 0 => lease = 1 /\ \E r \in Runs : run[r].leases > 0

(* Left alone, a feature is stranded in in_progress, with no run and no      *)
(* timer that would move it, only by the context of an earlier run, on which *)
(* a call is delegated and refused; every other exit writes a status.        *)
OnlyContextStrands == Quiet /\ seen = Nothing /\ status = "in_progress" => output

================================================================================
