-------------------------------- MODULE AutoLoop --------------------------------
(***************************************************************************)
(* The auto-mode loops of one app: AutoLoopCoordinator, the start, stop,   *)
(* pause and circuit-breaker code of AutoModeService, the skeleton of      *)
(* FeatureScheduler.runLoop, ProjectPauseService and the execution-state   *)
(* file from which a restarted server resumes its loops.                   *)
(*                                                                         *)
(* A worktree of the app has at most one LoopState in the coordinator's    *)
(* map.  The loops created over time are numbered here, because the body   *)
(* of a stopped loop, its timers and the features it dispatched live on.   *)
(* Code between two awaits is one action.                                  *)
(***************************************************************************)
EXTENDS Naturals, FiniteSets

CONSTANTS
    Keys,             \* worktrees of the app, by makeKey
    MainKey,          \* the main worktree
    Callers,          \* calls of startAutoLoopForProject that can be under way at once
    FailureThreshold, \* FAILURE_THRESHOLD of the rolling window
    ExternalControl,  \* the public methods that no part of the server calls are called:
                      \* pauseAutoLoopForProject, resumeAutoLoopForProject,
                      \* manualResumeAfterQuota
    FilesFail,        \* writing or deleting execution-state.json may fail
    MaxLoops,         \* bound: loops created
    MaxTrips,         \* bound: times the circuit breaker trips
    MaxRuns,          \* maxConcurrency of a loop
    MaxPauses,        \* bound: calls of pauseProject
    MaxCrashes        \* bound: crashes of the server

ASSUME MainKeyAssumption == MainKey \in Keys
ASSUME ThresholdAssumption == FailureThreshold \in Nat \ {0}
ASSUME BoundsAssumption ==
    /\ {MaxLoops, MaxTrips, MaxRuns, MaxPauses, MaxCrashes} \subseteq Nat
    /\ {ExternalControl, FilesFail} \subseteq BOOLEAN

VARIABLES
    loops,              \* the coordinator's map: number of the worktree's loop, 0 if none
    loop,               \* LoopState, body and dispatched features of each loop
    armed,              \* cooldown timers that are set: <<number, worktree>>
    trips,              \* cooldown timers created so far
    pendingLoopStarts,  \* worktrees claimed by a start that has not finished
    start,              \* each call of startAutoLoopForProject: where it is, for which worktree
    quotaBlocked,       \* the app is in AutoModeCoordinator's quota set
    pausedProjects,     \* the app is in the durable registry of paused apps
    pausing,            \* the call of pauseProject: where it is, worktrees still to stop
    pauses,             \* calls of pauseProject so far
    overtaken,          \* history: worktrees for which a start was past the gate when the pause came
    executionState,     \* worktree named by execution-state.json; "none" without a file
    unlinks,            \* calls of clearExecutionState whose unlink is under way
    crashes,            \* crashes so far
    booted              \* the startup code has started the loops to resume

loopVars == <<loops, loop, armed, trips>>
startVars == <<pendingLoopStarts, start>>
appVars == <<pausedProjects, pausing, pauses, overtaken>>
fileVars == <<executionState, unlinks>>
serverVars == <<crashes, booted>>
vars == <<loopVars, startVars, quotaBlocked, appVars, fileVars, serverVars>>

Loops == 1..MaxLoops
FailureTypes == {"quota_exhausted", "critical", "other"}

LoopStates == [
    key : Keys, isRunning : BOOLEAN, isPaused : BOOLEAN, aborted : BOOLEAN,
    failures : 0..FailureThreshold, cooldownTimer : 0..MaxTrips,
    lastCircuitBreakerFailureType : {"none"} \cup FailureTypes,
    body : {"unborn", "startup", "head", "picking", "gated", "exited"},
    runs : Nat,                               \* pipeline runs it dispatched, not ended
    ghosts : Nat]                             \* those dispatched after it was aborted

Unborn == [
    key |-> MainKey, isRunning |-> FALSE, isPaused |-> FALSE, aborted |-> FALSE,
    failures |-> 0, cooldownTimer |-> 0, lastCircuitBreakerFailureType |-> "none",
    body |-> "unborn", runs |-> 0, ghosts |-> 0]

NewLoopState(k) == [Unborn EXCEPT !.key = k, !.isRunning = TRUE, !.body = "startup"]

Idle == [at |-> "idle", key |-> MainKey]
InStart == {"gate", "gated", "claimed", "saved"}
InResume == {"resumeGate", "resumeGated"}
PastGate == {"gated", "claimed", "saved", "resumeGated"}

Init ==
    /\ loops = [k \in Keys |-> 0]
    /\ loop = [i \in Loops |-> Unborn]
    /\ armed = {} /\ trips = 0
    /\ pendingLoopStarts = {}
    /\ start = [c \in Callers |-> Idle]
    /\ quotaBlocked = FALSE
    /\ pausedProjects = FALSE /\ pausing = [at |-> "idle", todo |-> {}] /\ pauses = 0
    /\ overtaken = {}
    /\ executionState = "none" /\ unlinks = 0
    /\ crashes = 0 /\ booted = TRUE

--------------------------------------------------------------------------------
(* AutoLoopCoordinator, as functions of the LoopState they change. *)

HasState(k) == loops[k] # 0
StateOf(k) == loop[loops[k]]
IsRunning(k) == HasState(k) /\ StateOf(k).isRunning

(* Mutant of StopLoop: the entry leaves the map and the loop is not told. *)
StopLoopUntold(s) == [s EXCEPT !.cooldownTimer = 0]

StopLoop(s) == [s EXCEPT !.isRunning = FALSE, !.aborted = TRUE, !.cooldownTimer = 0]

PauseLoop(s, type) ==
    IF s.isPaused THEN s
    ELSE [s EXCEPT !.isPaused = TRUE, !.isRunning = FALSE, !.aborted = TRUE,
                   !.lastCircuitBreakerFailureType = IF type = "none" THEN @ ELSE type]

ResetFailures(s) == [s EXCEPT !.failures = 0, !.isPaused = FALSE]

(* The loop that gets the next number, for worktree k. *)
CreateLoop(k) ==
    \E i \in Loops :
        /\ loop[i].body = "unborn" /\ \A j \in 1..(i - 1) : loop[j].body # "unborn"
        /\ loop' = [loop EXCEPT ![i] = NewLoopState(k)]
        /\ loops' = [loops EXCEPT ![k] = i]

(* The coordinator's stopLoop on a worktree that has a state. *)
DropLoop(k) ==
    /\ loop' = [loop EXCEPT ![loops[k]] = StopLoop(@)]
    /\ loops' = [loops EXCEPT ![k] = 0]
    /\ armed' = armed \ {<<StateOf(k).cooldownTimer, k>>}

--------------------------------------------------------------------------------
(* startAutoLoopForProject *)

Busy == {c \in Callers : start[c].at # "idle"}

(* Bound: a call is only made while there is a number left for its loop. *)
Room == Cardinality({i \in Loops : loop[i].body # "unborn"}) + Cardinality(Busy) < MaxLoops

Move(c, at) == start' = [start EXCEPT ![c].at = at]
Return(c) == start' = [start EXCEPT ![c] = Idle]
Enter(c, at, k) ==
    /\ start[c].at = "idle" /\ Room
    /\ start' = [start EXCEPT ![c] = [at |-> at, key |-> k]]

CallStart(c, k) ==
    /\ Enter(c, "gate", k)
    /\ UNCHANGED <<loopVars, pendingLoopStarts, quotaBlocked, appVars, fileVars, serverVars>>

(* The app fails the compliance check or is in the registry of paused apps. *)
GateRefuses(c) ==
    /\ start[c].at = "gate"
    /\ Return(c)
    /\ UNCHANGED <<loopVars, pendingLoopStarts, quotaBlocked, appVars, fileVars, serverVars>>

GatePasses(c) ==
    /\ start[c].at = "gate"
    /\ ~pausedProjects
    /\ Move(c, "gated")
    /\ UNCHANGED <<loopVars, pendingLoopStarts, quotaBlocked, appVars, fileVars, serverVars>>

(* Mutant of Claim: the slot is not claimed, startLoop is left to notice. *)
ClaimUnguarded(c) ==
    /\ start[c].at = "gated"
    /\ pendingLoopStarts' = pendingLoopStarts \cup {start[c].key}
    /\ Move(c, "claimed")
    /\ UNCHANGED <<loopVars, quotaBlocked, appVars, fileVars, serverVars>>

(* The check and the claim are one synchronous step. *)
Claim(c) ==
    LET k == start[c].key
    IN  /\ start[c].at = "gated"
        /\ \/ /\ IsRunning(k) \/ k \in pendingLoopStarts
              /\ Return(c)
              /\ UNCHANGED pendingLoopStarts
           \/ /\ ~IsRunning(k) /\ k \notin pendingLoopStarts
              /\ pendingLoopStarts' = pendingLoopStarts \cup {k}
              /\ Move(c, "claimed")
        /\ UNCHANGED <<loopVars, quotaBlocked, appVars, fileVars, serverVars>>

(* resolveMaxConcurrency, then saveExecutionStateForProject writes the file; *)
(* neither throws.                                                           *)
SaveState(c) ==
    /\ start[c].at = "claimed"
    /\ executionState' \in {start[c].key} \cup (IF FilesFail THEN {executionState} ELSE {})
    /\ Move(c, "saved")
    /\ UNCHANGED <<loopVars, pendingLoopStarts, quotaBlocked, appVars, unlinks, serverVars>>

(* Mutant of StartLoop: the finally that gives the claim back is missing. *)
StartLoopKeepingClaim(c) ==
    LET k == start[c].key
    IN  /\ start[c].at = "saved"
        /\ \/ ~IsRunning(k) /\ CreateLoop(k) /\ UNCHANGED armed
           \/ IsRunning(k) /\ DropLoop(k)
        /\ Return(c)
        /\ UNCHANGED <<trips, pendingLoopStarts, quotaBlocked, appVars, fileVars, serverVars>>

(* coordinator.startLoop throws when the worktree's loop runs; the catch     *)
(* then stops whatever loop the worktree has.  A paused loop is replaced,    *)
(* its timer stays set.                                                      *)
StartLoop(c) ==
    LET k == start[c].key
    IN  /\ start[c].at = "saved"
        /\ \/ ~IsRunning(k) /\ CreateLoop(k) /\ UNCHANGED armed
           \/ IsRunning(k) /\ DropLoop(k)
        /\ pendingLoopStarts' = pendingLoopStarts \ {k}
        /\ Return(c)
        /\ UNCHANGED <<trips, quotaBlocked, appVars, fileVars, serverVars>>

--------------------------------------------------------------------------------
(* stopAutoLoopForProject *)

(* Mutant of Stop: the file is left for the next start of the server. *)
StopKeepingFile(k) ==
    /\ HasState(k)
    /\ DropLoop(k)
    /\ UNCHANGED <<trips, unlinks>>

(* Up to the await of clearExecutionState.  The features the app runs are    *)
(* aborted: their runs end like any other.                                   *)
Stop(k) ==
    /\ HasState(k)
    /\ DropLoop(k)
    /\ unlinks' = unlinks + 1
    /\ UNCHANGED trips

StopAutoLoop(k) ==
    /\ Stop(k)
    /\ UNCHANGED <<startVars, quotaBlocked, appVars, executionState, serverVars>>

(* clearExecutionState: one file serves all worktrees of the app. *)
Unlink ==
    /\ unlinks > 0
    /\ unlinks' = unlinks - 1
    /\ executionState' \in {"none"} \cup (IF FilesFail THEN {executionState} ELSE {})
    /\ UNCHANGED <<loopVars, startVars, quotaBlocked, appVars, serverVars>>

--------------------------------------------------------------------------------
(* The circuit breaker.  Results are reported to a worktree and reach the    *)
(* loop it has at that time: a loop's own runs report to the loop's          *)
(* worktree, ExecutionService to the worktree of the feature's branch.       *)

(* recordSuccessForProject, on the map f. *)
RecordSuccess(f, k) == IF HasState(k) THEN [f EXCEPT ![loops[k]] = ResetFailures(@)] ELSE f

(* signalShouldPauseForProject sets isPaused and then calls pauseLoop, which *)
(* finds the loop paused already.  s is the loop with this failure counted.  *)
SignalShouldPause(f, k, s, type) ==
    /\ trips < MaxTrips
    /\ trips' = trips + 1
    /\ loop' = [f EXCEPT ![loops[k]] = [PauseLoop([s EXCEPT !.isPaused = TRUE], type)
                                         EXCEPT !.cooldownTimer = trips + 1]]
    /\ armed' = armed \cup {<<trips + 1, k>>}
    /\ quotaBlocked' = (quotaBlocked \/ type = "quota_exhausted")

(* trackFailureAndCheckPauseForProject on the map f.  A critical failure or  *)
(* an exhausted quota pauses at once and is not counted; trackFailure counts *)
(* the failures of the last minute, n with this one.                         *)
TrackFailure(f, k, n, type) ==
    LET s == [f[loops[k]] EXCEPT !.failures = n]
        shouldPause == type # "other" \/ n = FailureThreshold
    IN  /\ HasState(k)
        /\ IF type = "other" THEN n \in 1..(StateOf(k).failures + 1)
                             ELSE n = StateOf(k).failures
        /\ \/ /\ shouldPause /\ ~s.isPaused
              /\ SignalShouldPause(f, k, s, type)
           \/ /\ ~shouldPause \/ s.isPaused
              /\ loop' = [f EXCEPT ![loops[k]] = s]
              /\ UNCHANGED <<armed, trips, quotaBlocked>>
        /\ UNCHANGED loops

(* The map when loop i has one run less. *)
LastRun(i) == [loop EXCEPT ![i].runs = @ - 1]

RunSucceeds(i) ==
    /\ loop[i].runs > 0
    /\ loop' = RecordSuccess(LastRun(i), loop[i].key)
    /\ UNCHANGED <<loops, armed, trips, startVars, quotaBlocked, appVars, fileVars, serverVars>>

RunFails(i, n, type) ==
    /\ loop[i].runs > 0
    /\ TrackFailure(LastRun(i), loop[i].key, n, type)
    /\ UNCHANGED <<startVars, appVars, fileVars, serverVars>>

(* Blocked, cancelled, to be retried, or failed for a worktree without loop. *)
RunEnds(i) ==
    /\ loop[i].runs > 0
    /\ loop' = LastRun(i)
    /\ UNCHANGED <<loops, armed, trips, startVars, quotaBlocked, appVars, fileVars, serverVars>>

(* The reports of ExecutionService, which come before the run ends. *)
ReportSuccess(k) ==
    /\ loop' = RecordSuccess(loop, k)
    /\ UNCHANGED <<loops, armed, trips, startVars, quotaBlocked, appVars, fileVars, serverVars>>

ReportFailure(k, n, type) ==
    /\ TrackFailure(loop, k, n, type)
    /\ UNCHANGED <<startVars, appVars, fileVars, serverVars>>

(* autoResumeAfterCooldown on a loop that is gone, not paused any more, still *)
(* running, about to start, or paused for its quota.                          *)
CooldownSkips(t) ==
    LET k == t[2]
    IN  /\ t \in armed
        /\ armed' = armed \ {t}
        /\ \/ /\ HasState(k) => ~StateOf(k).isPaused
              /\ UNCHANGED loop
           \/ /\ HasState(k) /\ StateOf(k).isPaused
              /\ \/ IsRunning(k)
                 \/ k \in pendingLoopStarts
                 \/ StateOf(k).lastCircuitBreakerFailureType = "quota_exhausted"
              /\ loop' = [loop EXCEPT ![loops[k]].cooldownTimer = 0]
        /\ UNCHANGED <<loops, trips, startVars, quotaBlocked, appVars, fileVars, serverVars>>

CooldownResumes(t, c) ==
    LET k == t[2]
    IN  /\ t \in armed
        /\ armed' = armed \ {t}
        /\ HasState(k) /\ StateOf(k).isPaused
        /\ ~IsRunning(k) /\ k \notin pendingLoopStarts
        /\ StateOf(k).lastCircuitBreakerFailureType # "quota_exhausted"
        /\ loop' = [loop EXCEPT ![loops[k]] = [ResetFailures(@) EXCEPT !.cooldownTimer = 0]]
        /\ Enter(c, "gate", k)
        /\ UNCHANGED <<loops, trips, pendingLoopStarts, quotaBlocked, appVars, fileVars, serverVars>>

(* manualResumeAfterQuota: resetFailures clears isPaused before the test of  *)
(* isPaused that would start the loop.                                       *)
ManualResumeAfterQuota(k) ==
    /\ ExternalControl
    /\ quotaBlocked
    /\ quotaBlocked' = FALSE
    /\ \/ ~HasState(k) /\ UNCHANGED <<loop, armed>>
       \/ /\ HasState(k)
          /\ armed' = armed \ {<<StateOf(k).cooldownTimer, k>>}
          /\ loop' = [loop EXCEPT ![loops[k]] = [ResetFailures(@) EXCEPT !.cooldownTimer = 0]]
    /\ UNCHANGED <<loops, trips, startVars, appVars, fileVars, serverVars>>

--------------------------------------------------------------------------------
(* pauseAutoLoopForProject and resumeAutoLoopForProject *)

PauseAutoLoop(k) ==
    /\ ExternalControl
    /\ HasState(k)
    /\ loop' = [loop EXCEPT ![loops[k]] = PauseLoop(@, "none")]
    /\ UNCHANGED <<loops, armed, trips, startVars, quotaBlocked, appVars, fileVars, serverVars>>

CallResume(c, k) ==
    /\ ExternalControl
    /\ Enter(c, "resumeGate", k)
    /\ UNCHANGED <<loopVars, pendingLoopStarts, quotaBlocked, appVars, fileVars, serverVars>>

ReadResumeGate(c) ==
    /\ start[c].at = "resumeGate"
    /\ IF pausedProjects THEN Return(c) ELSE Move(c, "resumeGated")
    /\ UNCHANGED <<loopVars, pendingLoopStarts, quotaBlocked, appVars, fileVars, serverVars>>

(* resumeLoop replaces the state it finds, whether it is paused or not, and  *)
(* neither reads nor takes the claim of a start.                             *)
ResumeLoop(c) ==
    LET k == start[c].key
    IN  /\ start[c].at = "resumeGated"
        /\ \/ ~HasState(k) /\ UNCHANGED <<loops, loop, armed>>
           \/ /\ HasState(k)
              /\ armed' = armed \ {<<StateOf(k).cooldownTimer, k>>}
              /\ CreateLoop(k)
        /\ Return(c)
        /\ UNCHANGED <<trips, pendingLoopStarts, quotaBlocked, appVars, fileVars, serverVars>>

--------------------------------------------------------------------------------
(* FeatureScheduler.runLoop *)

MayContinue(i) == loop[i].isRunning /\ ~loop[i].aborted

MoveBody(i, to) ==
    /\ loop' = [loop EXCEPT ![i].body = to]
    /\ UNCHANGED <<loops, armed, trips, startVars, quotaBlocked, appVars, fileVars, serverVars>>

(* The while condition is false, or the stagger sleep ended in an abort.     *)
ExitLoop(i) ==
    /\ loop[i].body \in {"startup", "head", "gated"} /\ ~MayContinue(i)
    /\ loop' = [loop EXCEPT ![i].body = "exited", ![i].isRunning = FALSE]
    /\ UNCHANGED <<loops, armed, trips, startVars, quotaBlocked, appVars, fileVars, serverVars>>

(* The heap is full after the startup cooldown. *)
HeapStop(i) ==
    /\ loop[i].body = "startup" /\ MayContinue(i)
    /\ loop' = [loop EXCEPT ![i].body = "exited", ![i].isRunning = FALSE]
    /\ UNCHANGED <<loops, armed, trips, startVars, quotaBlocked, appVars, fileVars, serverVars>>

StartupEnds(i) ==
    /\ loop[i].body = "startup" /\ MayContinue(i)
    /\ MoveBody(i, "head")

(* Mutant of Iterate: the loop does not look at its own state. *)
IterateBlindly(i) ==
    /\ loop[i].body = "head"
    /\ MoveBody(i, "picking")

(* The while condition; counting agents and loading features await.          *)
Iterate(i) ==
    /\ loop[i].body = "head" /\ MayContinue(i)
    /\ MoveBody(i, "picking")

(* Capacity and quota.  The code counts the worktree's leases, so the runs   *)
(* of an earlier loop may hold it back further.                              *)
PassGates(i) ==
    /\ loop[i].body = "picking"
    /\ loop[i].runs < MaxRuns
    /\ ~quotaBlocked
    /\ MoveBody(i, "gated")

(* Any gate says no: heap, capacity, backlog, quota, review queue, hot files. *)
Defer(i) ==
    /\ loop[i].body \in {"picking", "gated"}
    /\ MoveBody(i, "head")

(* Nothing between the gates and the dispatch looks at isRunning again. *)
Dispatch(i) ==
    /\ loop[i].body = "gated"
    /\ loop' = [loop EXCEPT ![i].body = "head", ![i].runs = @ + 1,
                            ![i].ghosts = IF loop[i].aborted THEN @ + 1 ELSE @]
    /\ UNCHANGED <<loops, armed, trips, startVars, quotaBlocked, appVars, fileVars, serverVars>>

--------------------------------------------------------------------------------
(* ProjectPauseService *)

(* The registry is written first, then statuses of projects on the board. *)
RegisterPause ==
    /\ pausing.at = "idle" /\ pauses < MaxPauses
    /\ pausedProjects' = TRUE
    /\ pauses' = pauses + 1
    /\ pausing' = [at |-> "registered", todo |-> {}]
    /\ overtaken' = {start[c].key : c \in {d \in Callers : start[d].at \in PastGate}}
    /\ UNCHANGED <<loopVars, startVars, quotaBlocked, fileVars, serverVars>>

(* Mutant of PauseStops: the pause of an app stops the loop of its main worktree only. *)
PauseStopsMain(k) ==
    /\ pausing.at # "idle" /\ k = MainKey
    /\ Stop(k) \/ (~HasState(k) /\ UNCHANGED <<loopVars, unlinks>>)
    /\ pausing' = [at |-> "idle", todo |-> {}]
    /\ UNCHANGED <<startVars, quotaBlocked, pausedProjects, pauses, overtaken, executionState, serverVars>>

(* The running loops are listed once and stopped one after the other; with   *)
(* none running the main worktree is stopped.                                *)
PauseStops(k) ==
    LET running == {j \in Keys : IsRunning(j)}
        todo == IF pausing.at = "stopping" THEN pausing.todo
                ELSE IF running = {} THEN {MainKey} ELSE running
    IN  /\ pausing.at # "idle" /\ k \in todo
        /\ Stop(k) \/ (~HasState(k) /\ UNCHANGED <<loopVars, unlinks>>)
        /\ pausing' = IF todo = {k} THEN [at |-> "idle", todo |-> {}]
                      ELSE [at |-> "stopping", todo |-> todo \ {k}]
        /\ UNCHANGED <<startVars, quotaBlocked, pausedProjects, pauses, overtaken, executionState, serverVars>>

ResumeProject ==
    /\ pausedProjects
    /\ pausedProjects' = FALSE
    /\ UNCHANGED <<loopVars, startVars, quotaBlocked, pausing, pauses, overtaken, fileVars, serverVars>>

--------------------------------------------------------------------------------
(* Crash and restart of the server.  A graceful shutdown keeps the file too. *)

Crash ==
    /\ crashes < MaxCrashes
    /\ crashes' = crashes + 1
    /\ booted' = FALSE
    /\ loops' = [k \in Keys |-> 0]
    /\ loop' = [i \in Loops |-> IF loop[i].body = "unborn" THEN Unborn
                                ELSE [Unborn EXCEPT !.body = "exited", !.aborted = TRUE]]
    /\ armed' = {}
    /\ pendingLoopStarts' = {} /\ start' = [c \in Callers |-> Idle]
    /\ quotaBlocked' = FALSE
    /\ pausing' = [at |-> "idle", todo |-> {}]
    /\ overtaken' = {}
    /\ unlinks' = 0
    /\ UNCHANGED <<trips, pausedProjects, pauses, executionState>>

BootResumes(c) ==
    /\ ~booted /\ booted' = TRUE
    /\ executionState # "none" /\ ~pausedProjects
    /\ Enter(c, "gate", executionState)
    /\ UNCHANGED <<loopVars, pendingLoopStarts, quotaBlocked, appVars, fileVars, crashes>>

(* No file, a paused app, or no feature in the backlog. *)
BootSkips ==
    /\ ~booted /\ booted' = TRUE
    /\ UNCHANGED <<loopVars, startVars, quotaBlocked, appVars, fileVars, crashes>>

--------------------------------------------------------------------------------

StartStep(c) == GateRefuses(c) \/ GatePasses(c) \/ Claim(c) \/ SaveState(c) \/ StartLoop(c)
ResumeStep(c) == ReadResumeGate(c) \/ ResumeLoop(c)
Body(i) == ExitLoop(i) \/ HeapStop(i) \/ StartupEnds(i) \/ Iterate(i) \/ PassGates(i) \/ Defer(i) \/ Dispatch(i)
RunOutcome(i) == RunSucceeds(i) \/ RunEnds(i)
Failure(n, type) == (\E i \in Loops : RunFails(i, n, type)) \/ (\E k \in Keys : ReportFailure(k, n, type))

Next ==
    \/ \E c \in Callers : StartStep(c) \/ ResumeStep(c) \/ BootResumes(c)
    \/ \E c \in Callers, k \in Keys : CallStart(c, k) \/ CallResume(c, k)
    \/ \E k \in Keys : StopAutoLoop(k) \/ ManualResumeAfterQuota(k) \/ PauseAutoLoop(k) \/ PauseStops(k) \/ ReportSuccess(k)
    \/ \E t \in armed : CooldownSkips(t) \/ \E c \in Callers : CooldownResumes(t, c)
    \/ \E i \in Loops : Body(i) \/ RunOutcome(i)
    \/ \E n \in 0..FailureThreshold, type \in FailureTypes : Failure(n, type)
    \/ Unlink \/ RegisterPause \/ ResumeProject \/ Crash \/ BootSkips

Spec == Init /\ [][Next]_vars

(* Awaited promises settle: a start proceeds, and a loop's sleeps and gates  *)
(* come to an end.                                                           *)
Fairness ==
    /\ \A c \in Callers : WF_vars(StartStep(c))
    /\ \A i \in Loops : WF_vars(ExitLoop(i)) /\ WF_vars(PassGates(i) \/ Defer(i) \/ Dispatch(i))

FairSpec == Spec /\ Fairness

--------------------------------------------------------------------------------

TypeOK ==
    /\ loops \in [Keys -> 0..MaxLoops]
    /\ loop \in [Loops -> LoopStates]
    /\ armed \subseteq (1..MaxTrips) \X Keys
    /\ trips \in 0..MaxTrips
    /\ pendingLoopStarts \subseteq Keys
    /\ start \in [Callers -> [at : {"idle"} \cup InStart \cup InResume, key : Keys]]
    /\ {quotaBlocked, pausedProjects, booted} \subseteq BOOLEAN
    /\ pausing \in [at : {"idle", "registered", "stopping"}, todo : SUBSET Keys]
    /\ overtaken \subseteq Keys
    /\ pauses \in 0..MaxPauses /\ crashes \in 0..MaxCrashes
    /\ executionState \in Keys \cup {"none"}
    /\ unlinks \in Nat

(* A loop that runs is the one the coordinator's map holds for its worktree. *)
(* Otherwise no stop, pause or shutdown could reach it, and two loops would  *)
(* dispatch from one backlog.                                                *)
LiveLoopIsReachable == \A i \in Loops : loop[i].isRunning => loops[loop[i].key] = i

(* pendingLoopStarts is a lock per worktree: each claim belongs to exactly   *)
(* one start between its claim and its finally.                              *)
Holders == {c \in Callers : start[c].at \in {"claimed", "saved"}}
ClaimsAreExclusive ==
    /\ pendingLoopStarts = {start[c].key : c \in Holders}
    /\ \A c, d \in Holders : start[c].key = start[d].key => c = d

(* The catch of startAutoLoopForProject stops the worktree's loop.  No start *)
(* may thereby stop a loop that another call started.                        *)
StartStopsNoLoop ==
    [][(\E c \in Callers : start[c].at = "saved" /\ start'[c].at = "idle" /\ crashes' = crashes)
        => \A i \in Loops : loop[i].isRunning => loop'[i].isRunning]_vars

(* A stopped loop starts at most one more feature: the one it had selected.  *)
AtMostOneGhost == \A i \in Loops : loop[i].ghosts <= 1

(* The execution-state file is the sign of a crash.  In a server that never  *)
(* crashed it is there only while some worktree has a loop, or a start or a  *)
(* stop is about to rewrite it.                                              *)
FileMeansLoop ==
    (crashes = 0 /\ executionState # "none" /\ unlinks = 0)
        => \/ \E k \in Keys : HasState(k)
           \/ \E c \in Callers : start[c].at = "saved"

(* A pause that has run to its end holds: while the app is in the registry,  *)
(* no loop of it runs, whether a second start, a cooldown timer or a restart *)
(* of the server asks for one.  The gate is read an await before the claim   *)
(* and two before the loop, and the loops to stop are listed once, so one    *)
(* kind of loop escapes: that of a worktree for which a start had passed the *)
(* gate when the registry was written.                                       *)
PauseHolds ==
    (pausedProjects /\ pausing.at = "idle")
        => \A i \in Loops : loop[i].isRunning => loop[i].key \in overtaken

(* A loop that was told to stop leaves runLoop.                              *)
StoppedLoopsExit == \A i \in Loops : loop[i].aborted ~> (loop[i].body = "exited")

(* A claim is given back whatever happens to the start: a worktree never     *)
(* stays "already running" without a loop.                                   *)
ClaimsAreReleased == \A k \in Keys : (k \in pendingLoopStarts) ~> (k \notin pendingLoopStarts)

================================================================================
