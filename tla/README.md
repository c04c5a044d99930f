# A formal model of protoMaker's auto mode

protoMaker (protoLabs Studio) is a server that runs coding agents against a board of
features. *Auto mode* takes features from the backlog of an app, runs an agent for each,
and drives each one through a pipeline of phases until its pull request is merged or a
human is asked. This directory models the part of the server that decides *what may run,
what is done, who is asked and what survives a crash*: the auto-mode loops, the semaphore
that bounds the agents, the runs and the pipeline of a feature with its checkpoint, the
phase processors with the board and GitHub around them, the dependencies between features,
the forms that ask a human, and the completions that follow when features are done. It is
all one Node.js process: concurrency means handlers that interleave at each `await`, timers
that fire later, promises nobody waits for, files that lag behind the memory, other writers
of the board, and a process that can die between any two steps.

Contents: [inventory](#inventory) · [modules](#modules-and-how-they-correspond-to-the-code) ·
[runs](#runs-bounds-and-what-they-show) · [fairness](#fairness) · [proofs](#proofs) ·
[disagreements](#disagreements) · [plan](#plan) · [not modelled](#not-modelled)

To repeat the checks, with the TLA+ tools on the path:

    tlc -workers 2 -config MCAutoLoop.cfg MCAutoLoop
    tlapm AutoLoopProofs.tla

## Inventory

Paths are relative to `apps/server/src/services/` unless they say otherwise.

| Component | State it keeps | Operations | What is hard about it |
|---|---|---|---|
| **Global agent semaphore** `auto-mode/global-agent-semaphore.ts` | active count, queue of waiters | `acquire`, the release closure, `drain` | the cap is read with an `await` before the count is compared with it; drains run in the background; the cap moves |
| **Auto-loop coordinator** `auto-mode/auto-loop-coordinator.ts` | one `LoopState` per worktree: running, paused, abort controller, failures, cooldown timer | `startLoop`, `stopLoop`, `pauseLoop`, `resumeLoop`, `trackFailure`, `resetFailures` | the body of a stopped loop lives on until it looks at its flags |
| **Auto-mode service** `auto-mode-service.ts` | starts under way, quota set, running features, leases, retry timers, `execution-state.json` | start, stop, pause and resume of a loop, circuit breaker and cooldown, execution and stop of features, shutdown | every entry point awaits between its checks and its effects; one file for all worktrees |
| **Feature scheduler** `feature-scheduler.ts` | features being started, per loop | `runLoop`: gates, selection, stagger, dispatch, outcomes; `loadPendingFeatures`, which also repairs the board | dozens of awaits between the loop condition and the dispatch; writes from a snapshot of the board |
| **App pause registry** `project-pause-service.ts` | paused apps in the settings file | `pauseProject`, `resumeProject` | must hold against starts under way, timers and restarts |
| **Start-up** `../server/startup.ts` | — | resumes the loops recorded in the files | works from what a crash left |
| **Lead-engineer state machine** `lead-engineer-state-machine.ts` | current phase, two budgets, context, a queue of saves | `processFeature` | entry and exit gates, self-transitions, suspension, escalation, saves in the background |
| **Pipeline checkpoints** `pipeline-checkpoint-service.ts` | one JSON file per feature | `save`, `load`, `delete` | saves lag behind, a crash leaves temporary files |
| **Lead-engineer service** `lead-engineer-service.ts` | sessions | `process` and event handlers | resumes from a checkpoint; nothing stops two calls for one feature |
| **Phase processors** `lead-engineer-*-processor*.ts`, `lead-engineer-escalation.ts` | counters in the context, the board, pull requests | one `process` per phase | polling, retries, remediation budgets, reads of the board and of GitHub that are stale when they are acted on |
| **Atomic writer** `libs/utils/src/atomic-writer.ts` | files | write by temporary file and rename, read with recovery | recovery of what a crash left |
| **Concurrency manager** `auto-mode/concurrency-manager.ts` | reference-counted lease per feature | `acquire`, `release`, sweeps | leases outlive and are outlived by the runs they stand for |
| **Execution service** `auto-mode/execution-service.ts`, `post-execution-middleware.ts`, `feature-state-manager.ts` | running features, retry timers, statuses on the board | `executeFeature`, retries, cleanup | races with stop, with retries, with a human who sets a status |
| **Dependency resolver and gate** `libs/dependency-resolver/src/resolver.ts`, the scheduler's and INTAKE's checks, `libs/tools/src/domains/features/set-dependencies.ts`, `feature-health-service.ts` | `dependencies`, `status` and the reason of a block on each feature | sort, cycles, satisfied and blocking dependencies, `set_dependencies`, the update route, the listener of `feature:deleted`, the sweep of orphaned references | three gates ask three different questions, of snapshots taken at different times, while the graph is edited: by `set_dependencies`, which looks for cycles, by the update route and the MCP tool that posts to it, which do not, and by the sweep and the listener of deletions, which write what they read earlier |
| **HITL forms** `hitl-form-service.ts` | a map of forms, `hitl-forms.json`, a clean-up timer | create, look up, list, submit, cancel, clean up, load, shut down | unserialised saves that hold the live objects; a loader that merges while requests are served |
| **Completion detector** `completion-detector-service.ts` and **project service** `project-service.ts` | three Sets of what was announced, `completion-emitted.jsonl`, cached project objects, `project.json` | `onFeatureDone`, the checks of epic, milestone and project, `retryEpicCompletion` | nobody waits for a call, so calls interleave at each `await`; claimed in memory, written, announced and logged one after the other; `project.json` is written in place |

How they interact. The start-up code, the HTTP routes and the cooldown timers call
`startAutoLoopForProject`, which asks the pause registry, claims the worktree, writes the
execution-state file and has the coordinator create a `LoopState` whose body is
`FeatureScheduler.runLoop`. The body passes its gates, loads the board (repairing it as it
goes), selects a feature whose dependencies are met and dispatches it without waiting for it;
`LeadEngineerService.process` then loads the checkpoint and runs the state machine, whose
EXECUTE processor asks `AutoModeService.executeFeature` for an agent; each agent takes a slot
of the global semaphore. REVIEW and MERGE poll and act on GitHub, whose webhook writes the same
board; ESCALATE blocks the feature and may put a HITL form before a human. Outcomes come back to
the worktree's loop twice, through the scheduler and through the execution service, and feed the
circuit breaker, which pauses the loop and sets a timer to restart it. Each status that becomes
`done` starts a call of the completion detector, which completes epics (by a pull request of
their own), milestones and projects, and each of those may again be what others depend on.
`pauseProject` writes the registry and stops the loops it finds.

What makes each part correct:

* *semaphore*: never more slots than the ceiling, none lost or freed twice, no waiter forgotten,
  nobody waits while a slot is free, everybody is served;
* *loops*: one live loop per worktree and that one reachable by stop; claims are a lock; a start
  stops nobody's loop; a stopped loop ends and dispatches nothing more than it had selected; a
  paused app stays paused, but for starts that had passed the gate; the execution-state file tells the truth after a crash;
* *pipeline*: the pull-request gate cannot be evaded; a crash loses no phase; one escalation per
  call; every call ends, unless its ESCALATE goes on throwing;
* *phases*: done means merged; only what a review approved is merged; a finished feature is left
  alone by everything that begins after it was finished;
* *execution*: one agent per feature at a time; an entry and a lease that somebody will still give
  back; a feature that is not left in `in_progress` by a run that has ended;
* *dependencies*: the order respects them, cycles are found where there are some; nothing starts
  before what it waits for, nothing is refused for a reason that is gone, a cycle takes a write that
  did not look at the graph or whose look was overtaken, and everything gets its turn;
* *forms*: the file follows the map, an answer is routed once, an open form survives a
  restart that can read the file;
* *completion*: what is claimed gets announced, once, after it was written, and then stays so.

`PROJECT.json` lists every component with what is left out of it, and the hazards at their lines.

## Modules and how they correspond to the code

| Module | Stands for | EXTENDS / INSTANCE |
|---|---|---|
| `AgentPool` | what the semaphore promises: ask, be granted, end; a ceiling | |
| `AgentSemaphore` | `GlobalAgentSemaphore` | `INSTANCE AgentPool WITH` its refinement mapping |
| `AutoLoop` | the loops of one app: coordinator, start/stop/pause/resume, breaker, `runLoop`, pause registry, execution-state file, restart | |
| `FeatureStateMachine` | the pipeline of one feature: `process`, `processFeature`, `PersistQueue`, checkpoint file, crash | |
| `FeaturePhases` | what the phase processors and the others do to one feature's board entry, pull requests, context and checkpoint | |
| `FeatureExecution` | the runs of one feature: lease, entry of `runningFeatures`, retry timers, follow-ups, stops, the status on disk | |
| `DependencyGraph` | graphs of dependencies, what a feature reaches, what the searches look for | |
| `DependencyOrder` | what the order of `resolveDependencies` promises: place one that is ready, of the smallest number; then the rest | `EXTENDS DependencyGraph` |
| `DependencyResolver` | `resolveDependencies` and `wouldCreateCircularDependency`: one step per round of the loop and per move of a search | `EXTENDS DependencyGraph`; `INSTANCE DependencyOrder WITH` its refinement mapping |
| `DependencyGate` | when a feature may start: the gates, the sweep and the edits of the graph | `EXTENDS DependencyGraph` |
| `HITLForms` | `HITLFormService` for the forms of one feature of one project | |
| `CompletionDetector` | `CompletionDetectorService`, the part of `ProjectService` it writes through, the ledger | |
| `…Proofs` | the theorems of the module, see [proofs](#proofs) | `EXTENDS` the module |
| `MC…` | small constants and symmetry for TLC | `EXTENDS` the module |

In all of them **an action is the code between two awaits**: whatever runs without an `await`
is one step, however many functions it goes through, and whatever lies on both sides of one is
two, so that everything else can happen in between. A call under way is a record that says where
it is (`at`) and its local variables. Names are the source's. Operators called *mutant* are
variants of a definition with a plausible mistake in it; no specification uses them, they show
that a property would notice.

**AgentSemaphore.** `activeCount`, `queue` are the fields. A launch is *called* (the `await` of the
cap), then takes a slot or is queued, runs, and releases once; a release starts a drain, which
reads the cap across an `await` of its own and then wakes as many waiters as fit in one
synchronous loop. `decided` is the cap by which the last queueing caller or drain went. The cap is drawn from `Settings` whenever it is read and clamped as `readCap`
clamps it.

**AutoLoop.** `loops` is the coordinator's map from worktrees; since a loop that left the map still
has a body, timers and runs, all loops ever created are numbered and `loop[i]` holds the
`LoopState`, the position of the body in `runLoop` (`startup`, `head` of the while, `picking`
across the gates, `gated` after the selection) and how many runs it has dispatched.
`start[c]` is a call of `startAutoLoopForProject` (`gate` → `gated` → `claimed` → `saved`) or of
`resumeAutoLoopForProject`. `armed` holds the cooldown timers that are set, with the worktree
they will restart. `executionState` is the file. `pausing` is a call of `pauseProject`, which writes the
registry and then stops, one after the other, the loops it has listed; `overtaken` are the worktrees for which
a start had passed the gate by then. The sliding window of the breaker is
abstracted to the number of failures still inside it, which may shrink before each count.

**FeatureStateMachine.** `call[c]` is a call of `process` with the locals of `processFeature`.
From the return of a processor to the call of the next the code does not await, so `Process` is
one action: exit gate, save, transition, budget, entry gate, save (`Advance`, `Follow`, `Loop`).
`queue[c]` and `flight[c]` are the `PersistQueue` of the call; `checkpoint` and `temps` are the
file and the temporary files that crashes left. A processor is the set of results it can return;
whether a pull request exists when EXECUTE returns is nondeterministic, except that EXECUTE itself
goes to REVIEW only with one. `CustomExecute` covers a workflow that names another phase's
processor for EXECUTE, as workflow files may.

**FeaturePhases.** The converse cut: the loop is a sequence and a save immediate, and the
processors are opened up. `status`, `link` (`prNumber`), `mergedAt` and `stamp`
(`reviewStartedAt`) are the feature on the board; `pr` the pull requests of its branch on GitHub,
with `seen` for one that a look of REVIEW has called approved; `lead` the call of `process` with the
counters of its `StateContext`; `checkpoint` what of that survives. A processor that waits for
GitHub, for an agent or for the board between a read and the write that rests on it is split
there: EXECUTE reads the status, then asks for an open pull request (`found`: it goes to REVIEW with that one),
looks at the plan, the pre-flight check and the gate (`clear`) and runs its `agent`, and each of these may end in a
write. In between act `loadPendingFeatures` (merged, closed, open pull requests), the webhook,
auto-decay, `resetToBacklog`, people on the board and on GitHub, and a crash.

**FeatureExecution.** `lease` is the `leaseCount` of the feature's lease in `ConcurrencyManager` and
`entry` names the run whose object `runningFeatures` holds; the two are written by different layers,
and what the module is about is that they disagree. `run[r]` is a call of
`ExecutionService.executeFeature` with the `AutoModeService` frames around it, or of
`followUpFeature`: `entered` (entry taken, feature being loaded), `resuming` (delegated to
`resumeFeature`), `preparing` (worktree, authority), `agent`, then the branches of the catch block
`exhausted` (loop or turn limit), `failing`, `delaying` (the recovery delay), `aborting`, and
`cleanup` (the middleware), `returning` (the `finally` that releases); a follow-up goes `joining`,
`joined`, `agent`, `cleanup`. `leases` counts the releases its frames still owe. `timer` holds the
callbacks that will run: `relaunch` and `reset` are `setTimeout`s, of which the map `retryTimers`
can cancel the last, `immediate` is a `setImmediate`, which nothing can cancel. `output` is an
`agent-output.md` that is recent enough to be resumed from. The statuses that no guard of
these functions tells apart (backlog, review, blocked, failed, waiting for approval) are one,
`open`. The history variable `seen` keeps the strongest interference so far (`Nothing`, a `Denial`
by the authority service, a `Stop`, a `FollowUp`): the properties say under which interference
they hold, and each fails under the next one. The flag `isAutoMode` is `FALSE` on every path that
still has a caller, so the branches under it are left out.

**DependencyGraph, DependencyOrder, DependencyResolver, DependencyGate.** The properties and the
gates see a graph as a map from features to the *sets* of ids they depend on; what a feature reaches
is the least closed set that holds its dependencies. `DependencyResolver` runs Kahn's algorithm a
round at a time, with the degrees it counts down and the array it sorts stably by priority, and then
the searches, over arrays of ids in their order. `calls` holds the calls of `dfs` or `canReach` that
have not returned, each with the dependency it looks at next; `visited`, `recursionStack` and
`currentPath` are the variables of that name, which a call that returns early leaves as they are. The
search for descendants keeps its queue as a set (`pending`), since the count does not depend on the
order; the question (`from`, `to`) is asked of the same features when they are sorted.
`DependencyOrder` has neither degrees nor a queue, nor searches, and takes one of the ready features of the smallest number.
`DependencyGate` puts several features on one board: a `pass` of the scheduler over its
snapshot, a `call` of `process` through INTAKE, calls of `set_dependencies` that check first and
write later (`setDependencies` of `libs/tools`, which no code of the server calls today), the `sweep` of orphaned
references, deletions with the listener that hears of each (`tidy`), the update route, which writes a status (`Moves`) or
any dependencies (`Rewrites`), and people. A call whose feature is deleted stays where ESCALATE throws. Its three gates are the
code's: a dependency is *satisfied* (`areDependenciesSatisfied`), *not blocking*
(`getBlockingDependencies`), or *done* (the re-evaluation of blocked features). What happens
between a start and the merge is `FeaturePhases`; how a loop gets as far as a pass is `AutoLoop`.

**HITLForms.** `form` is the map, `disk` the forms that `hitl-forms.json` calls pending. A save
reads the map into a list of the *objects*, waits for the directory, turns them into text, writes
a temporary file and renames it: a form that changes before the text is made changes in the save
too, so a save holds objects first and a text later, and several saves overtake one another and
may fail. `loader` reads the file while requests are already served and merges what it read, or finds it unreadable
and takes it for empty (`unread` names the forms that were in it);
`closed` is a shutdown, which clears the map after its last save has begun.

**CompletionDetector.** `owed` are the events whose calls have not begun to look, `call[c]` the others
with the milestones they still have to look at (`later`). `claimed` are the three Sets, `ledger` the
lines that the last restart found; a line is appended without waiting, so a restart may miss any of
them. The cached object of the project is shared, so a milestone that is marked shows at once to
whoever makes a text from it (`mdone`), while its `status` travels in copies (`held`). `project.json` is written in
place: the file is emptied, filled, and then, after `project.md`, the cache is replaced (`Open`, `Land`, `Cached`, and the
same for the other writers). `file` is therefore the set of texts it may hold, `Torn` among them: two writers at once
may leave either text or a mixture, and a crash picks one; after it `getProject` throws when the file is torn. `pr` follows the epic's
pull request and the webhook of its end: a merge is first handled as that of any branch (`MergeRead`,
`MergeInspected`: done, or blocked when it has no source files), then, if the branch is named `epic/…`, once more
(`MergeSettles`, `EpicLands`); a handler that dies or throws is delivered again.

## Runs, bounds and what they show

| Run (cfg) | Instance | Shows |
|---|---|---|
| `semaphore` (`MCAgentSemaphore`) | 4 launches, ceiling 2, the cap unset, 1 or 3 and moving; fairness | `SlotsConserved`, `QueueHoldsWaiters`, `NoLostWakeup`, `WorkConserving`; `ImplementsPool`, the refinement of `AgentPool`; `EveryLaunchRuns` although newcomers overtake the queue |
| `autoloop` (`MCAutoLoop`) | 2 worktrees of one app, 2 concurrent starts, 2 loops, a trip, a pause, a crash | `LiveLoopIsReachable`, `ClaimsAreExclusive`, `AtMostOneGhost`, `FileMeansLoop`; `PauseHolds`: a pause that has run to its end holds, over timers, second starts and the restart, but for a start that had passed the gate; `StartStopsNoLoop` |
| `autoloop_external` (`MCAutoLoopExternal`) | 1 worktree, the public methods no part of the server calls; fairness | stopped loops exit (`StoppedLoopsExit`), claims are given back (`ClaimsAreReleased`) |
| `feature` (`MCFeatureStateMachine`) | 2 calls in sequence, the built-in workflows, saves that succeed, a crash; fairness | `CheckpointIsCurrent`; `EveryCallEnds`, with the exception of a call whose ESCALATE goes on throwing |
| `feature_overlap` (`MCFeatureStateMachineOverlap`) | 2 calls at once, all workflows that ship, failing saves, a crash | `ReviewHasPr`, `EscalatesOnce` |
| `execution` (`MCFeatureExecution`) | 2 runs, 2 timers, 1 stop, all interference | `EntryIsAlive`: no entry is left behind that would refuse the feature for ever; `OneLiveAgent`; `LeaseIsBacked`; `OnlyContextStrands`: the delegation to `resumeFeature` is the only exit that leaves `in_progress` |
| `phases` (`MCFeaturePhases`) | 2 pull requests, one of each retry, 2 rounds of remediation, crashes | `DoneMeansMerged`, `MergesWereApproved`; `DoneStands`: a `done` is taken away only by a write whose call had read the status before |
| `hitl` (`MCHITLForms`) | 2 forms, 2 creators, 3 saves at once, a loader that may fail, a crash or shutdown | `DiskFollowsMemory`, `AnsweredOnce`; `OpenFormSurvives`, but for the forms of a file that could not be read |
| `completion` (`MCCompletionDetector`) | a milestone with an epic with a child, 2 calls, another writer of the project, the webhook with its redelivery, a restart or a reopening; after a disturbance the other writer rests (`Rested`) | `ClaimIsHonoured`, `RepeatsNeedARace`, `AnnouncedEpicStands`; `ProjectStaysCompleted`, in the cache and in whatever `project.json` may hold |
| `resolver` (`MCDependencyResolver`) | every graph of 3 features with up to 2 dependencies each, an unknown id among them, 2 priorities | `OrderRespectsDependencies`, `PriorityDecides`, `CyclesAreFound`, `SearchesAreExact`, against definitions by closed sets, of every step of the searches |
| `gate` (`MCDependencyGate`) | a foundation and a feature, 2 concurrent `set_dependencies`, 1 dependency each, 2 edits, the update route and a deletion among them | `CyclesAreUnchecked`, `StartsNeedTheirDeps`, `RefusalsNeedAChange`: what a check has promised holds unless the board changed under it |
| `gate_live` (`MCDependencyGateLive`) | 3 features, one of them an epic of another, 1 edit; fairness | `Progress`: when what is in review gets merged and nothing stays blocked, every feature is done in the end, also one whose dependency was deleted: the listener may free it, the sweep does |

The runs have between about a hundred thousand and six and a half million states each. Each module states its types as
`TypeOK`; for the modules with proofs `TypeOK` is proved and no run spends time on it.

*Why the bounds are enough.* Two callers are the least with which two starts race; two loops let a
loop be replaced while its predecessor's body and timers live on; two worktrees are what one file
and one registry entry must be shared by; the second call of `process` resumes from what the crash
of the first left. Two runs of a feature let a run unwind (or retry, or wait for its recovery
delay) while its successor works, and two timers let the map lose one of them. `MaxTransitions` is
3 or 6 instead of 20 and `MaxSameState` 1 or 2 instead of 100: the code compares with them and
does nothing else, and a budget of 6 lets a feature cross all its phases. `FailureThreshold` is 1
instead of 3, `MaxRetries` 1 instead of 2 and 3. A second pull request is what the first one is
confused with (the board names one, GitHub has another, MERGE is resumed with a third number); the
retries and cycles of `phases` are compared with and nothing else. Three saves of the forms are the
least of which the second overtakes the first while a third has yet to make its text. Two calls of
the detector are what every race in it needs, and one epic, one milestone and one project are all
the kinds of key. Three features are the least with a feature that depends on a cycle, with a
cycle that is not a pair, with two ways to reach the same feature, and with a search that goes on after a
cycle with what it has left on its stack; with two a race of two
`set_dependencies` can already close a cycle. An epic has one pull request at a time until the webhook of its end has been
handled, and none after it has landed.
The theorems hold without these bounds.

`MaxLoops`, `MaxTrips`, `MaxPauses`, `MaxCrashes`, `MaxCalls`, `MaxLease`, `MaxPrs`, `MaxStops`,
`MaxMishaps`, `MaxDeps`, `MaxLinks` and `MaxEdits` (which also counts the dependencies written by the update
route) are bounds of the model, as are `MaxBacklog` (a processor
that returns while the PersistQueue holds that many saves is not looked at), the number of
`Timers` (a run schedules a retry only while one is left for it), of `Stoppers` (a feature that
becomes `done` is stopped only while one is idle) and of `Saves` (a form is written only while one
is idle), the two events that `owed` counts at most for an item, and `Room` in `AutoLoop` (a call of
start is only made while a loop is left for it, so that a start never blocks for want of a number). `Rested` is a
state constraint of `completion`: once the history `disturbed` is set, states in which the other writer of the project is at
work are not followed. Three of the four invariants say nothing of what comes after a disturbance, and the
fourth, `ClaimIsHonoured`, does not read what that writer writes.

`CHECK_DEADLOCK FALSE` stands where the instance really stops: the calls of `process` are bounded
(`feature`, `feature_overlap`), a finished feature that nobody touches (`phases`), every feature
done and the edits spent (`gate`, `gate_live`), a function that has returned (`resolver`), everything done or
`project.json` unreadable (`completion`).

## Fairness

Only what the event loop gives: a promise that is awaited settles, and the code after it then
runs. `AgentSemaphore` assumes it of each launch's own steps and of the drains; `AutoLoop` of each
start and of the sleeps and gates of each loop body (a body that is at the head of a loop need not
be selected fairly: what is shown is that a stopped loop leaves); `FeatureStateMachine` of each
call (processors have timeouts of their own) and of the PersistQueue; `DependencyGate` of the pass
of a loop that runs, of the health sweep, which is a timer, and of each feature's call with its
agent. No fairness is assumed of timers of the breaker, stops, pauses, administrators, people,
`set_dependencies`, the listener of deletions, merges or outcomes: `Progress` is a claim about behaviours in which what is in
review leaves it and nothing stays blocked. `FeatureExecution`, `FeaturePhases`, `HITLForms`,
`CompletionDetector` and `DependencyResolver` have safety properties alone.

## Proofs

`tlapm` checks every leaf; nothing is left unproved. The assumptions are those on the constants in
the modules (`…Assumption`), and those that a theorem states itself. Each invariant below was first
checked by TLC on the instances of the runs.

**AgentSemaphoreProofs**: for any number of launches, any ceiling and settings. `IInv` strengthens
the types with the bookkeeping that makes the others inductive: who is counted, that the queue has
no duplicates and consists of the suspended callers, and where drains are. From it follow
`TypeCorrect`, `SlotsAreConserved`, `QueueIsExact`, `WakeupsAreNotLost`, `NoIdleCapacity` (of the cap
by which the last decision went, however the setting moves). `SemaphoreImplementsPool` shows that every step maps to a step of `AgentPool`
or to a stutter, a drain to a `Grant` of all it wakes.

**AutoLoopProofs**: for any worktrees, callers and bounds. `TypeCorrect`; `ClaimsExclusive`, which is
inductive with the types; `LiveLoopsReachable` and `StartsStopNoLoop`, which need one another: a
start that holds the claim of a worktree finds no running loop there, which holds because only the
holder of the claim creates a loop, and a loop that runs without being the worktree's would have been
left behind by one of them. Both assume `~ExternalControl`: `resumeAutoLoopForProject` takes no claim
and replaces a running loop, but nothing in the server calls it. `OneGhost` rests on
`GhostsAreLast`: a loop that was stopped and has dispatched since is at its head or out, and from the
head nothing that was stopped gets further. `FilesMeanLoops` (under `~ExternalControl` and
`~FilesFail`) rests on the same claim: a start that has written the file finds no loop to stop, so
it creates one. `PausesHold` (under `~ExternalControl`) needs `LiveLoopIsReachable`: a pause lists the loops of the
registry's map, so a running loop outside it would escape; `PauseInv` adds that each loop that runs during
a pause is listed or belongs to a worktree in `overtaken`, and that a start beyond its gate is of such a worktree.

**FeatureStateMachineProofs**: for any workflows, budgets, calls and crashes. `TypeCorrect` says that
the budgets are never exceeded. `OneEscalation` follows from a local bound (`Once`). `ShippedHasPr`
needs the invariant `Passed`: whatever is past the exit gate — a call, a save in a queue or in
flight, the file, a temporary file — carries the gate's mark; a resumed call inherits it. It assumes
`ShippingWorkflows`: every workflow with a shipping phase has EXECUTE and one of REVIEW and MERGE. A
workflow that ships without EXECUTE, or by DEPLOY alone, does let a feature past the gate.
`CheckpointFollows` (under `~SavesFail`, which by `StealingAssumption` excludes overlapping calls)
needs `Serial`, that calls follow each other, and `Kept`, what their pending saves will have written
once they are through.

**FeatureExecutionProofs**: for any runs, timers, stoppers, leases and retries. `Frames` says what a
run in each place still owes and may assume of the entry; `Alone` that until somebody is stopped a
run at work has the entry; `FollowUpsAreSeen` that the history is honest; `Moves` and `Resets` name,
for a feature left in progress, the run or timer that will move it. `Sound` and `Steady` are what a
step has to show of one run, and there is one lemma for each action. Theorems: `TypeCorrect`,
`EntryStaysAlive`, `NoTwoAgents`, `LeasesAreBacked`, `ContextAloneStrands`.

**FeaturePhasesProofs**: for any number of pull requests and any limits. `Budgeted` bounds the
counters that a resume brings back, at each of EXECUTE's places; `Finding` says that the pull request EXECUTE has found exists; `Evidence` says what each place of a call that leads to `done`
knows (a merged pull request, or one that it will still look for); `Approvals` what each place that
leads to a merge knows of the pull request it holds; `Unraced` that a call which did not meet a
`done` has not read one. Theorems: `TypeCorrect`, `DoneIsMerged`, `MergesApproved`, `DoneIsKept`.

**HITLFormsProofs**: for any forms, callers, saves and restarts. For each form either the file is right or a
save under way will make it right, and every save that would make it wrong is followed by such a
one: `AnsweredAt`, `OpenAt` and `CurrentAt` say this for the three properties, over the order in
which saves began (`older`). `Untouched`: until the loader is done, what it has read is still in the file, unless the file is
behind; what it could not read is in `unread`. `Honest`: the histories are. Theorems: `TypeCorrect`, `DiskFollows`,
`AnswersAreUnique`, `OpenFormsSurvive`.

**CompletionDetectorProofs**: for any board, calls, writers and mishaps. `KeysFit`: a call at work on an
epic, a milestone or the project carries its key. `Honest`: what is claimed has been announced or will
be, which becomes inductive when it is said of the ledger too, since the Sets of the next process are
read from it. `Down`: before that nothing is under way. Unless `disturbed`, `Orderly` says for each of
the three levels that nobody looks at what is claimed and one call announces it, that the board and
`project.json` said so before the announcement, and that no call under way will take it back; for the
project this follows a lone writer through its steps (copy, text, emptied file, filled file, cache), of every text the
file may hold. `Unread`: nobody writes a project that could not be read; `Standing` are the announced epics that no
webhook has returned, and `EpicsStand` follows each through the looks of its webhook. Theorems:
`TypeCorrect`, `ClaimsHonoured`, `RepeatsRace`, `EpicStands`, `ProjectStays`.

**DependencyProofs**: four arguments over the same lemmas about graphs. *Gates*, for any features,
epics, foundations, setters and edits: `GateInv` says of each look at the board whose owner `changed`
does not name that it is still true: of the copy and the board of a call that INTAKE has cleared
(`ClearedHold`), of a call of the loop up to there (`AutoHold`), of the snapshot of a pass
(`PassHolds`, to which its own writes do no harm, as what they unblock is not done), of a
`set_dependencies` that has checked (`SettingsHold`), of the sweep (`SweepHolds`) and of the listener of deletions
(`TidyHolds`, with `ToldIsEmpty`). `FewerNeeds` and
`NewNeeds` say which changes of a graph cannot close a cycle. Theorems: `GateTypeCorrect`,
`StartsHaveDeps`, `RefusalsAreChanges`, `CyclesNeedUnchecked`. *Refinement*, for any array, links, unknown ids
and priorities: `Counted` says that a degree is the number of dependencies not yet placed, so that the
queue is exactly what is ready, the smallest number first; each round is then one that
`DependencyOrder` allows. Theorem: `ResolverSorts`; no run checks `SortsInOrder`, whose two
consequences `resolver` checks. *Order*, of what `DependencyOrder` allows:
`Growing` says that each feature was placed when all its dependencies were and nothing ready had a
smaller number; so the features before the i-th are closed, and hold all it reaches. That the loop
leaves nothing but cycles and what depends on them (`SortableTaken`) is by well-foundedness: of the
others that are left the one that reaches least would be ready. By the refinement these hold of what
`resolveDependencies` returns. Theorems: `DependenciesFirst`, `PriorityOrders`. *Searches*, with the same
constants: an invariant takes the place of the induction over what a recursive call returns. `DfsInv`:
as long as no cycle is found the calls are the path (`PathIsStack`); what a call has looked at is explored, but
for the dependency that the next call is for, so that each id on the path reaches all after it
(`CallsLooked`); and what is explored has only explored dependencies and does not reach itself
(`ExploredStand`). So a dependency on the stack closes a cycle, and when nothing is left no explored
feature is on one; that none of the sorted features is follows from *Order*. After the first cycle the calls
are no more than the end of the path, which is why the property speaks of the first. `CountInv` and
`AskInv`: what is visited reaches the source, or is reached from it, and what is not pending, or not under
a call, has all its neighbours visited, so that at the end the visited are a closed set. Theorems:
`CyclesFound`, `SearchesFindAll`, and what the callers take from them, which no run checks as it follows
from what `resolver` checks: `NoCycleMeansOrder` (without a reported cycle everything comes after what it
depends on) and `AnswersAreRight` (`canReach` says yes exactly when the new dependency would make the
graph cyclic).

*Only model-checked*: liveness (`EveryLaunchRuns`, `StoppedLoopsExit`, `ClaimsAreReleased`,
`EveryCallEnds`, `Progress`), which is out of the prover's reach. Every invariant and action property
that a run checks is also a theorem.

## Disagreements

Where the code and its documentation, or two parts of the code, disagree. The models have what the
code does; no property claims the opposite. Files are those of the inventory.

*Loops and runs*
- The breaker sets `isPaused` (`auto-mode-service.ts:661`) and then calls `pauseLoop`, which sees a
  paused loop and returns: the loop runs on (`auto-loop-coordinator.ts:72` says it is paused).
- A start past the pause gate (`auto-mode-service.ts:931`, comment at 895) starts a loop for an app that was
  paused meanwhile.
- A retry finds the output of the run it retries, is delegated to `resumeFeature`
  (`auto-mode/execution-service.ts:499`) and refused by the lease that run still holds; the rejection passes every
  catch block and the feature stays `in_progress` until a health sweep outside this service repairs it.
- The abort of the agent of a finished feature writes `backlog` over `done`
  (`auto-mode/execution-service.ts:1823`; `auto-mode-service.ts:1510` says a terminal status is preserved).
- A resumed retry, and one with an approved plan, starts again with `retryCount` 0
  (`auto-mode-service.ts:3706`): the retry limits are not reached.
- Also in the models: `auto_mode_stopped` is not sent because `wasRunning` is read after `stopLoop` has
  cleared it; stopping one worktree deletes the execution-state record of another;
  `resumeAutoLoopForProject` replaces a loop that runs; retries that wait when `stopAutoLoopForProject` is
  called fire after it.

*Pipeline and phases*
- EXECUTE escalates without the ESCALATE processor (`lead-engineer-execute-processor.ts:675`;
  `lead-engineer-state-machine.ts:575` runs it elsewhere "so the feature is properly blocked and signaled").
- Review feedback and CI failures send the feature back to EXECUTE, which finds the open pull request
  (`lead-engineer-execute-processor.ts:316`) and returns to REVIEW without an agent, against
  `docs/internal/server/lead-engineer-service.md:115,117`.
- An exception in ESCALATE sends the call to ESCALATE again and charges neither budget
  (`lead-engineer-state-machine.ts:550-558`). ESCALATE awaits the feature loader outside any `try`
  (`lead-engineer-escalation.ts:58,91`), and its update throws for a feature that was deleted meanwhile
  (`feature-loader.ts:1071-1074`): the call then runs for as long as the server, against
  `docs/internal/dev/lead-engineer-pipeline.md:66` ("Prevents infinite loops"). `EveryCallEnds` names the exception.
- A feature suspended in REVIEW or MERGE is not resumed by any event or poll:
  `lead-engineer-service.ts:566-568` points to a flow that is not there, and
  `docs/internal/server/lead-engineer-service.md:70` to a poll.
- The decision APPROVED skips the look at CI, and MERGE never looks at CI
  (`lead-engineer-review-merge-processors.ts:1223-1225`, `docs/internal/server/lead-engineer-service.md:149`).
- A merge that only the lock file keeps back is blocked "for human review", but the next reconciliation
  of a merged pull request turns it `done`. What reconciliation takes as merged is any merged pull request
  of the branch, also an older one.
- A feature that becomes `done` while EXECUTE is at work is overwritten: by `review`
  (`lead-engineer-execute-processor.ts:324`), by `backlog` (595) or by `in_progress` while it prepares, by
  `blocked` when its agent ends without a pull request; the status is read once, at 233 (`DoneStands` names the race).
- Nothing writes `ciRemediationCount`, `reviewRemediationCount` or `prIterationCount`, so the limit of two
  iterations (`docs/integrations/github.md:133,260`) is never reached; `gateRejectionCount` is not
  checkpointed, the infrastructure and plan retries start anew on a resume, and `reviewStartedAt` survives
  a requeue. `handleConflictingPR` closes the pull request and leaves `prNumber`.
- A queued save recreates the checkpoint of a finished feature, a temporary file left by a crash brings a
  deleted checkpoint back, a read-only feature is sent back to EXECUTE instead of ending in DONE, and a retry
  of EXECUTE is charged to the main budget.

*Dependencies*
- `detectCycles` returns through its callers without taking them off the stack
  (`resolver.ts:302`), so that the groups after the first may not be cycles (`:120` says they are);
  `CyclesAreFound` states what is left.
- The secondary key of the selection, how many features a feature unblocks, is computed among the
  eligible features alone, where nothing depends on anything: always 0 (`feature-scheduler.ts:1656-1663`).
- A feature that INTAKE blocked for its dependencies is classified as not retryable and so is taken for
  one that an agent failed on (`feature-scheduler.ts:1220-1227`): it is never unblocked. Nor is one whose
  dependencies are stripped to an empty list (`feature-scheduler.ts:1160-1162`).
- The removal of missing dependencies at `feature-scheduler.ts:1498-1542` cannot run. The sweep that does remove
  them writes from its snapshot and can put back what was removed meanwhile; the unblocking writes
  `backlog` from its snapshot over a newer status (`feature-scheduler.ts:1250`).
- Cycles are looked for by one writer of dependencies out of many. `docs/internal/dev/tool-package.md:742-746`
  describes the checks of `setDependencies`, which nothing on the server calls; the MCP tool
  `set_feature_dependencies` (`packages/mcp-server/src/index.ts:431-438`) posts to the update route, which writes
  what it is given (`routes/features/routes/update.ts:168`), as do Ava's tool and the services that create features from plans.
- `docs/reference/mcp-tools.md:55` says that a feature "will not start until all dependencies are marked Done";
  the scheduler's gate does, while INTAKE ("same logic as loadPendingFeatures", `lead-engineer-processors.ts:39`)
  and the run route take a dependency in review that is no foundation as satisfied
  (`resolver.ts:354-376`, `docs/concepts/feature-lifecycle.md:112`).
- A feature that depends on its own epic never starts; one that resumes from a checkpoint skips INTAKE's check.

*Forms*
- A file that cannot be read at start is taken for an empty one, with an error in the log: its open forms are gone, and the
  next save erases them (`hitl-form-service.ts:361-365`; `unread` in `OpenFormSurvives`).
- The writes are atomic, but not ordered (`hitl-form-service.ts:8-10`): an older text may land last
  (`behind`). `getByFeatureId` does not prevent duplicates (`:221`), its callers wait between the look and
  the creation. A cancellation does not ask whether the form is due. Reminders are not restored. The
  routing of an answer swallows its failures.

*Completion*
- Two calls pass the look at the Set before either claims (`completion-detector-service.ts:60`, "Dedup
  guard"); `RepeatsNeedARace` says that nothing less does it.
- A webhook that is handled before the call has written `review` leaves the epic in review; the failure
  of a pull request that lags behind writes `blocked` over `done`; a crash between the claim and the write
  suppresses the completion for good.
- `project.json` is written without a temporary file (`project-service.ts:136,470,526`): a crash can leave half of
  it, and then every `getProject` throws until the next restart finds a file that was repaired by hand, since the promise
  of the failed load is kept (`_initDoc`). A failure of `project.md` leaves the cache behind the file.
- The merge of an epic's pull request without source files blocks an epic that has been announced, and when its branch
  is not named `epic/…` it stays blocked (`routes/webhooks/routes/github.ts:714-719`; `returned` in `AnnouncedEpicStands`).
- An epic that is in review is not looked at again, so "a checks-pending epic is re-attempted on the next
  cycle" (`:526-530`) does not happen. A writer that holds an older copy of the project puts its status back.

## Plan

1. `AgentPool`, `AgentSemaphore` with proofs — done.
2. `AutoLoop` with proofs — done, all its safety properties proved.
3. `FeatureStateMachine` with proofs — done.
4. `FeatureExecution` with proofs — done.
5. `FeaturePhases` with proofs — done for features with a branch.
6. `DependencyGraph`, `DependencyOrder`, `DependencyResolver`, `DependencyGate` with proofs — done.
7. `HITLForms` and `CompletionDetector` with proofs — done.
8. Open: a specification of what `executeFeature` promises (idle, running, settled) that the runs without
   interference implement, and the composition of `FeatureExecution` with the semaphore, whose waiting callers
   a stop does not reach; a gate for two apps that share the global cap; pauses of several apps at once;
   the atomic writer with backups and `updateJsonAtomically`; the worktree lock; work intake; the scheduler
   service; start-up recovery.

## Not modelled

*Abstracted in the models.* Agents, GitHub and the language models are their outcomes. The older single loop
(`startAutoLoop`, with `isAutoMode` and `autoLoopRunning`) has no caller and is left out. The selection in
`AutoLoop` is "finds one or none"; in `DependencyGate` it leaves out assignment, fair share, work-in-progress
limits, readiness scores and dependencies on other repositories. Read-only features, the structured plan and
its review by other agents are left out of `FeaturePhases`. Time is abstract: a timer may fire at any moment
after it is set.

*Read, and left for later modules*, with what a module would be about:
- **Work intake** (`work-intake-service.ts`): claims of phases by several instances. The claim is checked
  against the cache of one process only; claims older than 30 minutes are made again; nothing calls
  `reportCompletion` or `reportFailure`, so the cycle that `docs/internal/server/work-intake-service.md:14` describes
  has no end in this code, and a model of it would be a model of a protocol nobody drives.
- **Scheduler service** (`scheduler-service.ts`): cron tasks. Saving the tasks while tasks are still being
  registered loses the history of the later ones; ticks can overlap; overrides of two tasks race.
- **Lead-engineer rules, actions, sessions and world state**: rules are evaluated at once and executed later,
  on a projection of the board rebuilt from events. Most rules end in a call of a service that is
  modelled; the projection has no reader beside them.
- **Start-up recovery and reconciliation**, **worktree life cycle and locks**, **PR remediation**, **merge
  eligibility**: repairs over many features at once, lock files and `git`/`gh` commands whose states the
  models above do not have.

*No state of its own, or input and output*: the auto-mode coordinator (a facade), the settings service (its
reads are the awaits of the modules that call it), HTTP routes beyond those named in `PROJECT.json`, Discord,
metrics, knowledge stores, the user interface, the desktop shell, the command line, the MCP server and the
packages. They are the greater part of the repository by lines, and the part a model says least about.
