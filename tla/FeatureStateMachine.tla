-------------------------- MODULE FeatureStateMachine --------------------------
(***************************************************************************)
(* The pipeline of one feature: LeadEngineerService.process, the loop of   *)
(* FeatureStateMachine.processFeature with its goal gates and transition   *)
(* budgets, the background PersistQueue and the checkpoint file from which *)
(* a later call resumes.                                                   *)
(*                                                                         *)
(* What a phase processor does is cut down to what the loop sees of it:    *)
(* the transition it returns, whether it throws, and whether there is a    *)
(* pull request for the exit gate to see.  From the return of a processor  *)
(* to the call of the next one the loop does not await: one action.        *)
(***************************************************************************)
EXTENDS Naturals, Sequences, FiniteSets

CONSTANTS
    Workflows,       \* the sets of phases the feature's workflow may enable
    GoalGates,       \* pipeline.goalGatesEnabled
    CustomExecute,   \* the workflow names a processor of another phase for EXECUTE
    EscalateThrows,  \* ESCALATE may throw before it has written to the board: the feature
                     \* has been deleted meanwhile, or reading or writing it fails
    SavesFail,       \* writing or deleting the checkpoint file may fail
    Overlap,         \* a call may begin while an earlier one is still at work
    MaxTransitions,  \* MAX_TRANSITIONS
    MaxSameState,    \* MAX_SAME_STATE_TRANSITIONS
    MaxBacklog,      \* bound: saves that wait in a PersistQueue
    MaxCalls,        \* bound: calls of process
    MaxCrashes       \* bound: crashes of the server

Phases == {"INTAKE", "PLAN", "EXECUTE", "REVIEW", "MERGE", "DEPLOY"}
PhaseOrder == <<"INTAKE", "PLAN", "EXECUTE", "REVIEW", "MERGE", "DEPLOY">>
Terminal == {"ESCALATE", "DONE", "DEPLOY"}
Suspendable == {"REVIEW", "MERGE"}
States == Phases \cup {"ESCALATE", "DONE"}

ASSUME WorkflowsAssumption == Workflows # {} /\ Workflows \subseteq SUBSET Phases
ASSUME SwitchesAssumption ==
    {GoalGates, CustomExecute, EscalateThrows, SavesFail, Overlap} \subseteq BOOLEAN
ASSUME BudgetsAssumption ==
    /\ {MaxTransitions, MaxSameState} \subseteq Nat \ {0}
    /\ {MaxBacklog, MaxCalls, MaxCrashes} \subseteq Nat
(* A load that finds no file takes the temporary file of a save under way,   *)
(* and the rename of that save then fails.                                   *)
ASSUME StealingAssumption == Overlap => SavesFail

VARIABLES
    call,        \* each call of process: where it is, and the locals of processFeature
    queue,       \* its PersistQueue: saves that have not begun
    flight,      \* the save its PersistQueue is writing
    checkpoint,  \* the feature's checkpoint file
    temps,       \* the temporary files crashes have left beside it
    crashes,     \* crashes so far
    threw        \* ESCALATE of the call has thrown an odd number of times since it was entered

vars == <<call, queue, flight, checkpoint, temps, crashes, threw>>

Calls == 1..MaxCalls

(* gated is a history variable: the exit gate of EXECUTE has let the feature *)
(* pass.  It travels with the checkpoint.                                    *)
Snapshots == [state : States, gated : BOOLEAN]
None == [state |-> "none", gated |-> FALSE]

(* The name of a temporary file begins with the time: later crash, newer.    *)
Temps == [snapshot : Snapshots, crash : 1..MaxCrashes]
Newest(files) == {t \in files : \A u \in files : u.crash <= t.crash}

(* A queued save is a closure: "current" reads currentState when it runs,    *)
(* a phase is the snapshot of nextState.                                     *)
Saves == {"current"} \cup Phases

Final == {"ended", "refused", "crashed"}
CallStates == [
    at : {"uncalled", "loading", "validating", "starting", "working", "overBudget", "deleting"} \cup Final,
    state : States,
    gated : BOOLEAN,
    phases : SUBSET Phases,             \* enabledPhases
    described : BOOLEAN,                \* the feature has a title or a description
    transitions : 0..MaxTransitions, sameState : 0..MaxSameState,
    escalations : Nat]                  \* runs of the ESCALATE processor

Uncalled == [
    at |-> "uncalled", state |-> "INTAKE", gated |-> FALSE, phases |-> {}, described |-> FALSE,
    transitions |-> 0, sameState |-> 0, escalations |-> 0]

Init ==
    /\ call = [c \in Calls |-> Uncalled]
    /\ queue = [c \in Calls |-> <<>>]
    /\ flight = [c \in Calls |-> None]
    /\ checkpoint = None
    /\ temps = {}
    /\ crashes = 0
    /\ threw = [c \in Calls |-> FALSE]

--------------------------------------------------------------------------------
(* processFeature, as functions of a call. *)

(* resolveNextState: the first enabled phase from s on, DONE without one. *)
Resolve(s, phases) ==
    IF s \in phases \cup {"none", "DONE", "ESCALATE"} THEN s
    ELSE LET at == CHOOSE i \in DOMAIN PhaseOrder : PhaseOrder[i] = s
             later == {i \in DOMAIN PhaseOrder : i > at /\ PhaseOrder[i] \in phases}
         IN  IF later = {} THEN "DONE"
             ELSE PhaseOrder[CHOOSE i \in later : \A j \in later : i <= j]

(* Workflows without REVIEW and MERGE run without goal gates. *)
Gated(m) == GoalGates /\ m.phases \cap Suspendable # {}

OverBudget(m) == m.transitions >= MaxTransitions \/ m.sameState >= MaxSameState

(* The two ways from the head of the loop to ESCALATE: no processor for the  *)
(* state, which is then DONE, or a closed entry gate.                        *)
Redirected(m) ==
    m.state = "DONE" \/ (m.state = "EXECUTE" /\ Gated(m) /\ ~m.described)

(* From the head of the loop to the call of a processor. *)
Loop(m) ==
    LET n == IF OverBudget(m) \/ ~Redirected(m) THEN m
             ELSE [m EXCEPT !.state = "ESCALATE", !.transitions = @ + 1]
    IN  IF OverBudget(n) THEN [n EXCEPT !.at = "overBudget", !.state = "ESCALATE"]
        ELSE [n EXCEPT !.at = "working"]

(* After the loop the checkpoint of a terminal state is deleted. *)
Leave(m) ==
    [m EXCEPT !.at = IF m.state \in Terminal THEN "deleting" ELSE "ended",
              !.phases = {}, !.described = FALSE, !.transitions = 0, !.sameState = 0]

(* A processor returns the phase to go to, and whether to go on. *)
Go(s) == [next |-> s, continue |-> TRUE]
Stop(s) == [next |-> s, continue |-> FALSE]

IntakeResults == {Go("PLAN"), Go("EXECUTE"), Go("ESCALATE")}
PlanResults == {Go("PLAN"), Go("EXECUTE"), Go("ESCALATE")}
ExecuteResults ==
    {Go("EXECUTE"), Go("REVIEW"), Go("ESCALATE"), Stop("ESCALATE"), Stop("DONE"), Stop("none")}
ReviewResults == {Go("REVIEW"), Go("MERGE"), Go("EXECUTE"), Go("ESCALATE"), Stop("none")}
MergeResults == {Go("MERGE"), Go("DEPLOY"), Go("ESCALATE")}
DeployResults == {Stop("DONE"), Go("ESCALATE")}
EscalateResults == {Stop("none")}

Returns(s) ==
    CASE s = "INTAKE"   -> IntakeResults
      [] s = "PLAN"     -> PlanResults
      [] s = "EXECUTE"  -> ExecuteResults
      [] s = "REVIEW"   -> ReviewResults
      [] s = "MERGE"    -> MergeResults
      [] s = "DEPLOY"   -> DeployResults
      [] s = "ESCALATE" -> EscalateResults

(* What the processor of call m returns, and whether there is a pull request *)
(* then: EXECUTE goes to REVIEW only with one.                               *)
Result(m, r, pr) ==
    \/ /\ r \in Returns(m.state)
       /\ (m.state = "EXECUTE" /\ r = Go("REVIEW")) => pr
    \/ CustomExecute /\ m.state = "EXECUTE" /\ \E p \in Phases : r \in Returns(p)

(* The gate at the exit of EXECUTE asks for a pull request, whatever the     *)
(* transition is for, and sends the feature back to EXECUTE.                 *)
ExitGateCloses(m, next, pr) ==
    m.state = "EXECUTE" /\ Gated(m) /\ ~pr /\ next \notin {"none", "ESCALATE"}

(* From a result that passed its gate to the next processor or out of the loop. *)
Follow(m, r) ==
    LET next == Resolve(r.next, m.phases)
        to == [m EXCEPT !.state = next]
    IN  IF r.continue /\ next = m.state /\ next \in Suspendable THEN Leave(m)
        ELSE IF next = "none" THEN Leave(m)
        ELSE IF next = "DONE" \/ ~r.continue THEN Leave(to)
        ELSE IF next = m.state THEN Loop([m EXCEPT !.sameState = @ + 1])
        ELSE Loop([to EXCEPT !.sameState = 0, !.transitions = @ + 1])

(* Mutant of Advance: the exit gate is not evaluated. *)
AdvanceUngated(m, r, pr) == Follow([m EXCEPT !.gated = @ \/ (m.state = "EXECUTE" /\ pr)], r)

(* Mutant of Advance: a processor that stops the loop is run again. *)
AdvanceOnStop(m, r, pr) == IF r = Stop("none") THEN Loop(m) ELSE AdvanceUngated(m, r, pr)

(* Mutant of Advance: a closed exit gate is free of charge. *)
AdvanceFree(m, r, pr) ==
    IF ExitGateCloses(m, Resolve(r.next, m.phases), pr) THEN Loop(m) ELSE AdvanceUngated(m, r, pr)

(* From the result of a processor on: first its exit gate. *)
Advance(m, r, pr) ==
    IF ExitGateCloses(m, Resolve(r.next, m.phases), pr)
    THEN Loop([m EXCEPT !.transitions = @ + 1])
    ELSE Follow([m EXCEPT !.gated = @ \/ (m.state = "EXECUTE" /\ pr)], r)

--------------------------------------------------------------------------------
(* PersistQueue and PipelineCheckpointService.save *)

(* The save of a transition that passed its gate, for a phase with one. *)
ExitSave(m, r, pr) ==
    LET next == Resolve(r.next, m.phases)
    IN  IF ExitGateCloses(m, next, pr) \/ next \in Terminal \cup {"none"} THEN <<>> ELSE <<next>>

(* Mutant of EntrySave: no checkpoint when a phase is entered. *)
EntrySaveMissing(m) == <<>>

(* The checkpoint of the phase a call has just entered. *)
EntrySave(m) ==
    IF m.at = "working" /\ m.state \notin Terminal THEN <<"current">> ELSE <<>>

(* What a save writes when it runs while the locals are those of m. *)
Written(save, m) == [state |-> IF save = "current" THEN m.state ELSE save, gated |-> m.gated]

(* An idle queue runs the first save at once, up to its first await. *)
Enqueue(c, saves, m) ==
    IF flight[c] # None
    THEN queue' = [queue EXCEPT ![c] = @ \o saves] /\ UNCHANGED flight
    ELSE IF saves = <<>> THEN UNCHANGED <<queue, flight>>
    ELSE /\ flight' = [flight EXCEPT ![c] = Written(Head(saves), m)]
         /\ queue' = [queue EXCEPT ![c] = Tail(saves)]

(* save swallows its errors, so the retries of the queue never happen. *)
SaveEnds(c) ==
    /\ flight[c] # None
    /\ checkpoint' \in {flight[c]} \cup (IF SavesFail THEN {checkpoint} ELSE {})
    /\ IF queue[c] = <<>>
       THEN flight' = [flight EXCEPT ![c] = None] /\ UNCHANGED queue
       ELSE /\ flight' = [flight EXCEPT ![c] = Written(Head(queue[c]), call[c])]
            /\ queue' = [queue EXCEPT ![c] = Tail(@)]
    /\ UNCHANGED <<call, temps, crashes, threw>>

(* unlink, whose errors are swallowed too. *)
Unlink == checkpoint' \in {None} \cup (IF SavesFail THEN {checkpoint} ELSE {})

--------------------------------------------------------------------------------
(* LeadEngineerService.process *)

Quiet(c) == call[c].at \in Final /\ flight[c] = None

Set(c, m) == call' = [call EXCEPT ![c] = m]

CallProcess(c) ==
    /\ call[c].at = "uncalled"
    /\ \A d \in 1..(c - 1) : IF Overlap THEN call[d].at # "uncalled" ELSE Quiet(d)
    /\ Set(c, [call[c] EXCEPT !.at = "loading"])
    /\ UNCHANGED <<queue, flight, checkpoint, temps, crashes, threw>>

(* The feature is gone, or its status is a terminal one. *)
Refuse(c) ==
    /\ call[c].at = "loading"
    /\ Set(c, [call[c] EXCEPT !.at = "refused"])
    /\ UNCHANGED <<queue, flight, checkpoint, temps, crashes, threw>>

(* readJsonWithRecovery: without the file, the newest temporary file beside  *)
(* it is renamed to it; a save under way has one too.                        *)
Found(t) ==
    IF checkpoint # None
    THEN t = checkpoint /\ UNCHANGED <<checkpoint, temps>>
    ELSE \/ /\ t \in {flight[d] : d \in Calls} \ {None}
            /\ checkpoint' = t /\ UNCHANGED temps
         \/ \E f \in Newest(temps) :
                /\ t = f.snapshot /\ checkpoint' = t /\ temps' = temps \ {f}
         \/ temps = {} /\ t = None /\ UNCHANGED <<checkpoint, temps>>

(* Without a checkpoint the feature starts at INTAKE. *)
Load(c) ==
    /\ call[c].at = "loading"
    /\ \E t \in Snapshots \cup {None} :
        /\ Found(t)
        /\ Set(c, IF t = None
                  THEN [call[c] EXCEPT !.at = "starting"]
                  ELSE [call[c] EXCEPT !.at = "validating", !.state = t.state, !.gated = t.gated])
    /\ UNCHANGED <<queue, flight, crashes, threw>>

(* The pull request is open or merged, or GitHub does not answer. *)
Resume(c) ==
    /\ call[c].at = "validating"
    /\ Set(c, [call[c] EXCEPT !.at = "starting"])
    /\ UNCHANGED <<queue, flight, checkpoint, temps, crashes, threw>>

(* It is closed or gone.  load forgets the checkpoint and the feature starts *)
(* anew; process itself, which asks again, returns it to the backlog.        *)
Invalidate(c) ==
    /\ call[c].at = "validating" /\ call[c].state \in Suspendable
    /\ Unlink
    /\ \E at \in {"starting", "refused"} :
        Set(c, [call[c] EXCEPT !.at = at, !.state = "INTAKE", !.gated = FALSE])
    /\ UNCHANGED <<queue, flight, temps, crashes, threw>>

Start(c) ==
    /\ call[c].at = "starting"
    /\ \E w \in Workflows, described \in BOOLEAN :
        LET m == Loop([call[c] EXCEPT !.phases = w, !.described = described, !.state = Resolve(@, w)])
        IN  Set(c, m) /\ Enqueue(c, EntrySave(m), m)
    /\ UNCHANGED <<checkpoint, temps, crashes, threw>>

(* The processor returns r. *)
Process(c, r, pr) ==
    LET m == [call[c] EXCEPT !.escalations = IF call[c].state = "ESCALATE" THEN @ + 1 ELSE @]
        n == Advance(m, r, pr)
    IN  /\ call[c].at = "working" /\ Len(queue[c]) < MaxBacklog
        /\ Result(call[c], r, pr)
        /\ Set(c, n)
        /\ Enqueue(c, ExitSave(m, r, pr) \o EntrySave(n), n)
        /\ threw' = [threw EXCEPT ![c] = FALSE]
        /\ UNCHANGED <<checkpoint, temps, crashes>>

(* An error of a processor leads to ESCALATE and costs nothing, that of      *)
(* ESCALATE itself included.                                                 *)
Throw(c) ==
    LET m == [call[c] EXCEPT !.state = "ESCALATE"]
    IN  /\ call[c].at = "working"
        /\ call[c].state = "ESCALATE" => EscalateThrows
        /\ Set(c, Loop(m))
        /\ threw' = [threw EXCEPT ![c] = (call[c].state = "ESCALATE") /\ ~threw[c]]
        /\ UNCHANGED <<queue, flight, checkpoint, temps, crashes>>

(* The ESCALATE processor after the loop; its errors are caught. *)
EscalateOverBudget(c) ==
    /\ call[c].at = "overBudget"
    /\ Set(c, Leave([call[c] EXCEPT !.escalations = @ + 1]))
    /\ UNCHANGED <<queue, flight, checkpoint, temps, crashes, threw>>

DeleteCheckpoint(c) ==
    /\ call[c].at = "deleting"
    /\ Unlink
    /\ Set(c, [call[c] EXCEPT !.at = "ended"])
    /\ UNCHANGED <<queue, flight, temps, crashes, threw>>

(* A save under way has left nothing, its temporary file, or the new file. *)
Crash ==
    /\ crashes < MaxCrashes
    /\ crashes' = crashes + 1
    /\ LET saving == {c \in Calls : flight[c] # None}
       IN  \E left \in SUBSET saving :
            /\ temps' = temps \cup {[snapshot |-> flight[c], crash |-> crashes'] : c \in left}
            /\ checkpoint' \in {checkpoint} \cup {flight[c] : c \in saving \ left}
    /\ call' = [c \in Calls |-> IF call[c].at = "uncalled" \/ Quiet(c) THEN call[c]
                                ELSE [Uncalled EXCEPT !.at = "crashed"]]
    /\ queue' = [c \in Calls |-> <<>>]
    /\ flight' = [c \in Calls |-> None]
    /\ threw' = [c \in Calls |-> FALSE]

Step(c) ==
    \/ Refuse(c) \/ Load(c) \/ Resume(c) \/ Invalidate(c) \/ Start(c)
    \/ \E s \in States \cup {"none"}, pr \in BOOLEAN : Process(c, Go(s), pr) \/ Process(c, Stop(s), pr)
    \/ Throw(c) \/ EscalateOverBudget(c) \/ DeleteCheckpoint(c)

Next ==
    \/ \E c \in Calls : CallProcess(c) \/ Step(c) \/ SaveEnds(c)
    \/ Crash

Spec == Init /\ [][Next]_vars

(* Awaited promises settle: processors have timeouts of their own. *)
Fairness == \A c \in Calls : WF_vars(Step(c)) /\ WF_vars(SaveEnds(c))

FairSpec == Spec /\ Fairness

--------------------------------------------------------------------------------

TypeOK ==
    /\ call \in [Calls -> CallStates]
    /\ queue \in [Calls -> Seq(Saves)]
    /\ flight \in [Calls -> Snapshots \cup {None}]
    /\ checkpoint \in Snapshots \cup {None}
    /\ temps \subseteq Temps
    /\ crashes \in 0..MaxCrashes
    /\ threw \in [Calls -> BOOLEAN]

Last(c) == \A d \in Calls : d > c => call[d].at = "uncalled"

(* "Ensures crash during processing is recoverable": once the queue is       *)
(* drained the file names the phase the latest call is in, or the one it     *)
(* suspended or gave up the feature in.  Saves lag behind the machine and    *)
(* read its state when they run, so this holds by their order alone.         *)
CheckpointIsCurrent ==
    \A c \in Calls :
        (Last(c) /\ call[c].at \in {"working", "ended"} /\ call[c].state \notin Terminal
            /\ flight[c] = None)
        => checkpoint.state = call[c].state

(* The goal gate "Feature must have a PR number after execution" cannot be   *)
(* evaded: not by a crash and a resume, not by a checkpoint that another     *)
(* call wrote, not by a workflow that skips phases or changes in between.    *)
ReviewHasPr ==
    GoalGates => \A c \in Calls :
        (call[c].at = "working" /\ call[c].state \in {"REVIEW", "MERGE", "DEPLOY"}
            /\ call[c].phases \cap Suspendable # {}) => call[c].gated

(* A call escalates a feature once: ESCALATE counts a failure on the board,  *)
(* signals and asks a human each time it runs.                               *)
EscalatesOnce == \A c \in Calls : call[c].escalations <= 1

EscalateFails(c) == call[c].state = "ESCALATE" /\ Throw(c)

(* Whatever the processors return or throw, a closed exit gate included, the *)
(* two budgets end the call, with one exception: an ESCALATE that throws is  *)
(* run again at no cost, so a call may go on while ESCALATE goes on throwing. *)
EveryCallEnds ==
    \A c \in Calls :
        \/ (call[c].at = "loading") ~> (call[c].at \in Final)
        \/ []<><<EscalateFails(c)>>_vars

================================================================================
