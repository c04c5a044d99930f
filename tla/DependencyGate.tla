----------------------------- MODULE DependencyGate -----------------------------
(***************************************************************************)
(* When a feature may start: the dependencies on the board, the gate of the *)
(* scheduler (loadPendingFeatures, over a snapshot), the gate of INTAKE,    *)
(* and those that change the board meanwhile: the update route, the tool    *)
(* set_dependencies, what follows a deletion, the health sweep, agents,     *)
(* people.                                                                  *)
(*                                                                         *)
(* One worktree without pull requests left open; one call of process per    *)
(* feature, which does not resume from a checkpoint; epics without          *)
(* dependencies, which nobody edits.  What happens to a feature between its *)
(* start and its merge is FeaturePhases, how a loop gets as far as a pass   *)
(* is AutoLoop.                                                             *)
(***************************************************************************)
EXTENDS DependencyGraph

CONSTANTS
    Features,
    Epics,          \* isEpic
    Foundations,    \* isFoundation
    Children,       \* of an epic
    Setters,        \* concurrent calls of set_dependencies
    None,
    MaxDeps,        \* bound: dependencies of one feature
    MaxEdits        \* bound: what people and tools do

ASSUME GateAssumption ==
    /\ Epics \cup Foundations \subseteq Features
    /\ Children \in [Epics -> SUBSET (Features \ Epics)]
    /\ MaxDeps \in Nat /\ MaxEdits \in Nat
    /\ IsFiniteSet(Features) /\ Features \cap Setters = {}
    /\ {"sweep", "tidy", "pass"} \cap (Features \cup Setters) = {}

VARIABLES
    status,     \* feature.status; "deleted" when there is no such feature
    failure,    \* feature.failureClassification; "deps" is INTAKE's, and not retryable
    deps,       \* feature.dependencies
    pass,       \* the pass of the scheduler
    call,       \* the call of process
    setting,    \* the calls of set_dependencies
    tidy,       \* the deletions that the listener of feature:deleted has to do with
    sweep,      \* what the health sweep has found and not yet fixed
    edits,
    changed     \* history: whose look at the board is no longer true

board == <<status, failure, deps>>
vars == <<board, pass, call, setting, tidy, sweep, edits, changed>>

Present(f) == status[f] # "deleted"
Final(f) == failure[f] \in {"final", "deps"}

(* The shared resolver.  An epic is transparent unless it is blocked. *)
Complete(st, id) ==
    \/ id \in Epics /\ st[id] # "blocked"
    \/ st[id] = "done"
    \/ st[id] = "review" /\ id \notin Foundations
Satisfied(st, ds) == \A id \in ds : st[id] # "deleted" /\ Complete(st, id)
Blocking(st, ds) == {id \in ds : st[id] # "deleted" /\ ~Complete(st, id)}

(* The dependencies of a feature: nothing here depends on their order. *)
DepSets == {T \in SUBSET Features : Cardinality(T) <= MaxDeps}

NoCall == [at |-> "idle", deps |-> {}, auto |-> FALSE]
NoPass == [at |-> "idle", todo |-> {}, ready |-> <<>>]
NoSetting == [at |-> "idle", of |-> None, ds |-> {}]
Told == [at |-> "told", left |-> [f \in {} |-> {}]]

Init ==
    /\ status = [f \in Features |-> "backlog"]
    /\ failure = [f \in Features |-> "none"]
    /\ deps \in {D \in [Features -> DepSets] : Acyclic(D) /\ \A e \in Epics : D[e] = {}}
    /\ pass = NoPass
    /\ call = [f \in Features |-> NoCall]
    /\ setting = [s \in Setters |-> NoSetting]
    /\ tidy = [d \in {} |-> {}] /\ sweep = [f \in {} |-> {}]
    /\ edits = 0 /\ changed = {}

Write(f, s) == status' = [status EXCEPT ![f] = s]
Goto(f, at) == call' = [call EXCEPT ![f].at = at]
Hangup(f) == call' = [call EXCEPT ![f] = NoCall]
Edit == edits < MaxEdits /\ edits' = edits + 1

--------------------------------------------------------------------------------
(* loadPendingFeatures and the choice of a feature.  All but the writes follows from the *)
(* snapshot, and is decided when it is taken.                                            *)

Backlog(S) == [f \in Features |-> IF f \in S THEN "backlog" ELSE status[f]]

(* The features are gone through in the order of the list: an epic that is unblocked is *)
(* transparent for those after it.                                                      *)
Unblocks(order, free) ==
    \A i \in DOMAIN order :
        order[i] \in free <=> Satisfied(Backlog(free \cap {order[j] : j \in 1..(i - 1)}), deps[order[i]])

(* A mutant: the gate is the shared resolver's under skipVerificationInAutoMode. *)
EligibleLoosely(st, f) ==
    /\ st[f] = "backlog" /\ f \notin Epics
    /\ \A id \in deps[f] : st[id] \notin {"deleted", "in_progress"}

(* The gate asks for done, and so what passes it passes the resolver too. *)
Eligible(st, f) ==
    /\ st[f] = "backlog" /\ f \notin Epics
    /\ \A id \in deps[f] : st[id] = "done"

(* All have one priority: the number of features downstream decides, as the resolver *)
(* counts it among the eligible ones.                                                *)
Ordered(pending) ==
    LET Downstream(f) == Impact([g \in pending |-> deps[g]], f) IN
    {s \in SetToSeqs(pending) : \A i, j \in DOMAIN s : i < j => Downstream(s[i]) >= Downstream(s[j])}

Load ==
    /\ pass.at = "idle"
    /\ LET waiting == {f \in Features : status[f] = "blocked" /\ deps[f] # {} /\ ~Final(f)} IN
       \E order \in SetToSeqs(waiting), free \in SUBSET waiting :
           /\ Unblocks(order, free)
           /\ \E ready \in Ordered({f \in Features : Eligible(Backlog(free), f)}) :
                 pass' = [at |-> "loaded", todo |-> free, ready |-> ready]
    /\ UNCHANGED <<board, call, setting, tidy, sweep, edits>>

(* The write of a feature that is no longer there fails and is only logged. *)
Unblock(f) ==
    /\ f \in pass.todo
    /\ pass' = [pass EXCEPT !.todo = @ \ {f}]
    /\ IF Present(f) THEN Write(f, "backlog") ELSE UNCHANGED status
    /\ UNCHANGED <<failure, deps, call, setting, tidy, sweep, edits>>

Dispatch ==
    /\ pass.at = "loaded" /\ pass.todo = {}
    /\ \/ /\ \A f \in ToSet(pass.ready) : call[f].at # "idle"
          /\ UNCHANGED call
       \/ \E i \in DOMAIN pass.ready :
            /\ call[pass.ready[i]].at = "idle"
            /\ \A j \in 1..(i - 1) : call[pass.ready[j]].at # "idle"
            /\ call' = [call EXCEPT ![pass.ready[i]] = [NoCall EXCEPT !.at = "called", !.auto = TRUE]]
    /\ pass' = NoPass
    /\ UNCHANGED <<board, setting, tidy, sweep, edits>>

--------------------------------------------------------------------------------
(* The run route, process, INTAKE and what comes after. *)

RunFeature(f, force) ==
    /\ Edit /\ Present(f) /\ call[f].at = "idle"
    /\ force \/ Satisfied(status, deps[f])
    /\ Goto(f, "called")
    /\ UNCHANGED <<board, pass, setting, tidy, sweep>>

Begins(f) ==
    /\ call[f].at = "called"
    /\ IF status[f] \in {"deleted", "done"} THEN Hangup(f)
       ELSE call' = [call EXCEPT ![f] = [at |-> "intake", deps |-> deps[f], auto |-> @.auto]]
    /\ UNCHANGED <<board, pass, setting, tidy, sweep, edits>>

(* A mutant: INTAKE takes the gate of the scheduler for granted. *)
IntakeTrusts(f) ==
    /\ call[f].at = "intake"
    /\ Goto(f, IF call[f].auto \/ Blocking(status, call[f].deps) = {} THEN "cleared" ELSE "refused")
    /\ UNCHANGED <<board, pass, setting, tidy, sweep, edits>>

(* A dependency that is gone does not block. *)
IntakeLooks(f) ==
    /\ call[f].at = "intake"
    /\ Goto(f, IF Blocking(status, call[f].deps) = {} THEN "cleared" ELSE "refused")
    /\ UNCHANGED <<board, pass, setting, tidy, sweep, edits>>

(* The write of a feature that is gone throws, which is a reason to escalate. *)
IntakeStarts(f) ==
    /\ call[f].at = "cleared"
    /\ IF Present(f) THEN Write(f, "in_progress") /\ call' = [call EXCEPT ![f] = [NoCall EXCEPT !.at = "running"]]
       ELSE UNCHANGED status /\ Goto(f, "refused")
    /\ UNCHANGED <<failure, deps, pass, setting, tidy, sweep, edits>>

(* "Unmet dependencies" is a reason the classifier does not know.  The write of a feature  *)
(* that is gone throws, and ESCALATE is run for ever (FeatureStateMachine): the call stays. *)
Escalates(f) ==
    /\ call[f].at = "refused" /\ Present(f)
    /\ IF status[f] = "done" THEN UNCHANGED <<status, failure>>
       ELSE Write(f, "blocked") /\ failure' = [failure EXCEPT ![f] = "deps"]
    /\ Hangup(f)
    /\ UNCHANGED <<deps, pass, setting, tidy, sweep, edits>>

Ends(f) ==
    /\ call[f].at = "running"
    /\ Hangup(f)
    /\ IF status[f] # "in_progress" THEN UNCHANGED <<status, failure>>
       ELSE \/ Write(f, "review") /\ UNCHANGED failure
            \/ \E c \in {"retryable", "final"} :
                 Write(f, "blocked") /\ failure' = [failure EXCEPT ![f] = c]
    /\ UNCHANGED <<deps, pass, setting, tidy, sweep, edits>>

Merges(f) ==
    /\ status[f] = "review" /\ Write(f, "done")
    /\ UNCHANGED <<failure, deps, pass, call, setting, tidy, sweep, edits>>

EpicCloses(e) ==
    /\ status[e] \notin {"deleted", "done"} /\ Children[e] # {}
    /\ \A f \in Children[e] : status[f] = "done"
    /\ Write(e, "done")
    /\ UNCHANGED <<failure, deps, pass, call, setting, tidy, sweep, edits>>

--------------------------------------------------------------------------------
(* Those that change the board. *)

Moves(f, s) ==
    /\ Edit /\ Present(f) /\ status[f] # s /\ Write(f, s)
    /\ UNCHANGED <<failure, deps, pass, call, setting, tidy, sweep>>

(* update takes any dependencies; so does the tool set_feature_dependencies, which posts to it. *)
Rewrites(f, ds) ==
    /\ Edit /\ Present(f) /\ deps[f] # ds
    /\ deps' = [deps EXCEPT ![f] = ds]
    /\ UNCHANGED <<status, failure, pass, call, setting, tidy, sweep>>

(* feature:deleted is sent, and heard later. *)
Delete(f) ==
    /\ Edit /\ Present(f) /\ Write(f, "deleted")
    /\ deps' = [deps EXCEPT ![f] = {}]
    /\ tidy' = [d \in DOMAIN tidy \cup {f} |-> IF d = f THEN Told ELSE tidy[d]]
    /\ UNCHANGED <<failure, pass, call, setting, sweep>>

Forget(d) == tidy' = [c \in DOMAIN tidy \ {d} |-> tidy[c]]

(* The listener reads the board once, and writes one dependent after the other. *)
TidyLooks(d) ==
    /\ d \in DOMAIN tidy /\ tidy[d].at = "told"
    /\ LET dependents == {f \in Features : d \in deps[f]} IN
       IF dependents = {} THEN Forget(d)
       ELSE tidy' = [tidy EXCEPT ![d] = [at |-> "writes", left |-> [f \in dependents |-> deps[f] \ {d}]]]
    /\ UNCHANGED <<board, pass, call, setting, sweep, edits>>

(* The write of a feature that is gone throws, and ends it. *)
TidyFixes(d, f) ==
    /\ d \in DOMAIN tidy /\ f \in DOMAIN tidy[d].left
    /\ IF Present(f)
       THEN /\ deps' = [deps EXCEPT ![f] = tidy[d].left[f]]
            /\ tidy' = [tidy EXCEPT ![d].left = [g \in DOMAIN @ \ {f} |-> @[g]]]
       ELSE UNCHANGED deps /\ Forget(d)
    /\ UNCHANGED <<status, failure, pass, call, setting, sweep, edits>>

(* It is through, or a read or a write fails, which is only logged. *)
TidyEnds(d) ==
    /\ d \in DOMAIN tidy
    /\ Forget(d)
    /\ UNCHANGED <<board, pass, call, setting, sweep, edits>>

(* A mutant: only a dependency on itself is refused. *)
SetLooksShort(s, f, ds) ==
    /\ Edit /\ setting[s].at = "idle"
    /\ Present(f) /\ f \notin ds /\ \A id \in ds : Present(id)
    /\ setting' = [setting EXCEPT ![s] = [at |-> "checked", of |-> f, ds |-> ds]]
    /\ UNCHANGED <<board, pass, call, tidy, sweep>>

SetLooks(s, f, ds) ==
    /\ Edit /\ setting[s].at = "idle"
    /\ Present(f) /\ f \notin ds /\ \A id \in ds : Present(id)
    /\ ~ClosesCycle(deps, f, ds)
    /\ setting' = [setting EXCEPT ![s] = [at |-> "checked", of |-> f, ds |-> ds]]
    /\ UNCHANGED <<board, pass, call, tidy, sweep>>

SetWrites(s) ==
    /\ setting[s].at = "checked"
    /\ IF Present(setting[s].of) THEN deps' = [deps EXCEPT ![setting[s].of] = setting[s].ds]
       ELSE UNCHANGED deps
    /\ setting' = [setting EXCEPT ![s] = NoSetting]
    /\ UNCHANGED <<status, failure, pass, call, tidy, sweep, edits>>

(* A mutant: only blocked features are tidied. *)
SweepLooksAtBlocked ==
    LET Valid(f) == {id \in deps[f] : Present(id)}
        dangling == {f \in Features : status[f] = "blocked" /\ Valid(f) # deps[f]} IN
    /\ DOMAIN sweep = {} /\ dangling # {}
    /\ sweep' = [f \in dangling |-> Valid(f)]
    /\ UNCHANGED <<board, pass, call, setting, tidy, edits>>

SweepLooks ==
    LET Valid(f) == {id \in deps[f] : Present(id)}
        dangling == {f \in Features : Valid(f) # deps[f]} IN
    /\ DOMAIN sweep = {} /\ dangling # {}
    /\ sweep' = [f \in dangling |-> Valid(f)]
    /\ UNCHANGED <<board, pass, call, setting, tidy, edits>>

SweepFixes(f) ==
    /\ f \in DOMAIN sweep
    /\ IF Present(f) THEN deps' = [deps EXCEPT ![f] = sweep[f]] ELSE UNCHANGED deps
    /\ sweep' = [g \in DOMAIN sweep \ {f} |-> sweep[g]]
    /\ UNCHANGED <<status, failure, pass, call, setting, tidy, edits>>

--------------------------------------------------------------------------------
(* A setter, the listener and the sweep rely on the graph they have read; the pass, and a *)
(* call of the loop until INTAKE looks, on the snapshot; a call that is cleared on the    *)
(* board and on its copy of the dependencies.                                             *)
Relies(x) ==
    CASE x \in Features -> call[x].at = "cleared" \/ (call[x].auto /\ call[x].at \in {"called", "intake"})
      [] x \in Setters -> setting[x].at = "checked"
      [] x = "tidy" -> \E d \in DOMAIN tidy : tidy[d].at = "writes"
      [] x = "sweep" -> DOMAIN sweep # {}
      [] x = "pass" -> pass.at = "loaded"
Overtaken(x) ==
    CASE x \in Features ->
           IF call[x].at = "idle" THEN "pass" \in changed
           ELSE IF call[x].at = "intake" /\ call'[x].at = "cleared" THEN call[x].deps # deps[x]
           ELSE x \in changed \/ deps' # deps \/ status' # status
      [] x = "pass" ->   \* not by what it writes itself
           Relies(x) /\ (x \in changed \/ deps' # deps \/ (status' # status /\ pass.todo = pass'.todo))
      [] OTHER -> Relies(x) /\ (x \in changed \/ deps' # deps)
Watch ==
    changed' = {x \in Features \cup Setters \cup {"tidy", "sweep", "pass"} : Relies(x)' /\ Overtaken(x)}

Step ==
    \/ Load \/ Dispatch \/ SweepLooks
    \/ \E f \in Features :
        \/ Unblock(f) \/ Begins(f) \/ IntakeLooks(f) \/ IntakeStarts(f) \/ Escalates(f)
        \/ Ends(f) \/ Merges(f) \/ SweepFixes(f)
        \/ TidyLooks(f) \/ TidyEnds(f) \/ \E d \in Features : TidyFixes(d, f)
    \/ \E f \in Features \ Epics :
        \/ Delete(f)
        \/ \E force \in BOOLEAN : RunFeature(f, force)
        \/ \E s \in {"backlog", "blocked", "done"} : Moves(f, s)
        \/ \E ds \in DepSets : Rewrites(f, ds)
    \/ \E e \in Epics : EpicCloses(e)
    \/ \E s \in Setters :
        SetWrites(s) \/ \E f \in Features \ Epics, ds \in DepSets : SetLooks(s, f, ds)
Next == Step /\ Watch

Spec == Init /\ [][Next]_vars

(* The loop goes on, and so do a call, an agent and the sweep; people need not. *)
LiveSpec ==
    /\ Spec
    /\ WF_vars((Load \/ Dispatch \/ \E f \in Features : Unblock(f)) /\ Watch)
    /\ WF_vars((SweepLooks \/ \E f \in Features : SweepFixes(f)) /\ Watch)
    /\ \A f \in Features :
        WF_vars((Begins(f) \/ IntakeLooks(f) \/ IntakeStarts(f) \/ Escalates(f) \/ Ends(f)) /\ Watch)

--------------------------------------------------------------------------------
(* What the listener of a deletion has to do. *)
Tidies(w) ==
    /\ w.at \in {"told", "writes"} /\ DOMAIN w.left \subseteq Features
    /\ w = [at |-> w.at, left |-> w.left] /\ w.left \in [DOMAIN w.left -> SUBSET Features]
TidyTyped == DOMAIN tidy \subseteq Features /\ \A d \in DOMAIN tidy : Tidies(tidy[d])

(* Type invariant. *)
TypeOK ==
    /\ status \in [Features -> {"backlog", "blocked", "in_progress", "review", "done", "deleted"}]
    /\ failure \in [Features -> {"none", "retryable", "final", "deps"}]
    /\ deps \in [Features -> SUBSET Features]
    /\ pass \in [at : {"idle", "loaded"}, todo : SUBSET Features, ready : Seq(Features)]
    /\ call \in [Features -> [at : {"idle", "called", "intake", "cleared", "refused", "running"},
                              deps : SUBSET Features, auto : BOOLEAN]]
    /\ setting \in [Setters -> [at : {"idle", "checked"}, of : Features \cup {None}, ds : SUBSET Features]]
    /\ TidyTyped
    /\ DOMAIN sweep \subseteq Features /\ sweep \in [DOMAIN sweep -> SUBSET Features]
    /\ edits \in 0..MaxEdits
    /\ changed \in SUBSET (Features \cup Setters \cup {"tidy", "sweep", "pass"})

(* A write that has looked at the graph closes no cycle unless its look has been overtaken: *)
(* a second set_dependencies, or the sweep or the listener of a deletion, which put back    *)
(* what was there when they looked.  What else closes one is update, which does not look.    *)
CyclesAreUnchecked ==
    [][Acyclic(deps) /\ ~Acyclic(deps') =>
        \/ changed \cap (Setters \cup {"tidy", "sweep"}) # {}
        \/ \E f \in Features, ds \in DepSets : Rewrites(f, ds)]_vars

(* INTAKE starts nothing whose dependencies block it, unless the board has changed since *)
(* it looked, whichever way the feature came to it: force gets past the run route only.   *)
StartsNeedTheirDeps ==
    [][\A f \in Features :
        call[f].at = "cleared" /\ call'[f].at = "running" => f \in changed \/ Blocking(status, deps[f]) = {}]_vars

(* The two gates agree: what the scheduler dispatches INTAKE does not send to a person, *)
(* unless the board has changed since the pass looked.                                   *)
RefusalsNeedAChange ==
    [][\A f \in Features :
        call[f].auto /\ call[f].at = "intake" /\ call'[f].at = "refused" => f \in changed]_vars

(* When what is in review gets merged, the graph stays acyclic, nothing is blocked and *)
(* no epic is depended on, everything is done in the end, whatever was deleted.          *)
Healthy ==
    /\ Acyclic(deps)
    /\ \A f \in Features : status[f] # "blocked" /\ deps[f] \cap Epics = {}
Finished == \A f \in Features \ Epics : status[f] \in {"deleted", "done"}
Progress ==
    <>[]Healthy /\ (\A f \in Features : []<>(status[f] # "review")) => <>[]Finished

================================================================================
