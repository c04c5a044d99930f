----------------------------- MODULE AutoLoopProofs -----------------------------
(***************************************************************************)
(* Theorems about AutoLoop, for every number of worktrees, callers, loops, *)
(* failures and crashes.                                                   *)
(*                                                                         *)
(* A step may start a loop only as CreateLoop, and stop one of another     *)
(* number only as DropLoop or Crash; every other step Keeps the map: the   *)
(* worktrees of the loops stay and no loop starts to run.                  *)
(***************************************************************************)
EXTENDS AutoLoop, TLAPS

Keeps(f, g) ==
    /\ g \in [Loops -> LoopStates]
    /\ \A i \in Loops : /\ g[i].key = f[i].key
                        /\ g[i].isRunning => f[i].isRunning
                        /\ g[i].body = "unborn" <=> f[i].body = "unborn"

LEMMA Constants ==
    /\ MainKey \in Keys
    /\ FailureThreshold \in Nat /\ FailureThreshold > 0
    /\ MaxLoops \in Nat /\ MaxTrips \in Nat /\ MaxPauses \in Nat /\ MaxCrashes \in Nat
    /\ ExternalControl \in BOOLEAN
BY MainKeyAssumption, ThresholdAssumption, BoundsAssumption

--------------------------------------------------------------------------------
(* LoopState records.  The provers take one field at a time. *)

LEMMA UnbornIsLoopState == Unborn \in LoopStates
BY Constants DEF Unborn, LoopStates, FailureTypes

LEMMA Selected ==
    ASSUME NEW s \in LoopStates
    PROVE  /\ s.key \in Keys /\ s.isRunning \in BOOLEAN /\ s.isPaused \in BOOLEAN
           /\ s.runs \in Nat /\ s.ghosts \in Nat /\ s.failures \in 0..FailureThreshold
           /\ s.lastCircuitBreakerFailureType \in {"none"} \cup FailureTypes
           /\ s.cooldownTimer \in 0..MaxTrips
BY DEF LoopStates

LEMMA NewLoopFacts ==
    ASSUME NEW k \in Keys
    PROVE  /\ NewLoopState(k) \in LoopStates /\ NewLoopState(k).key = k /\ NewLoopState(k).isRunning
           /\ NewLoopState(k).body = "startup"
<1> DEFINE a == [Unborn EXCEPT !.key = k]
           b == [a EXCEPT !.isRunning = TRUE]
           c == [b EXCEPT !.body = "startup"]
<1> HIDE DEF a, b, c
<1>1. a \in LoopStates /\ a.key = k
  BY UnbornIsLoopState DEF LoopStates, a
<1>2. b \in LoopStates /\ b.key = k /\ b.isRunning
  BY <1>1, Constants DEF LoopStates, FailureTypes, b
<1>3. c \in LoopStates /\ c.key = k /\ c.isRunning /\ c.body = "startup"
  BY <1>2, Constants DEF LoopStates, FailureTypes, c
<1> QED BY <1>3 DEF NewLoopState, a, b, c

LEMMA StopFacts ==
    ASSUME NEW s \in LoopStates
    PROVE  /\ StopLoop(s) \in LoopStates /\ StopLoop(s).key = s.key /\ ~StopLoop(s).isRunning
           /\ StopLoop(s).body = s.body
<1> DEFINE a == [s EXCEPT !.isRunning = FALSE]
           b == [a EXCEPT !.aborted = TRUE]
           c == [b EXCEPT !.cooldownTimer = 0]
<1> HIDE DEF a, b, c
<1>1. a \in LoopStates /\ a.key = s.key /\ a.body = s.body /\ ~a.isRunning
  BY DEF LoopStates, FailureTypes, a
<1>2. b \in LoopStates /\ b.key = s.key /\ b.body = s.body /\ ~b.isRunning
  BY <1>1, Constants DEF LoopStates, FailureTypes, b
<1>3. c \in LoopStates /\ c.key = s.key /\ c.body = s.body /\ ~c.isRunning
  BY <1>2, Constants DEF LoopStates, FailureTypes, c
<1> QED BY <1>3 DEF StopLoop, a, b, c

LEMMA PauseFacts ==
    ASSUME NEW s \in LoopStates, NEW type \in {"none"} \cup FailureTypes
    PROVE  /\ PauseLoop(s, type) \in LoopStates
           /\ PauseLoop(s, type).key = s.key /\ PauseLoop(s, type).body = s.body
           /\ PauseLoop(s, type).isRunning => s.isRunning
<1> DEFINE t == IF type = "none" THEN s.lastCircuitBreakerFailureType ELSE type
           a == [s EXCEPT !.isPaused = TRUE]
           b == [a EXCEPT !.isRunning = FALSE]
           c == [b EXCEPT !.aborted = TRUE]
           d == [c EXCEPT !.lastCircuitBreakerFailureType = t]
<1> HIDE DEF t, a, b, c, d
<1>1. a \in LoopStates /\ a.key = s.key /\ a.body = s.body
  BY DEF LoopStates, FailureTypes, a
<1>2. b \in LoopStates /\ b.key = s.key /\ b.body = s.body /\ ~b.isRunning
  BY <1>1, Constants DEF LoopStates, FailureTypes, b
<1>3. c \in LoopStates /\ c.key = s.key /\ c.body = s.body /\ ~c.isRunning
  BY <1>2, Constants DEF LoopStates, FailureTypes, c
<1>4. d \in LoopStates /\ d.key = s.key /\ d.body = s.body /\ ~d.isRunning
  BY <1>3, Selected DEF LoopStates, FailureTypes, d, t
<1>5. c.lastCircuitBreakerFailureType = s.lastCircuitBreakerFailureType
  BY DEF LoopStates, a, b, c
<1> QED BY <1>4, <1>5 DEF PauseLoop, t, a, b, c, d

LEMMA ResetFacts ==
    ASSUME NEW s \in LoopStates
    PROVE  /\ ResetFailures(s) \in LoopStates
           /\ ResetFailures(s).key = s.key /\ ResetFailures(s).body = s.body
           /\ ResetFailures(s).isRunning = s.isRunning
<1> DEFINE a == [s EXCEPT !.failures = 0]
           b == [a EXCEPT !.isPaused = FALSE]
<1> HIDE DEF a, b
<1>1. a \in LoopStates /\ a.key = s.key /\ a.body = s.body /\ a.isRunning = s.isRunning
  BY Constants DEF LoopStates, FailureTypes, a
<1>2. b \in LoopStates /\ b.key = s.key /\ b.body = s.body /\ b.isRunning = s.isRunning
  BY <1>1, Constants DEF LoopStates, FailureTypes, b
<1> QED BY <1>2 DEF ResetFailures, a, b

--------------------------------------------------------------------------------
(* One loop of the map changes. *)

LEMMA KeepsItself == ASSUME NEW f \in [Loops -> LoopStates] PROVE Keeps(f, f)
BY DEF Keeps

LEMMA KeepsTransitive ==
    ASSUME NEW f, NEW g, NEW h, Keeps(f, g), Keeps(g, h)
    PROVE  Keeps(f, h)
BY DEF Keeps

LEMMA UpdateKeeps ==
    ASSUME NEW f \in [Loops -> LoopStates], NEW i \in Loops, NEW s \in LoopStates,
           s.key = f[i].key, s.isRunning => f[i].isRunning,
           s.body = "unborn" <=> f[i].body = "unborn"
    PROVE  Keeps(f, [f EXCEPT ![i] = s])
BY DEF Keeps

LEMMA StateExists ==
    ASSUME TypeOK, NEW k \in Keys, HasState(k)
    PROVE  loops[k] \in Loops /\ StateOf(k) \in LoopStates
BY Constants DEF TypeOK, HasState, StateOf, Loops

LEMMA LastRunKeeps ==
    ASSUME TypeOK, NEW i \in Loops, loop[i].runs > 0
    PROVE  Keeps(loop, LastRun(i))
<1> DEFINE s == [loop[i] EXCEPT !.runs = @ - 1]
<1> HIDE DEF s
<1>1. loop \in [Loops -> LoopStates] /\ loop[i] \in LoopStates
  BY DEF TypeOK
<1>2. s \in LoopStates /\ s.key = loop[i].key /\ s.body = loop[i].body /\ s.isRunning = loop[i].isRunning
  BY <1>1, Selected DEF LoopStates, s
<1> QED BY <1>1, <1>2, UpdateKeeps DEF LastRun, s

LEMMA RecordSuccessKeeps ==
    ASSUME TypeOK, NEW f, Keeps(loop, f), NEW k \in Keys
    PROVE  Keeps(loop, RecordSuccess(f, k))
<1>1. CASE ~HasState(k)
  BY <1>1 DEF RecordSuccess
<1>2. CASE HasState(k)
  <2>1. loops[k] \in Loops /\ f \in [Loops -> LoopStates] /\ f[loops[k]] \in LoopStates
    BY <1>2, StateExists DEF Keeps
  <2>2. Keeps(f, [f EXCEPT ![loops[k]] = ResetFailures(f[loops[k]])])
    BY <2>1, ResetFacts, UpdateKeeps
  <2> QED BY <1>2, <2>2, KeepsTransitive DEF RecordSuccess
<1> QED BY <1>1, <1>2

LEMMA TrackFailureKeeps ==
    ASSUME TypeOK, NEW f, Keeps(loop, f), NEW k \in Keys, NEW n \in 0..FailureThreshold,
           NEW type \in FailureTypes, TrackFailure(f, k, n, type)
    PROVE  /\ Keeps(loop, loop') /\ loops' = loops
           /\ trips' \in 0..MaxTrips /\ armed' \subseteq (1..MaxTrips) \X Keys
           /\ quotaBlocked' \in BOOLEAN
<1> DEFINE s == [f[loops[k]] EXCEPT !.failures = n]
           p == [s EXCEPT !.isPaused = TRUE]
           q == PauseLoop(p, type)
           r == [q EXCEPT !.cooldownTimer = trips + 1]
<1>1. /\ HasState(k) /\ loops' = loops
      /\ \/ SignalShouldPause(f, k, s, type)
         \/ loop' = [f EXCEPT ![loops[k]] = s] /\ UNCHANGED <<armed, trips, quotaBlocked>>
  BY DEF TrackFailure
<1> HIDE DEF s, p, q, r
<1>2. loops[k] \in Loops /\ f \in [Loops -> LoopStates] /\ f[loops[k]] \in LoopStates
  BY <1>1, StateExists DEF Keeps
<1>3. s \in LoopStates /\ s.key = f[loops[k]].key /\ s.body = f[loops[k]].body /\ s.isRunning = f[loops[k]].isRunning
  BY <1>2 DEF s, LoopStates
<1>4. CASE SignalShouldPause(f, k, s, type)
  <2>1. p \in LoopStates /\ p.key = s.key /\ p.body = s.body /\ p.isRunning = s.isRunning
    BY <1>3 DEF p, LoopStates
  <2>2. q \in LoopStates /\ q.key = p.key /\ q.body = p.body /\ (q.isRunning => p.isRunning)
    BY <2>1, PauseFacts DEF q
  <2>3. trips' = trips + 1 /\ trips + 1 \in 1..MaxTrips
    BY <1>4, Constants DEF SignalShouldPause, TypeOK
  <2>4. r \in LoopStates /\ r.key = q.key /\ r.body = q.body /\ r.isRunning = q.isRunning
    BY <2>2, <2>3, Constants DEF r, LoopStates
  <2>5. loop' = [f EXCEPT ![loops[k]] = r]
    BY <1>4 DEF SignalShouldPause, r, q, p
  <2>6. Keeps(f, loop')
    BY <1>2, <1>3, <2>1, <2>2, <2>4, <2>5, UpdateKeeps
  <2>7. armed' \subseteq (1..MaxTrips) \X Keys
    BY <1>4, <2>3 DEF SignalShouldPause, TypeOK
  <2>8. quotaBlocked' \in BOOLEAN
    BY <1>4 DEF SignalShouldPause, TypeOK
  <2> QED BY <1>1, <2>3, <2>6, <2>7, <2>8, KeepsTransitive, Constants
<1>5. CASE loop' = [f EXCEPT ![loops[k]] = s] /\ UNCHANGED <<armed, trips, quotaBlocked>>
  <2>1. Keeps(f, loop')
    BY <1>2, <1>3, <1>5, UpdateKeeps
  <2> QED BY <1>1, <1>5, <2>1, KeepsTransitive DEF TypeOK
<1> QED BY <1>1, <1>4, <1>5

--------------------------------------------------------------------------------
(* What a step may do to the map of loops. *)

Starts(c) ==
    /\ CreateLoop(start[c].key)
    /\ Return(c)
    /\ \/ start[c].at = "resumeGated"
       \/ start[c].at = "saved" /\ ~IsRunning(start[c].key)

Effect ==
    \/ loops' = loops /\ Keeps(loop, loop')
    \/ \E k \in Keys : HasState(k) /\ DropLoop(k)
    \/ \E c \in Callers : Starts(c)
    \/ Crash

Calls == [Callers -> [at : {"idle"} \cup InStart \cup InResume, key : Keys]]

LEMMA MoveType ==
    ASSUME start \in Calls, NEW c \in Callers, NEW at \in {"idle"} \cup InStart \cup InResume, Move(c, at)
    PROVE  start' \in Calls
BY DEF Calls, Move

LEMMA ReturnType ==
    ASSUME start \in Calls, NEW c \in Callers, Return(c)
    PROVE  start' \in Calls
<1>1. Idle \in [at : {"idle"} \cup InStart \cup InResume, key : Keys]
  BY Constants DEF Idle
<1> QED BY <1>1 DEF Calls, Return

LEMMA EnterType ==
    ASSUME start \in Calls, NEW c \in Callers, NEW k \in Keys,
           NEW at \in {"idle"} \cup InStart \cup InResume, Enter(c, at, k)
    PROVE  start' \in Calls
BY DEF Calls, Enter

(* Steps that leave the loops alone and move a call of startAutoLoopForProject. *)
LEMMA CallSteps ==
    ASSUME TypeOK, NEW c \in Callers, NEW k \in Keys,
           \/ CallStart(c, k) \/ GateRefuses(c) \/ GatePasses(c) \/ Claim(c) \/ SaveState(c)
           \/ CallResume(c, k) \/ ReadResumeGate(c) \/ BootResumes(c)
    PROVE  TypeOK' /\ Effect
<1>1. loops' = loops /\ loop' = loop /\ armed' = armed /\ trips' = trips
  BY DEF CallStart, GateRefuses, GatePasses, Claim, SaveState, CallResume, ReadResumeGate,
         BootResumes, loopVars
<1>2. Effect
  BY <1>1, KeepsItself DEF Effect, TypeOK
<1>3. start[c].key \in Keys
  BY DEF TypeOK
<1>4. start' \in Calls
  BY <1>3, MoveType, ReturnType, EnterType DEF TypeOK, Calls, CallStart, GateRefuses, GatePasses,
     Claim, SaveState, CallResume, ReadResumeGate, BootResumes, InStart, InResume
<1>5. pendingLoopStarts' \subseteq Keys /\ executionState' \in Keys \cup {"none"}
  BY <1>3 DEF TypeOK, CallStart, GateRefuses, GatePasses, Claim, SaveState, CallResume,
     ReadResumeGate, BootResumes, fileVars
<1>6. booted' \in BOOLEAN /\ crashes' = crashes
  BY DEF TypeOK, CallStart, GateRefuses, GatePasses, Claim, SaveState, CallResume,
     ReadResumeGate, BootResumes, serverVars
<1>7. UNCHANGED <<quotaBlocked, appVars, unlinks>>
  BY DEF CallStart, GateRefuses, GatePasses, Claim, SaveState, CallResume,
     ReadResumeGate, BootResumes, fileVars
<1> QED BY <1>1, <1>2, <1>4, <1>5, <1>6, <1>7 DEF TypeOK, appVars, Calls

(* Steps that touch neither the loops nor the calls. *)
LEMMA AppSteps ==
    ASSUME TypeOK, RegisterPause \/ ResumeProject \/ Unlink \/ BootSkips
    PROVE  TypeOK' /\ Effect
<1>1. UNCHANGED <<loops, loop, armed, trips, pendingLoopStarts, start, quotaBlocked, crashes>>
  BY DEF RegisterPause, ResumeProject, Unlink, BootSkips, loopVars, startVars, serverVars
<1>2. Effect
  BY <1>1, KeepsItself DEF Effect, TypeOK
<1>3. executionState' \in Keys \cup {"none"} /\ unlinks' \in Nat
  BY DEF TypeOK, RegisterPause, ResumeProject, Unlink, BootSkips, fileVars
<1>4. pausedProjects' \in BOOLEAN /\ booted' \in BOOLEAN
  BY DEF TypeOK, RegisterPause, ResumeProject, Unlink, BootSkips, appVars, serverVars
<1>5. pauses' \in 0..MaxPauses
  BY Constants DEF TypeOK, RegisterPause, ResumeProject, Unlink, BootSkips, appVars
<1>6. pausing' \in [at : {"idle", "registered", "stopping"}, todo : SUBSET Keys]
  BY DEF TypeOK, RegisterPause, ResumeProject, Unlink, BootSkips, appVars
<1>7. overtaken' \subseteq Keys
  BY DEF TypeOK, RegisterPause, ResumeProject, Unlink, BootSkips, appVars
<1> QED BY <1>1, <1>2, <1>3, <1>4, <1>5, <1>6, <1>7 DEF TypeOK

(* What a step on the loops alone has to show. *)
Others == UNCHANGED <<startVars, appVars, fileVars, serverVars>>
LoopPart ==
    /\ loops' = loops /\ Keeps(loop, loop')
    /\ trips' \in 0..MaxTrips /\ armed' \subseteq (1..MaxTrips) \X Keys
    /\ quotaBlocked' \in BOOLEAN

LEMMA LoopStep == ASSUME TypeOK, Others, LoopPart PROVE TypeOK' /\ Effect
BY DEF TypeOK, Others, LoopPart, Effect, Keeps, startVars, appVars, fileVars, serverVars

LEMMA RunSteps ==
    ASSUME TypeOK, NEW i \in Loops, NEW n \in 0..FailureThreshold, NEW type \in FailureTypes,
           RunSucceeds(i) \/ RunEnds(i) \/ RunFails(i, n, type)
    PROVE  TypeOK' /\ Effect
<1>1. loop[i].key \in Keys
  BY Selected DEF TypeOK
<1>2. CASE RunSucceeds(i)
  <2>1. Keeps(loop, loop')
    BY <1>1, <1>2, LastRunKeeps, RecordSuccessKeeps DEF RunSucceeds
  <2> QED BY <1>2, <2>1, LoopStep DEF RunSucceeds, LoopPart, Others, TypeOK
<1>3. CASE RunEnds(i)
  <2>1. Keeps(loop, loop')
    BY <1>3, LastRunKeeps DEF RunEnds
  <2> QED BY <1>3, <2>1, LoopStep DEF RunEnds, LoopPart, Others, TypeOK
<1>4. CASE RunFails(i, n, type)
  <2>1. LoopPart
    BY <1>1, <1>4, LastRunKeeps, TrackFailureKeeps DEF RunFails, LoopPart
  <2> QED BY <1>4, <2>1, LoopStep DEF RunFails, Others
<1> QED BY <1>2, <1>3, <1>4

LEMMA ReportSteps ==
    ASSUME TypeOK, NEW k \in Keys, NEW n \in 0..FailureThreshold, NEW type \in FailureTypes,
           ReportSuccess(k) \/ ReportFailure(k, n, type)
    PROVE  TypeOK' /\ Effect
<1>1. Keeps(loop, loop)
  BY KeepsItself DEF TypeOK
<1>2. CASE ReportSuccess(k)
  <2>1. Keeps(loop, loop')
    BY <1>1, <1>2, RecordSuccessKeeps DEF ReportSuccess
  <2> QED BY <1>2, <2>1, LoopStep DEF ReportSuccess, LoopPart, Others, TypeOK
<1>3. CASE ReportFailure(k, n, type)
  <2>1. LoopPart
    BY <1>1, <1>3, TrackFailureKeeps DEF ReportFailure, LoopPart
  <2> QED BY <1>3, <2>1, LoopStep DEF ReportFailure, Others
<1> QED BY <1>2, <1>3

LEMMA MoveBodyKeeps ==
    ASSUME TypeOK, NEW i \in Loops, loop[i].body # "unborn",
           NEW to \in {"head", "picking", "gated", "exited"}
    PROVE  /\ Keeps(loop, [loop EXCEPT ![i].body = to])
           /\ Keeps(loop, [loop EXCEPT ![i].body = to, ![i].isRunning = FALSE])
<1> DEFINE s == [loop[i] EXCEPT !.body = to]
           t == [s EXCEPT !.isRunning = FALSE]
<1> HIDE DEF s, t
<1>1. loop \in [Loops -> LoopStates] /\ loop[i] \in LoopStates
  BY DEF TypeOK
<1>2. s \in LoopStates /\ s.key = loop[i].key /\ s.body = to /\ s.isRunning = loop[i].isRunning
  BY <1>1 DEF LoopStates, s
<1>3. t \in LoopStates /\ t.key = s.key /\ t.body = s.body /\ ~t.isRunning
  BY <1>2 DEF LoopStates, t
<1>4. Keeps(loop, [loop EXCEPT ![i] = s]) /\ Keeps(loop, [loop EXCEPT ![i] = t])
  BY <1>1, <1>2, <1>3, UpdateKeeps
<1>5. [loop EXCEPT ![i].body = to, ![i].isRunning = FALSE] = [loop EXCEPT ![i] = t]
  BY <1>1 DEF t, s
<1> QED BY <1>4, <1>5 DEF s

LEMMA DispatchKeeps ==
    ASSUME TypeOK, NEW i \in Loops, Dispatch(i)
    PROVE  Keeps(loop, loop')
<1> DEFINE g == IF loop[i].aborted THEN loop[i].ghosts + 1 ELSE loop[i].ghosts
           s == [loop[i] EXCEPT !.body = "head"]
           t == [s EXCEPT !.runs = loop[i].runs + 1]
           u == [t EXCEPT !.ghosts = g]
<1> HIDE DEF g, s, t, u
<1>1. loop \in [Loops -> LoopStates] /\ loop[i] \in LoopStates
  BY DEF TypeOK
<1>2. g \in Nat /\ loop[i].runs + 1 \in Nat
  BY <1>1, Selected DEF g
<1>3. s \in LoopStates /\ s.key = loop[i].key /\ s.body = "head" /\ s.isRunning = loop[i].isRunning
  BY <1>1 DEF LoopStates, s
<1>4. t \in LoopStates /\ t.key = s.key /\ t.body = s.body /\ t.isRunning = s.isRunning
  BY <1>2, <1>3 DEF LoopStates, t
<1>5. u \in LoopStates /\ u.key = t.key /\ u.body = t.body /\ u.isRunning = t.isRunning
  BY <1>2, <1>4 DEF LoopStates, u
<1>6. s.runs = loop[i].runs /\ t.ghosts = loop[i].ghosts
  BY <1>1, <1>3 DEF LoopStates, s, t
<1>7. loop[i].body # "unborn"
  BY DEF Dispatch
<1>8. loop' = [loop EXCEPT ![i] = u]
  BY <1>1, <1>6 DEF Dispatch, u, t, s, g
<1> QED BY <1>1, <1>3, <1>4, <1>5, <1>7, <1>8, UpdateKeeps

LEMMA BodySteps ==
    ASSUME TypeOK, NEW i \in Loops, Body(i)
    PROVE  TypeOK' /\ Effect
<1>1. loop[i].body # "unborn"
  BY DEF Body, ExitLoop, HeapStop, StartupEnds, Iterate, PassGates, Defer, Dispatch
<1>2. Keeps(loop, loop')
  BY <1>1, MoveBodyKeeps, DispatchKeeps
     DEF Body, ExitLoop, HeapStop, StartupEnds, Iterate, PassGates, Defer, MoveBody
<1>3. Others /\ UNCHANGED <<loops, armed, trips, quotaBlocked>>
  BY DEF Body, ExitLoop, HeapStop, StartupEnds, Iterate, PassGates, Defer, Dispatch, MoveBody, Others
<1> QED BY <1>2, <1>3, LoopStep DEF LoopPart, TypeOK

(* The cooldown timer, and what else ends a pause of the breaker. *)

LEMMA ClearTimer ==
    ASSUME TypeOK, NEW k \in Keys, HasState(k)
    PROVE  /\ Keeps(loop, [loop EXCEPT ![loops[k]].cooldownTimer = 0])
           /\ Keeps(loop, [loop EXCEPT ![loops[k]] = [ResetFailures(@) EXCEPT !.cooldownTimer = 0]])
<1> DEFINE i == loops[k]
           s == [loop[i] EXCEPT !.cooldownTimer = 0]
           t == ResetFailures(loop[i])
           u == [t EXCEPT !.cooldownTimer = 0]
<1> HIDE DEF i, s, t, u
<1>1. i \in Loops /\ loop \in [Loops -> LoopStates] /\ loop[i] \in LoopStates
  BY StateExists DEF TypeOK, i
<1>2. s \in LoopStates /\ s.key = loop[i].key /\ s.body = loop[i].body /\ s.isRunning = loop[i].isRunning
  BY <1>1, Constants DEF LoopStates, s
<1>3. t \in LoopStates /\ t.key = loop[i].key /\ t.body = loop[i].body /\ t.isRunning = loop[i].isRunning
  BY <1>1, ResetFacts DEF t
<1>4. u \in LoopStates /\ u.key = t.key /\ u.body = t.body /\ u.isRunning = t.isRunning
  BY <1>3, Constants DEF LoopStates, u
<1>5. Keeps(loop, [loop EXCEPT ![i] = s]) /\ Keeps(loop, [loop EXCEPT ![i] = u])
  BY <1>1, <1>2, <1>3, <1>4, UpdateKeeps
<1> QED BY <1>5 DEF s, t, u, i

LEMMA CooldownSkipsStep ==
    ASSUME TypeOK, NEW t \in armed, CooldownSkips(t)
    PROVE  TypeOK' /\ Effect
<1>1. t[2] \in Keys /\ armed \ {t} \subseteq (1..MaxTrips) \X Keys
  BY DEF TypeOK
<1>2. Keeps(loop, loop')
  BY <1>1, ClearTimer, KeepsItself DEF CooldownSkips, TypeOK
<1> QED BY <1>1, <1>2, LoopStep DEF CooldownSkips, LoopPart, Others, TypeOK

LEMMA CooldownResumesStep ==
    ASSUME TypeOK, NEW t \in armed, NEW c \in Callers, CooldownResumes(t, c)
    PROVE  TypeOK' /\ Effect
<1>1. t[2] \in Keys /\ armed \ {t} \subseteq (1..MaxTrips) \X Keys
  BY DEF TypeOK
<1>2. Keeps(loop, loop')
  BY <1>1, ClearTimer DEF CooldownResumes
<1>3. start' \in Calls
  BY <1>1, EnterType DEF CooldownResumes, TypeOK, Calls, InStart
<1> QED BY <1>1, <1>2, <1>3
    DEF CooldownResumes, TypeOK, Calls, Effect, Keeps, appVars, fileVars, serverVars

LEMMA ControlSteps ==
    ASSUME TypeOK, NEW k \in Keys, ManualResumeAfterQuota(k) \/ PauseAutoLoop(k)
    PROVE  TypeOK' /\ Effect
<1>1. CASE ManualResumeAfterQuota(k)
  <2>1. Keeps(loop, loop')
    BY <1>1, ClearTimer, KeepsItself DEF ManualResumeAfterQuota, TypeOK
  <2>2. loops' = loops /\ trips' = trips /\ armed' \subseteq armed /\ quotaBlocked' = FALSE
    BY <1>1 DEF ManualResumeAfterQuota
  <2> QED BY <1>1, <2>1, <2>2, LoopStep DEF ManualResumeAfterQuota, LoopPart, Others, TypeOK
<1>2. CASE PauseAutoLoop(k)
  <2>1. loops[k] \in Loops /\ loop \in [Loops -> LoopStates] /\ loop[loops[k]] \in LoopStates
    BY <1>2, StateExists DEF PauseAutoLoop, TypeOK
  <2>2. Keeps(loop, [loop EXCEPT ![loops[k]] = PauseLoop(loop[loops[k]], "none")])
    BY <2>1, PauseFacts, UpdateKeeps
  <2> QED BY <1>2, <2>2, LoopStep DEF PauseAutoLoop, LoopPart, Others, TypeOK
<1> QED BY <1>1, <1>2

(* Loops that come and go. *)

LEMMA CreateFacts ==
    ASSUME TypeOK, NEW k \in Keys, CreateLoop(k)
    PROVE  /\ loops' \in [Keys -> 0..MaxLoops] /\ loop' \in [Loops -> LoopStates]
           /\ \A i \in Loops : \/ loop'[i] = loop[i]
                               \/ loop'[i].key = k /\ loops'[k] = i /\ loop'[i].isRunning
           /\ \A j \in Keys : j # k => loops'[j] = loops[j]
           /\ loops'[k] # 0 /\ loop'[loops'[k]].isRunning
           /\ loop[loops'[k]].body = "unborn" /\ loop'[loops'[k]].body # "unborn"
           /\ \A i \in Loops : i # loops'[k] => loop'[i] = loop[i]
<1>1. PICK n \in Loops : /\ loop' = [loop EXCEPT ![n] = NewLoopState(k)]
                         /\ loops' = [loops EXCEPT ![k] = n]
                         /\ loop[n].body = "unborn"
  BY DEF CreateLoop
<1>2. /\ NewLoopState(k) \in LoopStates /\ NewLoopState(k).key = k /\ NewLoopState(k).isRunning
      /\ NewLoopState(k).body = "startup"
  BY NewLoopFacts
<1>3. n \in 0..MaxLoops /\ n # 0
  BY Constants DEF Loops
<1>4. loops' \in [Keys -> 0..MaxLoops] /\ loop' \in [Loops -> LoopStates]
  BY <1>1, <1>2, <1>3 DEF TypeOK
<1>5. loops'[k] = n /\ \A j \in Keys : j # k => loops'[j] = loops[j]
  BY <1>1 DEF TypeOK
<1>6. loop'[n] = NewLoopState(k) /\ \A i \in Loops : i # n => loop'[i] = loop[i]
  BY <1>1 DEF TypeOK
<1>7. loops'[k] # 0
  BY <1>3, <1>5
<1>8. \A i \in Loops : \/ loop'[i] = loop[i]
                       \/ loop'[i].key = k /\ loops'[k] = i /\ loop'[i].isRunning
  BY <1>2, <1>5, <1>6
<1>9. loop'[loops'[k]].isRunning /\ loop[loops'[k]].body = "unborn" /\ loop'[loops'[k]].body # "unborn"
  BY <1>1, <1>2, <1>5, <1>6
<1>10. \A i \in Loops : i # loops'[k] => loop'[i] = loop[i]
  BY <1>5, <1>6
<1> QED BY <1>4, <1>5, <1>7, <1>8, <1>9, <1>10

LEMMA DropFacts ==
    ASSUME TypeOK, NEW k \in Keys, HasState(k), DropLoop(k)
    PROVE  /\ loops' = [loops EXCEPT ![k] = 0]
           /\ loops' \in [Keys -> 0..MaxLoops]
           /\ Keeps(loop, loop') /\ ~loop'[loops[k]].isRunning
           /\ armed' \subseteq (1..MaxTrips) \X Keys
<1>1. loops[k] \in Loops /\ loop \in [Loops -> LoopStates] /\ loop[loops[k]] \in LoopStates
  BY StateExists DEF TypeOK
<1>2. Keeps(loop, loop') /\ ~loop'[loops[k]].isRunning
  BY <1>1, StopFacts, UpdateKeeps DEF DropLoop
<1> QED BY <1>2, Constants DEF DropLoop, TypeOK

LEMMA StartSteps ==
    ASSUME TypeOK, NEW c \in Callers, StartLoop(c) \/ ResumeLoop(c)
    PROVE  TypeOK' /\ Effect
<1> DEFINE k == start[c].key
<1>1. k \in Keys
  BY DEF TypeOK
<1>2. Return(c) /\ UNCHANGED <<trips, quotaBlocked, appVars, fileVars, serverVars>>
  BY DEF StartLoop, ResumeLoop
<1>3. start' \in Calls /\ pendingLoopStarts' \subseteq Keys
  BY <1>2, ReturnType DEF TypeOK, Calls, StartLoop, ResumeLoop
<1>4. SUFFICES /\ loops' \in [Keys -> 0..MaxLoops] /\ loop' \in [Loops -> LoopStates]
               /\ armed' \subseteq (1..MaxTrips) \X Keys /\ Effect
  BY <1>2, <1>3 DEF TypeOK, Calls, appVars, fileVars, serverVars
<1>5. CASE StartLoop(c)
  <2>1. CASE ~IsRunning(k) /\ CreateLoop(k) /\ UNCHANGED armed
    <3>1. Effect
      BY <1>2, <1>5, <2>1 DEF Effect, Starts, StartLoop
    <3> QED BY <1>1, <2>1, <3>1, CreateFacts DEF TypeOK
  <2>2. CASE IsRunning(k) /\ DropLoop(k)
    BY <1>1, <2>2, DropFacts DEF Effect, IsRunning, Keeps
  <2> QED BY <1>5, <2>1, <2>2 DEF StartLoop
<1>6. CASE ResumeLoop(c)
  <2>1. CASE UNCHANGED <<loops, loop, armed>>
    BY <2>1, KeepsItself DEF Effect, TypeOK
  <2>2. CASE CreateLoop(k) /\ armed' \subseteq armed
    <3>1. Effect
      BY <1>2, <1>6, <2>2 DEF Effect, Starts, ResumeLoop
    <3> QED BY <1>1, <2>2, <3>1, CreateFacts DEF TypeOK
  <2> QED BY <1>6, <2>1, <2>2 DEF ResumeLoop
<1> QED BY <1>5, <1>6 DEF StartLoop, ResumeLoop

LEMMA StopSteps ==
    ASSUME TypeOK, NEW k \in Keys, StopAutoLoop(k) \/ PauseStops(k)
    PROVE  TypeOK' /\ Effect
<1>1. UNCHANGED <<startVars, quotaBlocked, pausedProjects, pauses, overtaken, executionState, serverVars, trips>>
  BY DEF StopAutoLoop, PauseStops, Stop, appVars, loopVars
<1>2. pausing' \in [at : {"idle", "registered", "stopping"}, todo : SUBSET Keys]
  BY Constants DEF TypeOK, StopAutoLoop, PauseStops, appVars
<1>3. \/ HasState(k) /\ DropLoop(k) /\ unlinks' = unlinks + 1
      \/ UNCHANGED <<loops, loop, armed, unlinks>>
  BY DEF StopAutoLoop, PauseStops, Stop, loopVars
<1>4. CASE HasState(k) /\ DropLoop(k) /\ unlinks' = unlinks + 1
  <2>1. Effect
    BY <1>4 DEF Effect
  <2> QED BY <1>1, <1>2, <1>4, <2>1, DropFacts DEF TypeOK, Keeps, startVars, serverVars
<1>5. CASE UNCHANGED <<loops, loop, armed, unlinks>>
  BY <1>1, <1>2, <1>5, KeepsItself DEF TypeOK, Effect, startVars, serverVars
<1> QED BY <1>3, <1>4, <1>5

LEMMA CrashFacts ==
    ASSUME TypeOK, Crash
    PROVE  TypeOK' /\ \A i \in Loops : ~loop'[i].isRunning
<1> DEFINE dead == [Unborn EXCEPT !.body = "exited", !.aborted = TRUE]
           half == [Unborn EXCEPT !.body = "exited"]
<1>1. Unborn \in LoopStates /\ ~Unborn.isRunning
  BY UnbornIsLoopState DEF Unborn
<1> HIDE DEF dead, half
<1>2. half \in LoopStates /\ half.isRunning = Unborn.isRunning
  BY <1>1 DEF LoopStates, half
<1>3. dead = [half EXCEPT !.aborted = TRUE]
  BY DEF dead, half
<1>4. dead \in LoopStates /\ dead.isRunning = Unborn.isRunning
  BY <1>2, <1>3 DEF LoopStates
<1>5. loop' = [i \in Loops |-> IF loop[i].body = "unborn" THEN Unborn ELSE dead]
  BY DEF Crash, dead
<1>6. loop' \in [Loops -> LoopStates] /\ \A i \in Loops : ~loop'[i].isRunning
  BY <1>1, <1>4, <1>5
<1>7. loops' \in [Keys -> 0..MaxLoops]
  BY Constants DEF Crash
<1>8. start' \in [Callers -> [at : {"idle"} \cup InStart \cup InResume, key : Keys]]
  BY Constants DEF Crash, Idle
<1>9. /\ armed' = {} /\ pendingLoopStarts' = {} /\ quotaBlocked' = FALSE /\ booted' = FALSE
      /\ pausing' = [at |-> "idle", todo |-> {}] /\ overtaken' = {} /\ unlinks' = 0 /\ crashes' \in 0..MaxCrashes
      /\ UNCHANGED <<trips, pausedProjects, pauses, executionState>>
  BY Constants DEF Crash, TypeOK
<1> QED BY <1>6, <1>7, <1>8, <1>9 DEF TypeOK

(* Every step keeps the types and has one of the four effects on the loops. *)
LEMMA StepEffect == ASSUME TypeOK, Next PROVE TypeOK' /\ Effect
<1>1. ASSUME NEW c \in Callers, StartStep(c) \/ ResumeStep(c) \/ BootResumes(c)
      PROVE  TypeOK' /\ Effect
  BY <1>1, CallSteps, StartSteps, Constants DEF StartStep, ResumeStep
<1>2. ASSUME NEW c \in Callers, NEW k \in Keys, CallStart(c, k) \/ CallResume(c, k)
      PROVE  TypeOK' /\ Effect
  BY <1>2, CallSteps
<1>3. ASSUME NEW k \in Keys,
             \/ StopAutoLoop(k) \/ ManualResumeAfterQuota(k) \/ PauseAutoLoop(k)
             \/ PauseStops(k) \/ ReportSuccess(k)
      PROVE  TypeOK' /\ Effect
  BY <1>3, StopSteps, ControlSteps, ReportSteps, Constants DEF FailureTypes
<1>4. ASSUME NEW t \in armed, CooldownSkips(t)
      PROVE  TypeOK' /\ Effect
  BY <1>4, CooldownSkipsStep
<1>5. ASSUME NEW t \in armed, NEW c \in Callers, CooldownResumes(t, c)
      PROVE  TypeOK' /\ Effect
  BY <1>5, CooldownResumesStep
<1>6. ASSUME NEW i \in Loops, Body(i) \/ RunOutcome(i)
      PROVE  TypeOK' /\ Effect
  BY <1>6, BodySteps, RunSteps, Constants DEF RunOutcome, FailureTypes
<1>7. ASSUME NEW n \in 0..FailureThreshold, NEW type \in FailureTypes, Failure(n, type)
      PROVE  TypeOK' /\ Effect
  BY <1>7, RunSteps, ReportSteps DEF Failure
<1>8. CASE Unlink \/ RegisterPause \/ ResumeProject \/ BootSkips
  BY <1>8, AppSteps
<1>9. CASE Crash
  BY <1>9, CrashFacts DEF Effect
<1> QED BY <1>1, <1>2, <1>3, <1>4, <1>5, <1>6, <1>7, <1>8, <1>9 DEF Next

--------------------------------------------------------------------------------
(* The types of all reachable states. *)

LEMMA InitTypes == Init => TypeOK
<1> SUFFICES ASSUME Init PROVE TypeOK
  OBVIOUS
<1>1. loops \in [Keys -> 0..MaxLoops] /\ loop \in [Loops -> LoopStates]
  BY UnbornIsLoopState, Constants DEF Init
<1>2. start \in [Callers -> [at : {"idle"} \cup InStart \cup InResume, key : Keys]]
  BY Constants DEF Init, Idle
<1>3. pausing \in [at : {"idle", "registered", "stopping"}, todo : SUBSET Keys]
  BY DEF Init
<1>4. trips \in 0..MaxTrips /\ pauses \in 0..MaxPauses /\ crashes \in 0..MaxCrashes
  BY Constants DEF Init
<1>5. /\ armed = {} /\ pendingLoopStarts = {} /\ executionState = "none" /\ unlinks = 0
      /\ quotaBlocked = FALSE /\ pausedProjects = FALSE /\ booted = TRUE /\ overtaken = {}
  BY DEF Init
<1> QED BY <1>1, <1>2, <1>3, <1>4, <1>5 DEF TypeOK

(* Every variable keeps its type, TypeOK: in particular a loop in the        *)
(* coordinator's map is a loop that was created.                             *)
THEOREM TypeCorrect == Spec => []TypeOK
<1>1. TypeOK /\ [Next]_vars => TypeOK'
  <2>1. CASE UNCHANGED vars
    BY <2>1 DEF TypeOK, vars, loopVars, startVars, appVars, fileVars, serverVars
  <2> QED BY <2>1, StepEffect
<1> QED BY InitTypes, <1>1, PTL DEF Spec

--------------------------------------------------------------------------------
(* The claims.  A step either leaves the holders and the claims alone, lets  *)
(* one call claim a free worktree, or lets one holder return.                *)

CallEffect ==
    \/ /\ UNCHANGED pendingLoopStarts
       /\ Holders' = Holders /\ \A c \in Holders : start'[c].key = start[c].key
    \/ \E c \in Callers :
        /\ ~IsRunning(start[c].key) /\ start[c].key \notin pendingLoopStarts
        /\ pendingLoopStarts' = pendingLoopStarts \cup {start[c].key}
        /\ start' = [start EXCEPT ![c].at = "claimed"]
        /\ UNCHANGED <<loops, loop>>
    \/ \E c \in Callers : StartLoop(c)
    \/ Crash

LEMMA HoldersKept ==
    ASSUME start \in Calls, NEW c \in Callers, NEW r,
           r.key = start[c].key \/ start[c].at \notin {"claimed", "saved"},
           r.at \in {"claimed", "saved"} <=> start[c].at \in {"claimed", "saved"},
           start' = [start EXCEPT ![c] = r], UNCHANGED pendingLoopStarts
    PROVE  CallEffect
<1>1. \A d \in Callers : start'[d] = IF d = c THEN r ELSE start[d]
  BY DEF Calls
<1>2. Holders' = Holders
  BY <1>1 DEF Holders
<1>3. \A d \in Holders : start'[d].key = start[d].key
  BY <1>1 DEF Holders
<1> QED BY <1>2, <1>3 DEF CallEffect

LEMMA CallEffectStep == ASSUME TypeOK, Next PROVE CallEffect
<1> USE DEF Holders
<1>1. start \in Calls
  BY DEF TypeOK, Calls
<1>2. ASSUME UNCHANGED startVars PROVE CallEffect
  BY <1>2 DEF CallEffect, startVars
<1>3. ASSUME NEW c \in Callers, NEW k, NEW at \in {"gate", "resumeGate"}, Enter(c, at, k), UNCHANGED pendingLoopStarts
      PROVE  CallEffect
  <2> DEFINE r == [at |-> at, key |-> k]
  <2>1. r.at \notin {"claimed", "saved"} /\ start' = [start EXCEPT ![c] = r]
    BY <1>3 DEF Enter
  <2>2. start[c].at = "idle"
    BY <1>3 DEF Enter
  <2> QED BY <1>1, <1>3, <2>1, <2>2, HoldersKept
<1>4. ASSUME NEW c \in Callers, Return(c), start[c].at \notin {"claimed", "saved"}, UNCHANGED pendingLoopStarts
      PROVE  CallEffect
  <2>1. Idle.at \notin {"claimed", "saved"} /\ start' = [start EXCEPT ![c] = Idle]
    BY <1>4 DEF Return, Idle
  <2> QED BY <1>1, <1>4, <2>1, HoldersKept
<1>5. ASSUME NEW c \in Callers, NEW at, Move(c, at), UNCHANGED pendingLoopStarts,
             at \in {"claimed", "saved"} <=> start[c].at \in {"claimed", "saved"}
      PROVE  CallEffect
  <2> DEFINE r == [start[c] EXCEPT !.at = at]
  <2>1. r.at = at /\ r.key = start[c].key /\ start' = [start EXCEPT ![c] = r]
    BY <1>1, <1>5 DEF Move, Calls
  <2> HIDE DEF r
  <2> QED BY <1>1, <1>5, <2>1, HoldersKept
<1>6. ASSUME NEW c \in Callers, StartStep(c) PROVE CallEffect
  <2>1. CASE GateRefuses(c)
    BY <2>1, <1>4 DEF GateRefuses
  <2>2. CASE GatePasses(c)
    BY <2>2, <1>5 DEF GatePasses
  <2>3. CASE Claim(c)
    BY <2>3, <1>4 DEF Claim, CallEffect, Move, loopVars
  <2>4. CASE SaveState(c)
    BY <2>4, <1>5 DEF SaveState
  <2>5. CASE StartLoop(c)
    BY <2>5 DEF CallEffect
  <2> QED BY <1>6, <2>1, <2>2, <2>3, <2>4, <2>5 DEF StartStep
<1>7. ASSUME NEW c \in Callers, ResumeStep(c) PROVE CallEffect
  BY <1>4, <1>5, <1>7 DEF ResumeStep, ReadResumeGate, ResumeLoop
<1>8. ASSUME NEW c \in Callers, NEW k \in Keys, CallStart(c, k) \/ CallResume(c, k) PROVE CallEffect
  BY <1>3, <1>8 DEF CallStart, CallResume
<1>9. ASSUME NEW c \in Callers, BootResumes(c) PROVE CallEffect
  BY <1>3, <1>9 DEF BootResumes
<1>10. ASSUME NEW t \in armed, NEW c \in Callers, CooldownResumes(t, c) PROVE CallEffect
  BY <1>3, <1>10 DEF CooldownResumes
<1>11. ASSUME NEW k \in Keys, StopAutoLoop(k) \/ ManualResumeAfterQuota(k) \/ PauseAutoLoop(k)
                              \/ PauseStops(k) \/ ReportSuccess(k)
       PROVE  CallEffect
  BY <1>2, <1>11 DEF StopAutoLoop, ManualResumeAfterQuota, PauseAutoLoop, PauseStops, ReportSuccess
<1>12. ASSUME NEW t \in armed, CooldownSkips(t) PROVE CallEffect
  BY <1>2, <1>12 DEF CooldownSkips
<1>13. ASSUME NEW i \in Loops, Body(i) \/ RunOutcome(i) PROVE CallEffect
  BY <1>2, <1>13 DEF Body, ExitLoop, HeapStop, StartupEnds, Iterate, PassGates, Defer, Dispatch, MoveBody,
     RunOutcome, RunSucceeds, RunEnds
<1>14. ASSUME NEW n, NEW type, Failure(n, type) PROVE CallEffect
  BY <1>2, <1>14 DEF Failure, RunFails, ReportFailure
<1>15. CASE Unlink \/ RegisterPause \/ ResumeProject \/ BootSkips
  BY <1>2, <1>15 DEF Unlink, RegisterPause, ResumeProject, BootSkips
<1>16. CASE Crash
  BY <1>16 DEF CallEffect
<1> QED BY <1>6, <1>7, <1>8, <1>9, <1>10, <1>11, <1>12, <1>13, <1>14, <1>15, <1>16 DEF Next

LEMMA ClaimsStep ==
    ASSUME TypeOK, ClaimsAreExclusive, CallEffect
    PROVE  ClaimsAreExclusive'
<1>1. start \in Calls
  BY DEF TypeOK, Calls
<1>2. CASE /\ UNCHANGED pendingLoopStarts
           /\ Holders' = Holders /\ \A c \in Holders : start'[c].key = start[c].key
  BY <1>2 DEF ClaimsAreExclusive
<1>3. ASSUME NEW c \in Callers, start[c].key \notin pendingLoopStarts,
             pendingLoopStarts' = pendingLoopStarts \cup {start[c].key},
             start' = [start EXCEPT ![c].at = "claimed"]
      PROVE  ClaimsAreExclusive'
  <2>1. \A d \in Callers : start'[d].key = start[d].key
    BY <1>1, <1>3 DEF Calls
  <2>2. Holders' = Holders \cup {c}
    BY <1>1, <1>3 DEF Calls, Holders
  <2>3. \A d \in Holders : start[d].key # start[c].key
    BY <1>3 DEF ClaimsAreExclusive
  <2>4. Holders \subseteq Callers
    BY DEF Holders
  <2>5. pendingLoopStarts' = {start'[d].key : d \in Holders'}
    BY <1>3, <2>1, <2>2, <2>4 DEF ClaimsAreExclusive
  <2>6. \A d, e \in Holders' : start'[d].key = start'[e].key => d = e
    BY <2>1, <2>2, <2>3, <2>4 DEF ClaimsAreExclusive
  <2> QED BY <2>5, <2>6 DEF ClaimsAreExclusive
<1>4. ASSUME NEW c \in Callers, StartLoop(c)
      PROVE  ClaimsAreExclusive'
  <2>0. /\ start[c].at = "saved"
        /\ pendingLoopStarts' = pendingLoopStarts \ {start[c].key}
        /\ start' = [start EXCEPT ![c] = Idle]
    BY <1>4 DEF StartLoop, Return
  <2>1. \A d \in Callers : d # c => start'[d] = start[d]
    BY <1>1, <2>0 DEF Calls
  <2>2. start'[c].at = "idle"
    BY <1>1, <2>0 DEF Calls, Idle
  <2>3. Holders' = Holders \ {c} /\ c \in Holders /\ Holders \subseteq Callers
    BY <2>0, <2>1, <2>2 DEF Holders
  <2>4. \A d \in Holders' : start'[d].key = start[d].key /\ start[d].key # start[c].key
    BY <2>1, <2>3 DEF ClaimsAreExclusive
  <2>5. pendingLoopStarts' = {start'[d].key : d \in Holders'}
    BY <2>0, <2>3, <2>4 DEF ClaimsAreExclusive
  <2>6. \A d, e \in Holders' : start'[d].key = start'[e].key => d = e
    BY <2>3, <2>4 DEF ClaimsAreExclusive
  <2> QED BY <2>5, <2>6 DEF ClaimsAreExclusive
<1>5. CASE Crash
  BY <1>5 DEF Crash, ClaimsAreExclusive, Holders, Idle
<1> QED BY <1>2, <1>3, <1>4, <1>5 DEF CallEffect

(* pendingLoopStarts is a lock per worktree: at every moment its members are *)
(* the worktrees of the calls between the claim and the finally of           *)
(* startAutoLoopForProject, and no two of them have the same one.            *)
THEOREM ClaimsExclusive == Spec => []ClaimsAreExclusive
<1>1. Init => ClaimsAreExclusive
  BY DEF Init, ClaimsAreExclusive, Holders, Idle
<1>2. TypeOK /\ ClaimsAreExclusive /\ [Next]_vars => ClaimsAreExclusive'
  <2>1. CASE UNCHANGED vars
    BY <2>1 DEF ClaimsAreExclusive, Holders, vars, startVars
  <2> QED BY <2>1, CallEffectStep, ClaimsStep
<1> QED BY <1>1, <1>2, TypeCorrect, PTL DEF Spec

--------------------------------------------------------------------------------
(* The loops.  Without the public methods nobody calls, a loop is created    *)
(* only by a holder, and no holder's worktree has a running loop.            *)

NoResumeCall == \A c \in Callers : start[c].at \notin InResume
ClaimedKeysDoNotRun == \A c \in Holders : ~IsRunning(start[c].key)

LEMMA LiveStep ==
    ASSUME TypeOK, LiveLoopIsReachable, NoResumeCall, TypeOK', Effect
    PROVE  LiveLoopIsReachable'
<1>1. CASE loops' = loops /\ Keeps(loop, loop')
  BY <1>1 DEF LiveLoopIsReachable, Keeps
<1>2. ASSUME NEW k \in Keys, HasState(k), DropLoop(k)
      PROVE  LiveLoopIsReachable'
  <2>1. /\ loops' = [loops EXCEPT ![k] = 0]
        /\ Keeps(loop, loop') /\ ~loop'[loops[k]].isRunning
    BY <1>2, DropFacts
  <2>2. SUFFICES ASSUME NEW i \in Loops, loop'[i].isRunning
                 PROVE  loops'[loop'[i].key] = i
    BY DEF LiveLoopIsReachable
  <2>3. loop[i].isRunning /\ loop'[i].key = loop[i].key /\ loop[i].key \in Keys
    BY <2>1, <2>2, Selected DEF Keeps, TypeOK
  <2>4. loops[loop[i].key] = i
    BY <2>3 DEF LiveLoopIsReachable
  <2>5. loop[i].key # k
    BY <2>1, <2>2, <2>4
  <2> QED BY <2>1, <2>3, <2>4, <2>5 DEF TypeOK
<1>3. ASSUME NEW c \in Callers, Starts(c)
      PROVE  LiveLoopIsReachable'
  <2> DEFINE k == start[c].key
  <2>1. k \in Keys /\ CreateLoop(k) /\ ~IsRunning(k)
    BY <1>3 DEF Starts, NoResumeCall, InResume, TypeOK
  <2> HIDE DEF k
  <2>2. SUFFICES ASSUME NEW i \in Loops, loop'[i].isRunning
                 PROVE  loops'[loop'[i].key] = i
    BY DEF LiveLoopIsReachable
  <2>3. CASE loop'[i] = loop[i]
    <3>1. loop[i].key \in Keys /\ loops[loop[i].key] = i
      BY <2>2, <2>3, Selected DEF LiveLoopIsReachable, TypeOK
    <3>2. loop[i].key # k
      BY <2>1, <2>2, <2>3, <3>1, Constants DEF IsRunning, HasState, StateOf, Loops
    <3> QED BY <2>1, <2>3, <3>1, <3>2, CreateFacts
  <2>4. CASE loop'[i].key = k /\ loops'[k] = i
    BY <2>4
  <2> QED BY <2>1, <2>3, <2>4, CreateFacts
<1>4. CASE Crash
  BY <1>4, CrashFacts DEF LiveLoopIsReachable
<1> QED BY <1>1, <1>2, <1>3, <1>4 DEF Effect

--------------------------------------------------------------------------------
(* What a step may do to one call.  Only a call that reads the registry of   *)
(* paused apps, and finds the app not paused, gets past its gate.            *)

Moves(a, b) ==
    \/ b = a
    \/ b.at = "idle"
    \/ b.at = "gate"
    \/ b.at = "resumeGate" /\ ExternalControl
    \/ b.at = "gated" /\ ~pausedProjects
    \/ a.at = "resumeGate" /\ b.at = "resumeGated" /\ ~pausedProjects
    \/ a.at \in {"gated", "claimed"} /\ b.at \in {"claimed", "saved"} /\ b.key = a.key

LEMMA CallMoves == ASSUME TypeOK, Next, NEW d \in Callers PROVE Moves(start[d], start'[d])
<1>1. start \in Calls
  BY DEF TypeOK, Calls
<1>2. ASSUME UNCHANGED startVars PROVE Moves(start[d], start'[d])
  BY <1>2 DEF Moves, startVars
<1>3. ASSUME NEW c \in Callers, NEW r, start' = [start EXCEPT ![c] = r], Moves(start[c], r)
      PROVE  Moves(start[d], start'[d])
  BY <1>1, <1>3 DEF Moves, Calls
<1>4. ASSUME NEW c \in Callers, NEW k, Enter(c, "gate", k) PROVE Moves(start[d], start'[d])
  BY <1>3, <1>4 DEF Enter, Moves
<1>5. ASSUME NEW c \in Callers, Return(c) PROVE Moves(start[d], start'[d])
  BY <1>3, <1>5 DEF Return, Moves, Idle
<1>6. ASSUME NEW c \in Callers, NEW at, Move(c, at),
             \A r : r.at = at /\ r.key = start[c].key => Moves(start[c], r)
      PROVE  Moves(start[d], start'[d])
  <2> DEFINE r == [start[c] EXCEPT !.at = at]
  <2>1. r.at = at /\ r.key = start[c].key /\ start' = [start EXCEPT ![c] = r]
    BY <1>1, <1>6 DEF Move, Calls
  <2> HIDE DEF r
  <2> QED BY <1>3, <1>6, <2>1
<1>7. ASSUME NEW c \in Callers, StartStep(c) PROVE Moves(start[d], start'[d])
  <2>1. CASE GateRefuses(c)
    BY <2>1, <1>5 DEF GateRefuses
  <2>2. CASE GatePasses(c)
    BY <2>2, <1>6 DEF GatePasses, Moves
  <2>3. CASE Claim(c)
    BY <2>3, <1>5, <1>6 DEF Claim, Moves
  <2>4. CASE SaveState(c)
    BY <2>4, <1>6 DEF SaveState, Moves
  <2>5. CASE StartLoop(c)
    BY <2>5, <1>5 DEF StartLoop
  <2> QED BY <1>7, <2>1, <2>2, <2>3, <2>4, <2>5 DEF StartStep
<1>8. ASSUME NEW c \in Callers, ResumeStep(c) PROVE Moves(start[d], start'[d])
  BY <1>5, <1>6, <1>8 DEF ResumeStep, ReadResumeGate, ResumeLoop, Moves
<1>9. ASSUME NEW c \in Callers, NEW k \in Keys, CallStart(c, k) PROVE Moves(start[d], start'[d])
  BY <1>4, <1>9 DEF CallStart
<1>10. ASSUME NEW c \in Callers, NEW k \in Keys, CallResume(c, k) PROVE Moves(start[d], start'[d])
  BY <1>3, <1>10 DEF CallResume, Enter, Moves
<1>11. ASSUME NEW c \in Callers, BootResumes(c) PROVE Moves(start[d], start'[d])
  BY <1>4, <1>11 DEF BootResumes
<1>12. ASSUME NEW t \in armed, NEW c \in Callers, CooldownResumes(t, c) PROVE Moves(start[d], start'[d])
  BY <1>4, <1>12 DEF CooldownResumes
<1>13. ASSUME NEW k \in Keys, StopAutoLoop(k) \/ ManualResumeAfterQuota(k) \/ PauseAutoLoop(k)
                              \/ PauseStops(k) \/ ReportSuccess(k)
       PROVE  Moves(start[d], start'[d])
  BY <1>2, <1>13 DEF StopAutoLoop, ManualResumeAfterQuota, PauseAutoLoop, PauseStops, ReportSuccess
<1>14. ASSUME NEW t \in armed, CooldownSkips(t) PROVE Moves(start[d], start'[d])
  BY <1>2, <1>14 DEF CooldownSkips
<1>15. ASSUME NEW i \in Loops, Body(i) \/ RunOutcome(i) PROVE Moves(start[d], start'[d])
  BY <1>2, <1>15 DEF Body, ExitLoop, HeapStop, StartupEnds, Iterate, PassGates, Defer, Dispatch, MoveBody,
     RunOutcome, RunSucceeds, RunEnds
<1>16. ASSUME NEW n, NEW type, Failure(n, type) PROVE Moves(start[d], start'[d])
  BY <1>2, <1>16 DEF Failure, RunFails, ReportFailure
<1>17. CASE Unlink \/ RegisterPause \/ ResumeProject \/ BootSkips
  BY <1>2, <1>17 DEF Unlink, RegisterPause, ResumeProject, BootSkips
<1>18. CASE Crash
  BY <1>18 DEF Crash, Moves, Idle
<1> QED BY <1>7, <1>8, <1>9, <1>10, <1>11, <1>12, <1>13, <1>14, <1>15, <1>16, <1>17, <1>18 DEF Next

LEMMA NoResumeStep ==
    ASSUME TypeOK, TypeOK', ~ExternalControl, NoResumeCall, Next
    PROVE  NoResumeCall'
BY CallMoves DEF NoResumeCall, InResume, Moves

(* A loop in the map was created. *)
MappedLoopsAreBorn == \A k \in Keys : HasState(k) => StateOf(k).body # "unborn"

LEMMA BornStep ==
    ASSUME TypeOK, MappedLoopsAreBorn, TypeOK', Effect
    PROVE  MappedLoopsAreBorn'
<1> USE DEF MappedLoopsAreBorn, HasState, StateOf
<1>1. CASE loops' = loops /\ Keeps(loop, loop')
  BY <1>1, StateExists DEF Keeps
<1>2. ASSUME NEW k \in Keys, HasState(k), DropLoop(k)
      PROVE  MappedLoopsAreBorn'
  BY <1>2, DropFacts, StateExists DEF Keeps, TypeOK
<1>3. ASSUME NEW c \in Callers, Starts(c)
      PROVE  MappedLoopsAreBorn'
  <2>1. start[c].key \in Keys
    BY DEF TypeOK
  <2> QED BY <1>3, <2>1, CreateFacts, StateExists DEF Starts
<1>4. CASE Crash
  BY <1>4 DEF Crash
<1> QED BY <1>1, <1>2, <1>3, <1>4 DEF Effect

(* Whether worktree k runs in the map m and the loops f. *)
RunsIn(m, f, k) == m[k] # 0 /\ f[m[k]].isRunning

LEMMA RunsNow == \A k : IsRunning(k) <=> RunsIn(loops, loop, k)
BY DEF IsRunning, HasState, StateOf, RunsIn

LEMMA ClaimedNext ==
    (\A d \in Holders' : ~RunsIn(loops', loop', start'[d].key)) => ClaimedKeysDoNotRun'
BY DEF ClaimedKeysDoNotRun, IsRunning, HasState, StateOf, RunsIn

(* Nothing but a start or a resume makes a worktree run. *)
LEMMA OnlyStartsRun ==
    ASSUME TypeOK, TypeOK', Effect, \A c \in Callers : ~Starts(c), NEW j \in Keys, ~IsRunning(j)
    PROVE  ~RunsIn(loops', loop', j)
<1>1. ~RunsIn(loops, loop, j)
  BY RunsNow
<1>2. CASE loops' = loops /\ Keeps(loop, loop')
  BY <1>1, <1>2, StateExists DEF RunsIn, HasState, Keeps
<1>3. ASSUME NEW k \in Keys, HasState(k), DropLoop(k) PROVE ~RunsIn(loops', loop', j)
  BY <1>1, <1>3, DropFacts, StateExists DEF RunsIn, HasState, Keeps, TypeOK
<1>4. CASE Crash
  BY <1>4 DEF Crash, RunsIn
<1> QED BY <1>2, <1>3, <1>4 DEF Effect

LEMMA ClaimedStep ==
    ASSUME TypeOK, TypeOK', ClaimsAreExclusive, MappedLoopsAreBorn, NoResumeCall, ClaimedKeysDoNotRun,
           Effect, CallEffect
    PROVE  ClaimedKeysDoNotRun'
<1>1. start \in Calls /\ Holders \subseteq Callers
  BY DEF TypeOK, Calls, Holders
<1>2. CASE Crash
  BY <1>2, ClaimedNext DEF Crash, RunsIn, Holders, Idle, TypeOK
<1>3. ASSUME NEW c \in Callers, ~IsRunning(start[c].key),
             start' = [start EXCEPT ![c].at = "claimed"], UNCHANGED <<loops, loop>>
      PROVE  ClaimedKeysDoNotRun'
  <2>1. \A d \in Callers : start'[d].key = start[d].key
    BY <1>1, <1>3 DEF Calls
  <2>2. Holders' \subseteq Holders \cup {c}
    BY <1>1, <1>3 DEF Calls, Holders
  <2>3. \A d \in Holders' : ~IsRunning(start[d].key)
    BY <1>3, <2>2 DEF ClaimedKeysDoNotRun
  <2>4. \A d \in Holders' : ~RunsIn(loops, loop, start'[d].key)
    BY <1>1, <2>1, <2>2, <2>3, RunsNow
  <2> QED BY <1>3, <2>4, ClaimedNext
<1>4. ASSUME NEW c \in Callers, StartLoop(c)
      PROVE  ClaimedKeysDoNotRun'
  <2> DEFINE k == start[c].key
  <2>1. c \in Holders /\ start' = [start EXCEPT ![c] = Idle] /\ k \in Keys
    BY <1>4 DEF StartLoop, Return, Holders, TypeOK
  <2>2. ~IsRunning(k) /\ CreateLoop(k)
    BY <1>4, <2>1 DEF StartLoop, ClaimedKeysDoNotRun
  <2>3. \A d \in Holders' : d \in Holders /\ d # c /\ start'[d] = start[d]
    BY <1>1, <2>1 DEF Calls, Holders, Idle
  <2>4. SUFFICES ASSUME NEW d \in Holders' PROVE ~RunsIn(loops', loop', start'[d].key)
    BY ClaimedNext
  <2> DEFINE j == start[d].key
  <2>5. j \in Keys /\ j # k /\ start'[d].key = j /\ ~IsRunning(j)
    BY <1>1, <2>1, <2>3 DEF ClaimsAreExclusive, ClaimedKeysDoNotRun, TypeOK
  <2> HIDE DEF j, k
  <2>6. loops'[j] = loops[j] /\ ~RunsIn(loops, loop, j)
    BY <2>1, <2>2, <2>5, CreateFacts, RunsNow
  <2>7. CASE loops[j] = 0
    BY <2>5, <2>6, <2>7 DEF RunsIn
  <2>8. CASE loops[j] # 0
    <3>1. loops[j] \in Loops /\ loop[loops[j]].body # "unborn"
      BY <2>5, <2>8, StateExists DEF MappedLoopsAreBorn, HasState, StateOf
    <3>2. loop'[loops[j]] = loop[loops[j]]
      BY <2>1, <2>2, <3>1, CreateFacts
    <3> QED BY <2>5, <2>6, <3>2 DEF RunsIn
  <2> QED BY <2>7, <2>8
<1>5. CASE Holders' = Holders /\ \A c \in Holders : start'[c].key = start[c].key
  <2>1. ASSUME NEW c \in Callers, Starts(c) PROVE FALSE
    <3>1. c \in Holders /\ start'[c].at = "idle"
      BY <1>1, <2>1 DEF Starts, Return, NoResumeCall, InResume, Holders, Calls, Idle
    <3> QED BY <1>5, <3>1 DEF Holders
  <2>2. \A d \in Holders : start[d].key \in Keys /\ ~IsRunning(start[d].key)
    BY <1>1 DEF ClaimedKeysDoNotRun, TypeOK
  <2>3. \A d \in Holders : ~RunsIn(loops', loop', start[d].key)
    BY <2>1, <2>2, OnlyStartsRun
  <2> QED BY <1>5, <2>3, ClaimedNext
<1> QED BY <1>2, <1>3, <1>4, <1>5 DEF CallEffect

(* In a server that calls none of the unused public methods, a loop that     *)
(* runs is the one in the coordinator's map: stop, pause and shutdown reach  *)
(* it.  No worktree ever has two loops that run.                             *)
THEOREM LiveLoopsReachable ==
    ASSUME ~ExternalControl
    PROVE  Spec => []LiveLoopIsReachable
<1>1. Init => LiveLoopIsReachable /\ NoResumeCall
  BY DEF Init, LiveLoopIsReachable, NoResumeCall, InResume, Unborn, Idle
<1>2. TypeOK /\ TypeOK' /\ LiveLoopIsReachable /\ NoResumeCall /\ [Next]_vars
        => LiveLoopIsReachable' /\ NoResumeCall'
  <2>1. ASSUME UNCHANGED vars, LiveLoopIsReachable, NoResumeCall PROVE LiveLoopIsReachable' /\ NoResumeCall'
    BY <2>1 DEF LiveLoopIsReachable, NoResumeCall, vars, loopVars, startVars
  <2> QED BY <2>1, StepEffect, LiveStep, NoResumeStep
<1> QED BY <1>1, <1>2, TypeCorrect, PTL DEF Spec

StartInv == ClaimsAreExclusive /\ NoResumeCall /\ MappedLoopsAreBorn /\ ClaimedKeysDoNotRun

LEMMA StartInvariant ==
    ASSUME ~ExternalControl
    PROVE  Spec => []StartInv
<1>1. Init => NoResumeCall /\ MappedLoopsAreBorn /\ ClaimedKeysDoNotRun
  BY DEF Init, NoResumeCall, InResume, MappedLoopsAreBorn, HasState, ClaimedKeysDoNotRun, Holders, Idle
<1>2. TypeOK /\ TypeOK' /\ StartInv /\ [Next]_vars => NoResumeCall' /\ MappedLoopsAreBorn' /\ ClaimedKeysDoNotRun'
  <2>1. ASSUME UNCHANGED vars, StartInv PROVE NoResumeCall' /\ MappedLoopsAreBorn' /\ ClaimedKeysDoNotRun'
    <3>1. loops' = loops /\ loop' = loop /\ start' = start
      BY <2>1 DEF vars, loopVars, startVars
    <3>2. NoResumeCall' /\ MappedLoopsAreBorn'
      BY <2>1, <3>1 DEF StartInv, NoResumeCall, MappedLoopsAreBorn, HasState, StateOf
    <3>3. \A d \in Holders' : ~RunsIn(loops', loop', start'[d].key)
      BY <2>1, <3>1, RunsNow DEF StartInv, ClaimedKeysDoNotRun, Holders
    <3> QED BY <3>2, <3>3, ClaimedNext
  <2> QED BY <2>1, StepEffect, CallEffectStep, NoResumeStep, BornStep, ClaimedStep DEF StartInv
<1> QED BY <1>1, <1>2, TypeCorrect, ClaimsExclusive, PTL DEF Spec, StartInv

(* The stop in the catch of startAutoLoopForProject never hits a loop that   *)
(* another call started: in a server that calls none of the unused public    *)
(* methods, the worktree of a claim has no loop that runs, so startLoop does *)
(* not throw.                                                                *)
THEOREM StartsStopNoLoop ==
    ASSUME ~ExternalControl
    PROVE  Spec => StartStopsNoLoop
<1> DEFINE Returns == \E c \in Callers : start[c].at = "saved" /\ start'[c].at = "idle" /\ crashes' = crashes
           Kept == \A i \in Loops : loop[i].isRunning => loop'[i].isRunning
<1>1. ASSUME TypeOK, StartInv, Next, Returns PROVE Kept
  <2>1. start \in Calls /\ crashes \in Nat
    <3>1. start \in Calls /\ crashes \in 0..MaxCrashes
      BY <1>1 DEF TypeOK, Calls
    <3> QED BY <3>1, Constants
  <2>2. PICK c \in Callers : start[c].at = "saved" /\ start'[c].at = "idle" /\ crashes' = crashes
    BY <1>1
  <2>3. c \in Holders /\ c \notin Holders'
    BY <2>2 DEF Holders
  <2>4. ASSUME NEW d \in Callers, start' = [start EXCEPT ![d].at = "claimed"] PROVE FALSE
    BY <2>1, <2>2, <2>4 DEF Calls
  <2>5. ~Crash
    BY <2>1, <2>2 DEF Crash
  <2>6. PICK d \in Callers : StartLoop(d)
    BY <1>1, <2>3, <2>4, <2>5, CallEffectStep DEF CallEffect
  <2>7. start[d].key \in Keys /\ ~IsRunning(start[d].key)
    BY <1>1, <2>6 DEF StartLoop, StartInv, ClaimedKeysDoNotRun, Holders, TypeOK
  <2>8. CreateLoop(start[d].key)
    BY <2>6, <2>7 DEF StartLoop
  <2> QED BY <1>1, <2>7, <2>8, CreateFacts
<1>2. TypeOK /\ StartInv /\ [Next]_vars => [Returns => Kept]_vars
  BY <1>1
<1> QED BY <1>2, TypeCorrect, StartInvariant, PTL DEF Spec, StartStopsNoLoop

--------------------------------------------------------------------------------
(* The dispatches of a stopped loop. *)

(* What every step but a dispatch, a start and a crash makes of a loop: it    *)
(* never comes back from a stop, and once stopped it gets no further than the *)
(* head of its loop.                                                          *)
Ages(s, t) ==
    /\ t.ghosts = s.ghosts
    /\ s.aborted => t.aborted
    /\ (s.aborted /\ s.body \in {"head", "exited"}) => t.body \in {"head", "exited"}

AllAge(f, g) == \A i \in Loops : Ages(f[i], g[i])

LEMMA AgeTransitive ==
    ASSUME NEW f, NEW g, NEW h, AllAge(f, g), AllAge(g, h)
    PROVE  AllAge(f, h)
BY DEF AllAge, Ages

LEMMA AgeItself == \A f : AllAge(f, f)
BY DEF AllAge, Ages

LEMMA UpdateAges ==
    ASSUME NEW f \in [Loops -> LoopStates], NEW i \in Loops, NEW s, Ages(f[i], s)
    PROVE  AllAge(f, [f EXCEPT ![i] = s])
BY DEF AllAge, Ages

LEMMA StopAges == ASSUME NEW s \in LoopStates PROVE Ages(s, StopLoop(s))
<1> DEFINE a == [s EXCEPT !.isRunning = FALSE]
           b == [a EXCEPT !.aborted = TRUE]
           c == [b EXCEPT !.cooldownTimer = 0]
<1> HIDE DEF a, b, c
<1>1. a \in LoopStates /\ a.ghosts = s.ghosts /\ a.body = s.body
  BY DEF LoopStates, a
<1>2. b \in LoopStates /\ b.ghosts = s.ghosts /\ b.body = s.body /\ b.aborted
  BY <1>1 DEF LoopStates, b
<1>3. c.ghosts = s.ghosts /\ c.body = s.body /\ c.aborted
  BY <1>2 DEF LoopStates, c
<1> QED BY <1>3 DEF Ages, StopLoop, a, b, c

LEMMA PauseAges ==
    ASSUME NEW s \in LoopStates, NEW type \in {"none"} \cup FailureTypes
    PROVE  Ages(s, PauseLoop(s, type))
<1> DEFINE t == IF type = "none" THEN s.lastCircuitBreakerFailureType ELSE type
           a == [s EXCEPT !.isPaused = TRUE]
           b == [a EXCEPT !.isRunning = FALSE]
           c == [b EXCEPT !.aborted = TRUE]
           d == [c EXCEPT !.lastCircuitBreakerFailureType = t]
<1> HIDE DEF t, a, b, c, d
<1>1. a \in LoopStates /\ a.ghosts = s.ghosts /\ a.body = s.body
  BY DEF LoopStates, a
<1>2. b \in LoopStates /\ b.ghosts = s.ghosts /\ b.body = s.body
  BY <1>1 DEF LoopStates, b
<1>3. c \in LoopStates /\ c.ghosts = s.ghosts /\ c.body = s.body /\ c.aborted
  BY <1>2 DEF LoopStates, c
<1>4. d.ghosts = s.ghosts /\ d.body = s.body /\ d.aborted
  BY <1>3 DEF LoopStates, d
<1>5. c.lastCircuitBreakerFailureType = s.lastCircuitBreakerFailureType
  BY DEF LoopStates, a, b, c
<1>6. PauseLoop(s, type) = IF s.isPaused THEN s ELSE d
  BY <1>5 DEF PauseLoop, t, a, b, c, d
<1> QED BY <1>4, <1>6 DEF Ages

LEMMA ResetAges == ASSUME NEW s \in LoopStates PROVE Ages(s, ResetFailures(s))
<1> DEFINE a == [s EXCEPT !.failures = 0]
           b == [a EXCEPT !.isPaused = FALSE]
<1> HIDE DEF a, b
<1>1. a \in LoopStates /\ a.ghosts = s.ghosts /\ a.body = s.body /\ a.aborted = s.aborted
  BY Constants DEF LoopStates, a
<1>2. b.ghosts = s.ghosts /\ b.body = s.body /\ b.aborted = s.aborted
  BY <1>1 DEF LoopStates, b
<1> QED BY <1>2 DEF Ages, ResetFailures, a, b

LEMMA TimerAges ==
    ASSUME NEW s \in LoopStates, NEW n
    PROVE  Ages(s, [s EXCEPT !.cooldownTimer = n])
BY DEF LoopStates, Ages

LEMMA LastRunAges ==
    ASSUME TypeOK, NEW i \in Loops
    PROVE  AllAge(loop, LastRun(i))
<1> DEFINE s == [loop[i] EXCEPT !.runs = @ - 1]
<1> HIDE DEF s
<1>1. loop \in [Loops -> LoopStates] /\ loop[i] \in LoopStates
  BY DEF TypeOK
<1>2. Ages(loop[i], s)
  BY <1>1 DEF Ages, LoopStates, s
<1> QED BY <1>1, <1>2, UpdateAges DEF LastRun, s

LEMMA RecordSuccessAges ==
    ASSUME TypeOK, NEW f, Keeps(loop, f), AllAge(loop, f), NEW k \in Keys
    PROVE  AllAge(loop, RecordSuccess(f, k))
<1>1. CASE ~HasState(k)
  BY <1>1 DEF RecordSuccess
<1>2. CASE HasState(k)
  <2>1. loops[k] \in Loops /\ f \in [Loops -> LoopStates] /\ f[loops[k]] \in LoopStates
    BY <1>2, StateExists DEF Keeps
  <2>2. AllAge(f, [f EXCEPT ![loops[k]] = ResetFailures(f[loops[k]])])
    BY <2>1, ResetAges, UpdateAges
  <2> QED BY <1>2, <2>2, AgeTransitive DEF RecordSuccess
<1> QED BY <1>1, <1>2

LEMMA TrackFailureAges ==
    ASSUME TypeOK, NEW f, Keeps(loop, f), AllAge(loop, f), NEW k \in Keys, NEW n \in 0..FailureThreshold,
           NEW type \in FailureTypes, TrackFailure(f, k, n, type)
    PROVE  AllAge(loop, loop')
<1> DEFINE s == [f[loops[k]] EXCEPT !.failures = n]
           p == [s EXCEPT !.isPaused = TRUE]
           q == PauseLoop(p, type)
           r == [q EXCEPT !.cooldownTimer = trips + 1]
<1>1. /\ HasState(k)
      /\ \/ SignalShouldPause(f, k, s, type)
         \/ loop' = [f EXCEPT ![loops[k]] = s]
  BY DEF TrackFailure
<1>2. SignalShouldPause(f, k, s, type) => loop' = [f EXCEPT ![loops[k]] = r]
  BY DEF SignalShouldPause
<1> HIDE DEF s, p, q, r
<1>3. loops[k] \in Loops /\ f \in [Loops -> LoopStates] /\ f[loops[k]] \in LoopStates
  BY <1>1, StateExists DEF Keeps
<1>4. s \in LoopStates /\ Ages(f[loops[k]], s)
  BY <1>3 DEF s, LoopStates, Ages
<1>5. p \in LoopStates /\ Ages(s, p)
  BY <1>4 DEF p, LoopStates, Ages
<1>6. q \in LoopStates /\ Ages(p, q)
  BY <1>5, PauseFacts, PauseAges DEF q
<1>7. Ages(q, r)
  BY <1>6, TimerAges DEF r
<1>8. Ages(f[loops[k]], r)
  BY <1>4, <1>5, <1>6, <1>7 DEF Ages
<1>9. AllAge(f, loop')
  BY <1>1, <1>2, <1>3, <1>4, <1>8, UpdateAges
<1> QED BY <1>9, AgeTransitive

LEMMA ClearTimerAges ==
    ASSUME TypeOK, NEW k \in Keys, HasState(k)
    PROVE  /\ AllAge(loop, [loop EXCEPT ![loops[k]].cooldownTimer = 0])
           /\ AllAge(loop, [loop EXCEPT ![loops[k]] = [ResetFailures(@) EXCEPT !.cooldownTimer = 0]])
<1> DEFINE i == loops[k]
           s == [loop[i] EXCEPT !.cooldownTimer = 0]
           t == ResetFailures(loop[i])
           u == [t EXCEPT !.cooldownTimer = 0]
<1> HIDE DEF i, s, t, u
<1>1. i \in Loops /\ loop \in [Loops -> LoopStates] /\ loop[i] \in LoopStates
  BY StateExists DEF TypeOK, i
<1>2. Ages(loop[i], s)
  BY <1>1, TimerAges DEF s
<1>3. t \in LoopStates /\ Ages(loop[i], t)
  BY <1>1, ResetFacts, ResetAges DEF t
<1>4. Ages(t, u)
  BY <1>3, TimerAges DEF u
<1>5. Ages(loop[i], u)
  BY <1>3, <1>4 DEF Ages
<1>6. AllAge(loop, [loop EXCEPT ![i] = s]) /\ AllAge(loop, [loop EXCEPT ![i] = u])
  BY <1>1, <1>2, <1>5, UpdateAges
<1> QED BY <1>6 DEF s, t, u, i

(* The body moves to another place.  A dispatch is the one step that starts a *)
(* feature, and it leaves a stopped loop at the head.                         *)
Dispatches(s, t) ==
    /\ s.body = "gated" /\ t.body = "head" /\ t.aborted = s.aborted
    /\ t.ghosts = IF s.aborted THEN s.ghosts + 1 ELSE s.ghosts

LEMMA BodyAges ==
    ASSUME TypeOK, NEW i \in Loops, Body(i), NEW j \in Loops
    PROVE  Ages(loop[j], loop'[j]) \/ Dispatches(loop[j], loop'[j])
<1>1. loop \in [Loops -> LoopStates] /\ loop[i] \in LoopStates
  BY DEF TypeOK
<1>2. ASSUME j # i PROVE Ages(loop[j], loop'[j])
  <2>1. loop'[j] = loop[j]
    BY <1>1, <1>2 DEF Body, ExitLoop, HeapStop, StartupEnds, Iterate, PassGates, Defer, Dispatch, MoveBody
  <2> QED BY <2>1 DEF Ages
<1>3. ASSUME ExitLoop(i) \/ HeapStop(i) PROVE Ages(loop[i], loop'[i])
  <2> DEFINE a == [loop[i] EXCEPT !.body = "exited"]
             b == [a EXCEPT !.isRunning = FALSE]
  <2>1. loop' = [loop EXCEPT ![i] = b]
    BY <1>1, <1>3 DEF ExitLoop, HeapStop
  <2> HIDE DEF a, b
  <2>2. a \in LoopStates /\ a.ghosts = loop[i].ghosts /\ a.body = "exited" /\ a.aborted = loop[i].aborted
    BY <1>1 DEF LoopStates, a
  <2>3. b.ghosts = a.ghosts /\ b.body = a.body /\ b.aborted = a.aborted
    BY <2>2 DEF LoopStates, b
  <2> QED BY <1>1, <2>1, <2>2, <2>3 DEF Ages
<1>4. ASSUME NEW to, MoveBody(i, to)
      PROVE  loop'[i].ghosts = loop[i].ghosts /\ loop'[i].aborted = loop[i].aborted /\ loop'[i].body = to
  <2> DEFINE a == [loop[i] EXCEPT !.body = to]
  <2>1. loop' = [loop EXCEPT ![i] = a]
    BY <1>4 DEF MoveBody
  <2> HIDE DEF a
  <2>2. a.ghosts = loop[i].ghosts /\ a.body = to /\ a.aborted = loop[i].aborted
    BY <1>1 DEF LoopStates, a
  <2> QED BY <1>1, <2>1, <2>2
<1>5. ASSUME StartupEnds(i) \/ Iterate(i) \/ PassGates(i) \/ Defer(i) PROVE Ages(loop[i], loop'[i])
  <2>1. CASE StartupEnds(i)
    BY <1>4, <2>1 DEF StartupEnds, Ages
  <2>2. CASE Iterate(i)
    BY <1>4, <2>2 DEF Iterate, MayContinue, Ages
  <2>3. CASE PassGates(i)
    BY <1>4, <2>3 DEF PassGates, Ages
  <2>4. CASE Defer(i)
    BY <1>4, <2>4 DEF Defer, Ages
  <2> QED BY <1>5, <2>1, <2>2, <2>3, <2>4
<1>6. ASSUME Dispatch(i) PROVE Dispatches(loop[i], loop'[i])
  <2> DEFINE g == IF loop[i].aborted THEN loop[i].ghosts + 1 ELSE loop[i].ghosts
             s == [loop[i] EXCEPT !.body = "head"]
             t == [s EXCEPT !.runs = loop[i].runs + 1]
             u == [t EXCEPT !.ghosts = g]
  <2> HIDE DEF g, s, t, u
  <2>1. g \in Nat /\ loop[i].runs + 1 \in Nat
    BY <1>1, Selected DEF g
  <2>2. /\ s \in LoopStates /\ s.body = "head" /\ s.aborted = loop[i].aborted
        /\ s.ghosts = loop[i].ghosts /\ s.runs = loop[i].runs
    BY <1>1 DEF LoopStates, s
  <2>3. t \in LoopStates /\ t.body = "head" /\ t.aborted = loop[i].aborted /\ t.ghosts = loop[i].ghosts
    BY <2>1, <2>2 DEF LoopStates, t
  <2>4. u.body = "head" /\ u.aborted = loop[i].aborted /\ u.ghosts = g
    BY <2>1, <2>3 DEF LoopStates, u
  <2>5. loop' = [loop EXCEPT ![i] = u]
    BY <1>1, <1>6, <2>2, <2>3 DEF Dispatch, u, t, s, g
  <2> QED BY <1>1, <1>6, <2>4, <2>5 DEF Dispatches, Dispatch, g
<1> QED BY <1>2, <1>3, <1>5, <1>6 DEF Body

(* Each loop ages, dispatches a feature, or is one that dispatched nothing.  *)
LEMMA LoopAges ==
    ASSUME TypeOK, Next, NEW j \in Loops
    PROVE  Ages(loop[j], loop'[j]) \/ Dispatches(loop[j], loop'[j]) \/ loop'[j].ghosts = 0
<1>1. AllAge(loop, loop') => Ages(loop[j], loop'[j])
  BY DEF AllAge
<1>2. loop \in [Loops -> LoopStates] /\ Keeps(loop, loop) /\ AllAge(loop, loop)
  BY KeepsItself, AgeItself DEF TypeOK
<1>3. loop' = loop => Ages(loop[j], loop'[j])
  BY <1>1, <1>2
<1>4. ASSUME NEW k \in Keys, HasState(k), DropLoop(k) PROVE Ages(loop[j], loop'[j])
  <2>1. loops[k] \in Loops /\ loop[loops[k]] \in LoopStates
    BY <1>4, StateExists DEF StateOf
  <2>2. AllAge(loop, loop')
    BY <1>2, <1>4, <2>1, StopAges, UpdateAges DEF DropLoop
  <2> QED BY <1>1, <2>2
<1>5. ASSUME NEW k \in Keys, CreateLoop(k) PROVE Ages(loop[j], loop'[j]) \/ loop'[j].ghosts = 0
  <2>1. PICK n \in Loops : loop' = [loop EXCEPT ![n] = NewLoopState(k)]
    BY <1>5 DEF CreateLoop
  <2>2. NewLoopState(k).ghosts = 0
    <3> DEFINE a == [Unborn EXCEPT !.key = k]
               b == [a EXCEPT !.isRunning = TRUE]
               c == [b EXCEPT !.body = "startup"]
    <3> HIDE DEF a, b, c
    <3>1. a \in LoopStates /\ a.ghosts = 0
      BY UnbornIsLoopState DEF LoopStates, Unborn, a
    <3>2. b \in LoopStates /\ b.ghosts = 0
      BY <3>1, Constants DEF LoopStates, b
    <3>3. c.ghosts = 0
      BY <3>2 DEF LoopStates, c
    <3> QED BY <3>3 DEF NewLoopState, a, b, c
  <2>3. CASE j = n
    BY <1>2, <2>1, <2>2, <2>3
  <2>4. CASE j # n
    BY <1>2, <1>3, <2>1, <2>4 DEF Ages
  <2> QED BY <2>3, <2>4
<1>6. ASSUME NEW c \in Callers, StartStep(c) \/ ResumeStep(c) \/ BootResumes(c)
      PROVE  Ages(loop[j], loop'[j]) \/ loop'[j].ghosts = 0
  <2>1. start[c].key \in Keys
    BY DEF TypeOK
  <2>2. CASE StartLoop(c)
    BY <1>4, <1>5, <2>1, <2>2 DEF StartLoop, IsRunning
  <2>3. CASE ResumeLoop(c)
    BY <1>3, <1>5, <2>1, <2>3 DEF ResumeLoop
  <2>4. CASE GateRefuses(c) \/ GatePasses(c) \/ Claim(c) \/ SaveState(c) \/ ReadResumeGate(c) \/ BootResumes(c)
    BY <1>3, <2>4 DEF GateRefuses, GatePasses, Claim, SaveState, ReadResumeGate, BootResumes, loopVars
  <2> QED BY <1>6, <2>2, <2>3, <2>4 DEF StartStep, ResumeStep
<1>7. ASSUME NEW c \in Callers, NEW k \in Keys, CallStart(c, k) \/ CallResume(c, k)
      PROVE  Ages(loop[j], loop'[j])
  BY <1>3, <1>7 DEF CallStart, CallResume, loopVars
<1>8. ASSUME NEW k \in Keys,
             \/ StopAutoLoop(k) \/ ManualResumeAfterQuota(k) \/ PauseAutoLoop(k)
             \/ PauseStops(k) \/ ReportSuccess(k)
      PROVE  Ages(loop[j], loop'[j])
  <2>1. CASE StopAutoLoop(k) \/ PauseStops(k)
    BY <1>3, <1>4, <2>1 DEF StopAutoLoop, PauseStops, Stop, loopVars
  <2>2. CASE ManualResumeAfterQuota(k)
    BY <1>1, <1>3, <2>2, ClearTimerAges DEF ManualResumeAfterQuota
  <2>3. CASE PauseAutoLoop(k)
    <3>1. loops[k] \in Loops /\ loop[loops[k]] \in LoopStates
      BY <2>3, StateExists DEF PauseAutoLoop, StateOf
    <3>2. AllAge(loop, loop')
      BY <1>2, <2>3, <3>1, PauseAges, UpdateAges DEF PauseAutoLoop
    <3> QED BY <1>1, <3>2
  <2>4. CASE ReportSuccess(k)
    BY <1>1, <1>2, <2>4, RecordSuccessAges DEF ReportSuccess
  <2> QED BY <1>8, <2>1, <2>2, <2>3, <2>4
<1>9. ASSUME NEW t \in armed, CooldownSkips(t) \/ \E c \in Callers : CooldownResumes(t, c)
      PROVE  Ages(loop[j], loop'[j])
  <2>1. t[2] \in Keys
    BY DEF TypeOK
  <2> QED BY <1>1, <1>3, <1>9, <2>1, ClearTimerAges DEF CooldownSkips, CooldownResumes
<1>10. ASSUME NEW i \in Loops, RunOutcome(i) PROVE Ages(loop[j], loop'[j])
  <2>1. loop[i].runs > 0 /\ loop[i].key \in Keys
    BY <1>10, Selected DEF RunOutcome, RunSucceeds, RunEnds, TypeOK
  <2>2. Keeps(loop, LastRun(i)) /\ AllAge(loop, LastRun(i))
    BY <2>1, LastRunKeeps, LastRunAges
  <2> QED BY <1>1, <1>10, <2>1, <2>2, RecordSuccessAges DEF RunOutcome, RunSucceeds, RunEnds
<1>11. ASSUME NEW n \in 0..FailureThreshold, NEW type \in FailureTypes, Failure(n, type)
       PROVE  Ages(loop[j], loop'[j])
  <2>1. ASSUME NEW i \in Loops, RunFails(i, n, type) PROVE AllAge(loop, loop')
    <3>1. loop[i].runs > 0 /\ loop[i].key \in Keys
      BY <2>1, Selected DEF RunFails, TypeOK
    <3> QED BY <2>1, <3>1, LastRunKeeps, LastRunAges, TrackFailureAges DEF RunFails
  <2>2. ASSUME NEW k \in Keys, ReportFailure(k, n, type) PROVE AllAge(loop, loop')
    BY <1>2, <2>2, TrackFailureAges DEF ReportFailure
  <2> QED BY <1>1, <1>11, <2>1, <2>2 DEF Failure
<1>12. CASE Unlink \/ RegisterPause \/ ResumeProject \/ BootSkips
  BY <1>3, <1>12 DEF Unlink, RegisterPause, ResumeProject, BootSkips, loopVars
<1>13. CASE Crash
  <2> DEFINE half == [Unborn EXCEPT !.body = "exited"]
             dead == [half EXCEPT !.aborted = TRUE]
  <2>1. loop'[j] = IF loop[j].body = "unborn" THEN Unborn ELSE dead
    BY <1>13 DEF Crash
  <2> HIDE DEF half, dead
  <2>2. Unborn.ghosts = 0 /\ half \in LoopStates /\ half.ghosts = 0
    BY UnbornIsLoopState DEF half, LoopStates, Unborn
  <2>3. dead.ghosts = 0
    BY <2>2 DEF dead, LoopStates
  <2> QED BY <2>1, <2>2, <2>3
<1> QED BY <1>6, <1>7, <1>8, <1>9, <1>10, <1>11, <1>12, <1>13, BodyAges DEF Next

(* A ghost is the last thing its loop dispatched. *)
GhostsAreLast ==
    \A i \in Loops : loop[i].ghosts # 0 =>
        loop[i].ghosts = 1 /\ loop[i].aborted /\ loop[i].body \in {"head", "exited"}

LEMMA GhostStep ==
    ASSUME TypeOK, GhostsAreLast, Next
    PROVE  GhostsAreLast'
<1> SUFFICES ASSUME NEW i \in Loops, loop'[i].ghosts # 0
             PROVE  loop'[i].ghosts = 1 /\ loop'[i].aborted /\ loop'[i].body \in {"head", "exited"}
  BY DEF GhostsAreLast
<1>1. Ages(loop[i], loop'[i]) \/ Dispatches(loop[i], loop'[i])
  BY LoopAges
<1>2. CASE Ages(loop[i], loop'[i])
  BY <1>2 DEF Ages, GhostsAreLast
<1>3. CASE Dispatches(loop[i], loop'[i])
  <2>1. loop[i].ghosts = 0
    BY <1>3 DEF Dispatches, GhostsAreLast
  <2> QED BY <1>3, <2>1 DEF Dispatches
<1> QED BY <1>1, <1>2, <1>3

(* A loop that was stopped or paused dispatches at most one more feature, the *)
(* one it had selected: whatever was stopped, replaced or resumed meanwhile.  *)
THEOREM OneGhost == Spec => []AtMostOneGhost
<1>1. Init => GhostsAreLast
  BY DEF Init, GhostsAreLast, Unborn
<1>2. TypeOK /\ GhostsAreLast /\ [Next]_vars => GhostsAreLast'
  <2>1. UNCHANGED vars /\ GhostsAreLast => GhostsAreLast'
    BY DEF vars, loopVars, GhostsAreLast
  <2> QED BY <2>1, GhostStep
<1>3. TypeOK /\ GhostsAreLast => AtMostOneGhost
  <2> SUFFICES ASSUME GhostsAreLast, NEW i \in Loops PROVE loop[i].ghosts <= 1
    BY DEF AtMostOneGhost
  <2>1. loop[i].ghosts = 0 \/ loop[i].ghosts = 1
    BY DEF GhostsAreLast
  <2> QED BY <2>1
<1> QED BY <1>1, <1>2, <1>3, TypeCorrect, PTL DEF Spec

--------------------------------------------------------------------------------
(* The execution-state file.  A step that takes a loop out of the map starts  *)
(* the deletion of the file; a deletion that ends has deleted it.             *)

FileFollows ==
    \/ crashes' # 0
    \/ executionState' = "none"
    \/ unlinks' # 0
    \/ \E k \in Keys : loops'[k] # 0
    \/ \E c \in Callers : start'[c].at = "saved"
    \/ /\ UNCHANGED <<loops, executionState, unlinks, crashes>>
       /\ \A c \in Callers : start[c].at = "saved" => start'[c].at = "saved"

LEMMA FileFollowsStep ==
    ASSUME ~ExternalControl, ~FilesFail, TypeOK, StartInv, Next
    PROVE  FileFollows
<1> USE DEF FileFollows
<1>1. start \in Calls /\ unlinks \in Nat /\ crashes \in Nat
  <2>1. crashes \in 0..MaxCrashes
    BY DEF TypeOK
  <2> QED BY <2>1, Constants DEF TypeOK, Calls
<1>2. ASSUME UNCHANGED <<loops, startVars, executionState, unlinks, crashes>> PROVE FileFollows
  BY <1>2 DEF startVars
<1>3. ASSUME NEW c \in Callers, NEW r, start' = [start EXCEPT ![c] = r], start[c].at # "saved",
             UNCHANGED <<loops, executionState, unlinks, crashes>>
      PROVE  FileFollows
  BY <1>1, <1>3 DEF Calls
<1>4. ASSUME NEW c \in Callers, NEW at, NEW k, Enter(c, at, k), UNCHANGED <<loops, executionState, unlinks, crashes>>
      PROVE  FileFollows
  BY <1>3, <1>4 DEF Enter
<1>5. ASSUME NEW c \in Callers, StartStep(c) PROVE FileFollows
  <2>1. CASE GateRefuses(c) \/ GatePasses(c) \/ Claim(c)
    BY <1>3, <2>1 DEF GateRefuses, GatePasses, Claim, Return, Move, loopVars, fileVars, serverVars
  <2>2. CASE SaveState(c)
    <3>1. start'[c].at = "saved"
      BY <1>1, <2>2 DEF SaveState, Move, Calls
    <3> QED BY <3>1
  <2>3. CASE StartLoop(c)
    <3>1. start[c].key \in Keys /\ ~IsRunning(start[c].key)
      BY <2>3 DEF StartLoop, StartInv, ClaimedKeysDoNotRun, Holders, TypeOK
    <3>2. CreateLoop(start[c].key)
      BY <2>3, <3>1 DEF StartLoop
    <3> QED BY <3>1, <3>2, CreateFacts
  <2> QED BY <1>5, <2>1, <2>2, <2>3 DEF StartStep
<1>6. ASSUME NEW c \in Callers, ResumeStep(c) PROVE FALSE
  BY <1>6 DEF ResumeStep, ReadResumeGate, ResumeLoop, StartInv, NoResumeCall, InResume
<1>7. ASSUME NEW c \in Callers, BootResumes(c) PROVE FileFollows
  BY <1>4, <1>7 DEF BootResumes, loopVars, fileVars
<1>8. ASSUME NEW c \in Callers, NEW k \in Keys, CallStart(c, k) \/ CallResume(c, k) PROVE FileFollows
  BY <1>4, <1>8 DEF CallStart, CallResume, loopVars, fileVars, serverVars
<1>9. ASSUME NEW k \in Keys, StopAutoLoop(k) \/ PauseStops(k) PROVE FileFollows
  <2>1. UNCHANGED <<startVars, executionState, crashes>> /\ (unlinks' = unlinks + 1 \/ UNCHANGED <<loops, unlinks>>)
    BY <1>9 DEF StopAutoLoop, PauseStops, Stop, loopVars, serverVars
  <2>2. unlinks' = unlinks + 1 => unlinks' # 0
    BY <1>1
  <2> QED BY <1>2, <2>1, <2>2
<1>10. ASSUME NEW k \in Keys, ManualResumeAfterQuota(k) \/ PauseAutoLoop(k) \/ ReportSuccess(k) PROVE FileFollows
  BY <1>2, <1>10 DEF ManualResumeAfterQuota, PauseAutoLoop, ReportSuccess, fileVars, serverVars
<1>11. ASSUME NEW t \in armed, CooldownSkips(t) PROVE FileFollows
  BY <1>2, <1>11 DEF CooldownSkips, fileVars, serverVars
<1>12. ASSUME NEW t \in armed, NEW c \in Callers, CooldownResumes(t, c) PROVE FileFollows
  BY <1>4, <1>12 DEF CooldownResumes, fileVars, serverVars
<1>13. ASSUME NEW i \in Loops, Body(i) \/ RunOutcome(i) PROVE FileFollows
  BY <1>2, <1>13 DEF Body, ExitLoop, HeapStop, StartupEnds, Iterate, PassGates, Defer, Dispatch, MoveBody,
     RunOutcome, RunSucceeds, RunEnds, fileVars, serverVars
<1>14. ASSUME NEW n, NEW type, Failure(n, type) PROVE FileFollows
  BY <1>2, <1>14 DEF Failure, RunFails, ReportFailure, TrackFailure, fileVars, serverVars
<1>15. CASE Unlink
  BY <1>15 DEF Unlink
<1>16. CASE RegisterPause \/ ResumeProject \/ BootSkips
  BY <1>2, <1>16 DEF RegisterPause, ResumeProject, BootSkips, loopVars, fileVars, serverVars
<1>17. CASE Crash
  <2>1. crashes' = crashes + 1
    BY <1>17 DEF Crash
  <2> QED BY <1>1, <2>1
<1> QED BY <1>5, <1>6, <1>7, <1>8, <1>9, <1>10, <1>11, <1>12, <1>13, <1>14, <1>15, <1>16, <1>17 DEF Next

(* In a server that never crashed and whose file system does not fail, the    *)
(* execution-state file is there only for a loop, or for a start or a stop    *)
(* that is about to rewrite it: a file without a loop is the sign of a crash. *)
THEOREM FilesMeanLoops ==
    ASSUME ~ExternalControl, ~FilesFail
    PROVE  Spec => []FileMeansLoop
<1>1. Init => FileMeansLoop
  BY DEF Init, FileMeansLoop
<1>2. TypeOK /\ StartInv /\ FileMeansLoop /\ [Next]_vars => FileMeansLoop'
  <2>1. UNCHANGED vars /\ FileMeansLoop => FileMeansLoop'
    BY DEF vars, loopVars, startVars, fileVars, serverVars, FileMeansLoop, HasState
  <2>2. FileFollows /\ FileMeansLoop => FileMeansLoop'
    BY DEF FileFollows, FileMeansLoop, HasState
  <2> QED BY <2>1, <2>2, FileFollowsStep
<1> QED BY <1>1, <1>2, TypeCorrect, StartInvariant, PTL DEF Spec

--------------------------------------------------------------------------------
(* A paused app.  A start that is past its gate is the start of an overtaken  *)
(* worktree, and so is each loop such a start creates; the others are still   *)
(* to be listed, or listed and still to be stopped.                           *)

PauseInv ==
    pausedProjects =>
        /\ \A c \in Callers : start[c].at \in PastGate => start[c].key \in overtaken
        /\ \A i \in Loops : loop[i].isRunning =>
              \/ loop[i].key \in overtaken
              \/ pausing.at = "registered"
              \/ pausing.at = "stopping" /\ loop[i].key \in pausing.todo

LEMMA PauseImplies == TypeOK /\ PauseInv => PauseHolds
BY DEF TypeOK, PauseInv, PauseHolds

(* A loop that runs after a step ran before it, or was started by it. *)
LEMMA RanBefore ==
    ASSUME TypeOK, Effect, NEW i \in Loops, loop'[i].isRunning
    PROVE  \/ loop[i].isRunning /\ loop'[i].key = loop[i].key
           \/ \E c \in Callers : start[c].at \in PastGate /\ loop'[i].key = start[c].key
<1>1. CASE loops' = loops /\ Keeps(loop, loop')
  BY <1>1 DEF Keeps
<1>2. ASSUME NEW k \in Keys, HasState(k), DropLoop(k)
      PROVE  loop[i].isRunning /\ loop'[i].key = loop[i].key
  BY <1>2, DropFacts DEF Keeps
<1>3. ASSUME NEW c \in Callers, Starts(c)
      PROVE  \/ loop[i].isRunning /\ loop'[i].key = loop[i].key
             \/ start[c].at \in PastGate /\ loop'[i].key = start[c].key
  <2>1. start[c].key \in Keys /\ CreateLoop(start[c].key)
    BY <1>3 DEF Starts, TypeOK
  <2>2. loop'[i] = loop[i] \/ loop'[i].key = start[c].key
    BY <2>1, CreateFacts
  <2> QED BY <1>3, <2>2 DEF Starts, PastGate
<1>4. CASE Crash
  BY <1>4, CrashFacts
<1> QED BY <1>1, <1>2, <1>3, <1>4 DEF Effect

(* No loop of worktree k runs after the pause has stopped it. *)
LEMMA PauseStopsIts ==
    ASSUME TypeOK, LiveLoopIsReachable, NEW k \in Keys, PauseStops(k), NEW i \in Loops, loop'[i].isRunning
    PROVE  loop[i].isRunning /\ loop'[i].key = loop[i].key /\ loop[i].key # k
<1>1. CASE HasState(k) /\ DropLoop(k)
  <2>1. Keeps(loop, loop') /\ ~loop'[loops[k]].isRunning
    BY <1>1, DropFacts
  <2> QED BY <2>1 DEF Keeps, LiveLoopIsReachable
<1>2. CASE ~HasState(k) /\ UNCHANGED loopVars
  <2>1. i # 0
    BY Constants DEF Loops
  <2> QED BY <1>2, <2>1 DEF loopVars, LiveLoopIsReachable, HasState
<1> QED BY <1>1, <1>2 DEF PauseStops, Stop

(* Who touches the variables of the pause. *)
LEMMA PauseSteps ==
    ASSUME Next
    PROVE  \/ UNCHANGED appVars
           \/ RegisterPause \/ ResumeProject \/ Crash
           \/ \E k \in Keys : PauseStops(k)
<1>1. ASSUME NEW c \in Callers, StartStep(c) \/ ResumeStep(c) \/ BootResumes(c) PROVE UNCHANGED appVars
  BY <1>1 DEF StartStep, GateRefuses, GatePasses, Claim, SaveState, StartLoop, ResumeStep, ReadResumeGate,
     ResumeLoop, BootResumes
<1>2. ASSUME NEW c \in Callers, NEW k \in Keys, CallStart(c, k) \/ CallResume(c, k) PROVE UNCHANGED appVars
  BY <1>2 DEF CallStart, CallResume
<1>3. ASSUME NEW k \in Keys, StopAutoLoop(k) \/ ManualResumeAfterQuota(k) \/ PauseAutoLoop(k) \/ ReportSuccess(k)
      PROVE  UNCHANGED appVars
  BY <1>3 DEF StopAutoLoop, ManualResumeAfterQuota, PauseAutoLoop, ReportSuccess
<1>4. ASSUME NEW t \in armed, CooldownSkips(t) PROVE UNCHANGED appVars
  BY <1>4 DEF CooldownSkips
<1>5. ASSUME NEW t \in armed, NEW c \in Callers, CooldownResumes(t, c) PROVE UNCHANGED appVars
  BY <1>5 DEF CooldownResumes
<1>6. ASSUME NEW i \in Loops, Body(i) \/ RunOutcome(i) PROVE UNCHANGED appVars
  BY <1>6 DEF Body, ExitLoop, HeapStop, StartupEnds, Iterate, PassGates, Defer, Dispatch, MoveBody,
     RunOutcome, RunSucceeds, RunEnds
<1>7. ASSUME NEW n, NEW type, Failure(n, type) PROVE UNCHANGED appVars
  BY <1>7 DEF Failure, RunFails, ReportFailure
<1>8. CASE Unlink \/ BootSkips
  BY <1>8 DEF Unlink, BootSkips
<1> QED BY <1>1, <1>2, <1>3, <1>4, <1>5, <1>6, <1>7, <1>8 DEF Next

LEMMA PauseStep ==
    ASSUME TypeOK, LiveLoopIsReachable, PauseInv, Next
    PROVE  PauseInv'
<1> SUFFICES ASSUME pausedProjects'
             PROVE  /\ \A c \in Callers : start'[c].at \in PastGate => start'[c].key \in overtaken'
                    /\ \A i \in Loops : loop'[i].isRunning =>
                          \/ loop'[i].key \in overtaken'
                          \/ pausing'.at = "registered"
                          \/ pausing'.at = "stopping" /\ loop'[i].key \in pausing'.todo
  BY DEF PauseInv
<1>1. CASE UNCHANGED appVars
  <2>1. UNCHANGED <<pausedProjects, pausing, overtaken>> /\ pausedProjects
    BY <1>1 DEF appVars
  <2>2. ASSUME NEW c \in Callers, start'[c].at \in PastGate PROVE start'[c].key \in overtaken
    <3>1. Moves(start[c], start'[c])
      BY CallMoves
    <3> QED BY <2>1, <2>2, <3>1 DEF Moves, PastGate, PauseInv
  <2>3. ASSUME NEW i \in Loops, loop'[i].isRunning
        PROVE  \/ loop'[i].key \in overtaken
               \/ loop[i].isRunning /\ loop'[i].key = loop[i].key
    <3>1. Effect
      BY StepEffect
    <3>2. \A c \in Callers : start[c].at \in PastGate => start[c].key \in overtaken
      BY <2>1 DEF PauseInv
    <3>3. \/ loop[i].isRunning /\ loop'[i].key = loop[i].key
          \/ \E c \in Callers : start[c].at \in PastGate /\ loop'[i].key = start[c].key
      BY <2>3, <3>1, RanBefore
    <3> QED BY <3>2, <3>3
  <2>4. ASSUME NEW i \in Loops, loop'[i].isRunning
        PROVE  \/ loop'[i].key \in overtaken
               \/ pausing.at = "registered"
               \/ pausing.at = "stopping" /\ loop'[i].key \in pausing.todo
    <3>1. CASE loop[i].isRunning /\ loop'[i].key = loop[i].key
      BY <2>1, <3>1 DEF PauseInv
    <3> QED BY <2>3, <2>4, <3>1
  <2>5. overtaken' = overtaken /\ pausing' = pausing
    BY <2>1
  <2> QED BY <2>2, <2>4, <2>5
<1>2. CASE Crash
  <2>1. \A c \in Callers : start'[c].at = "idle"
    BY <1>2 DEF Crash, Idle
  <2> QED BY <1>2, <2>1, CrashFacts DEF PastGate
<1>3. CASE RegisterPause
  BY <1>3 DEF RegisterPause, startVars
<1>4. CASE ResumeProject
  BY <1>4 DEF ResumeProject
<1>5. ASSUME NEW k \in Keys, PauseStops(k)
      PROVE  /\ \A c \in Callers : start'[c].at \in PastGate => start'[c].key \in overtaken'
             /\ \A i \in Loops : loop'[i].isRunning =>
                   \/ loop'[i].key \in overtaken'
                   \/ pausing'.at = "registered"
                   \/ pausing'.at = "stopping" /\ loop'[i].key \in pausing'.todo
  <2> DEFINE running == {j \in Keys : IsRunning(j)}
             todo == IF pausing.at = "stopping" THEN pausing.todo
                     ELSE IF running = {} THEN {MainKey} ELSE running
  <2>a. pausing.at \in {"registered", "stopping"}
    BY <1>5 DEF PauseStops, TypeOK
  <2>b. UNCHANGED <<start, pausedProjects, overtaken>>
    BY <1>5 DEF PauseStops, startVars
  <2>1. /\ k \in todo
        /\ pausing' = IF todo = {k} THEN [at |-> "idle", todo |-> {}]
                      ELSE [at |-> "stopping", todo |-> todo \ {k}]
    BY <1>5 DEF PauseStops
  <2>2. ASSUME NEW i \in Loops, loop[i].isRunning PROVE loop[i].key \in running
    <3>1. loop[i].key \in Keys /\ loops[loop[i].key] = i
      BY <2>2, Selected DEF TypeOK, LiveLoopIsReachable
    <3>2. i # 0
      BY Constants DEF Loops
    <3> QED BY <2>2, <3>1, <3>2 DEF IsRunning, HasState, StateOf
  <2>3. ASSUME NEW i \in Loops, loop[i].isRunning PROVE loop[i].key \in overtaken \/ loop[i].key \in todo
    BY <2>a, <2>b, <2>2, <2>3 DEF PauseInv
  <2> HIDE DEF todo
  <2>4. ASSUME NEW i \in Loops, loop'[i].isRunning
        PROVE  \/ loop'[i].key \in overtaken
               \/ pausing'.at = "stopping" /\ loop'[i].key \in pausing'.todo
    <3>1. loop[i].isRunning /\ loop'[i].key = loop[i].key /\ loop[i].key # k
      BY <1>5, <2>4, PauseStopsIts
    <3> QED BY <2>1, <2>3, <3>1
  <2> QED BY <2>b, <2>4 DEF PauseInv
<1> QED BY <1>1, <1>2, <1>3, <1>4, <1>5, PauseSteps

(* After pauseProject has stopped what ran, no loop of the app runs but for  *)
(* the worktrees whose start had passed the gate when the registry was       *)
(* written; a restart of the server resumes none.                            *)
THEOREM PausesHold ==
    ASSUME ~ExternalControl
    PROVE  Spec => []PauseHolds
<1>1. Init => PauseInv
  BY DEF Init, PauseInv
<1>2. TypeOK /\ LiveLoopIsReachable /\ PauseInv /\ [Next]_vars => PauseInv'
  <2>1. UNCHANGED vars /\ PauseInv => PauseInv'
    BY DEF vars, loopVars, startVars, appVars, PauseInv
  <2> QED BY <2>1, PauseStep
<1> QED BY <1>1, <1>2, TypeCorrect, LiveLoopsReachable, PauseImplies, PTL DEF Spec

================================================================================
