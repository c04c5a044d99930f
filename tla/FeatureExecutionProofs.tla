------------------------- MODULE FeatureExecutionProofs -------------------------
(***************************************************************************)
(* Theorems about FeatureExecution, for any number of runs, timers and     *)
(* calls of stopFeature, and any retry limit.                              *)
(*                                                                         *)
(* The invariant says what a run in each state owes (Frames), who has the  *)
(* entry until an agent is stopped (Alone), and what will move a feature   *)
(* that is left in progress (Moves, Resets).  A step moves one run, and    *)
(* Sound(r) collects what the invariant needs of it, or no run, and Steady *)
(* does; one lemma per action then shows the one or the other.             *)
(***************************************************************************)
EXTENDS FeatureExecution, FiniteSetTheorems, TLAPS

Ats == {"idle", "entered", "resuming", "preparing", "agent", "exhausted",
        "failing", "delaying", "aborting", "cleanup", "returning", "joining", "joined"}
Stops == [at : {"idle", "writing", "written"}, target : {"open", "done"}]

(* A run that has its entry, if nobody stopped it, and one that has none. *)
Held == {"entered", "preparing", "agent", "exhausted", "failing", "delaying", "aborting"}
Absent == {"idle", "joining", "resuming", "returning"}

(* What the frames around a run owe and carry. *)
Frame(x) ==
    /\ x.at \in {"idle", "joining"} => x.leases = 0
    /\ x.followUp => x.leases = 0 /\ x.at \in {"joining", "joined", "agent", "cleanup"}
    /\ x.fresh \/ x.at = "resuming" => x.leases <= 1
    /\ x.at = "resuming" => ~x.fresh
    /\ x.at = "delaying" => x.retry < MaxRetries
    /\ x.at \in {"joining", "joined"} => x.followUp
Frames == \A r \in Runs : Frame(run[r])

(* Until an agent is stopped, a run at work has the entry. *)
Alone ==
    seen < Stop => /\ \A r \in Runs : run[r].at \in Held => entry = r
                   /\ \A s \in Stoppers : stops[s].at = "idle"

(* A follow-up that took a lease is seen. *)
FollowUpsAreSeen ==
    seen < FollowUp => \A r \in Runs : run[r].at # "joined" /\ (run[r].followUp => run[r].at = "joining")

(* Left alone, a feature in progress without context has a run or a timer *)
(* that moves it; one whose entry is about to go has a timer that resets  *)
(* it, which no other run takes away.                                     *)
Waiting(kinds) == \E t \in Timers : timer[t].kind \in kinds
Moves ==
    seen = Nothing /\ status = "in_progress" /\ ~output =>
        \/ \E r \in Runs : run[r].at \in Held
        \/ Waiting({"relaunch", "immediate", "reset"})
Resets ==
    seen = Nothing /\ status = "in_progress" /\ entry # NoRun =>
        (run[entry].at = "cleanup" => Waiting({"reset"}))

IInv == TypeOK /\ Frames /\ EntryIsAlive /\ LeaseIsBacked /\ Alone /\ FollowUpsAreSeen /\ Moves /\ Resets

LEMMA Constants == NoRun \notin Runs /\ MaxRetries \in Nat /\ MaxLease \in Nat /\ MaxLease > 0
BY NoRunAssumption, BoundsAssumption

--------------------------------------------------------------------------------
(* Records of a run, a field at a time. *)

LEMMA Fields ==
    ASSUME NEW x \in RunStates
    PROVE  /\ x.at \in Ats /\ x.followUp \in BOOLEAN /\ x.leases \in 0..2
           /\ x.retry \in 0..MaxRetries /\ x.fresh \in BOOLEAN /\ x.aborted \in BOOLEAN
BY DEF RunStates, Ats

LEMMA IdleTyped ==
    /\ IdleRun \in RunStates /\ NoTimer \in TimerStates /\ IdleStop \in Stops
    /\ IdleRun.at = "idle" /\ IdleRun.leases = 0 /\ ~IdleRun.followUp /\ ~IdleRun.fresh /\ IdleRun.retry = 0
BY Constants DEF IdleRun, RunStates, NoTimer, TimerStates, IdleStop, Stops

(* x becomes y: y differs in at, and perhaps in aborted. *)
LEMMA AtSet ==
    ASSUME NEW x \in RunStates, NEW at \in Ats
    PROVE  /\ [x EXCEPT !.at = at] \in RunStates
           /\ [x EXCEPT !.at = at].at = at
           /\ [x EXCEPT !.at = at].followUp = x.followUp
           /\ [x EXCEPT !.at = at].leases = x.leases
           /\ [x EXCEPT !.at = at].retry = x.retry
           /\ [x EXCEPT !.at = at].fresh = x.fresh
           /\ [x EXCEPT !.at = at].aborted = x.aborted
BY DEF RunStates, Ats

LEMMA AbortedSet ==
    ASSUME NEW x \in RunStates, NEW b \in BOOLEAN
    PROVE  /\ [x EXCEPT !.aborted = b] \in RunStates
           /\ [x EXCEPT !.aborted = b].at = x.at
           /\ [x EXCEPT !.aborted = b].followUp = x.followUp
           /\ [x EXCEPT !.aborted = b].leases = x.leases
           /\ [x EXCEPT !.aborted = b].retry = x.retry
           /\ [x EXCEPT !.aborted = b].fresh = x.fresh
           /\ [x EXCEPT !.aborted = b].aborted = b
BY DEF RunStates

(* The runs f are the runs g but for r and, perhaps, for what is aborted. *)
Alike(x, y) ==
    /\ x.at = y.at /\ x.followUp = y.followUp /\ x.leases = y.leases
    /\ x.retry = y.retry /\ x.fresh = y.fresh
But(r, f, g) == f \in [Runs -> RunStates] /\ \A q \in Runs \ {r} : Alike(f[q], g[q])

LEMMA MovedFacts ==
    ASSUME run \in [Runs -> RunStates], NEW r \in Runs, NEW at \in Ats
    PROVE  /\ But(r, Moved(r, at), run)
           /\ Moved(r, at)[r].at = at
           /\ Moved(r, at)[r].followUp = run[r].followUp /\ Moved(r, at)[r].leases = run[r].leases
           /\ Moved(r, at)[r].retry = run[r].retry /\ Moved(r, at)[r].fresh = run[r].fresh
<1>1. Moved(r, at) = [run EXCEPT ![r] = [run[r] EXCEPT !.at = at]]
  BY DEF Moved
<1> QED BY <1>1, AtSet DEF But, Alike

LEMMA LeftFacts ==
    ASSUME run \in [Runs -> RunStates], NEW r \in Runs, NEW at \in Ats
    PROVE  /\ But(r, Left(r, at), run)
           /\ Left(r, at)[r].at = at
           /\ Left(r, at)[r].followUp = run[r].followUp /\ Left(r, at)[r].leases = run[r].leases
           /\ Left(r, at)[r].retry = run[r].retry /\ Left(r, at)[r].fresh = run[r].fresh
<1> DEFINE x == [run[r] EXCEPT !.at = at]
           y == [x EXCEPT !.aborted = FALSE]
<1>1. /\ y \in RunStates /\ y.at = at /\ y.followUp = run[r].followUp /\ y.leases = run[r].leases
      /\ y.retry = run[r].retry /\ y.fresh = run[r].fresh
  <2> HIDE DEF x
  <2>1. /\ x \in RunStates /\ x.at = at /\ x.followUp = run[r].followUp /\ x.leases = run[r].leases
        /\ x.retry = run[r].retry /\ x.fresh = run[r].fresh
    BY AtSet DEF x
  <2> QED BY <2>1, AbortedSet
<1>2. Left(r, at) = [run EXCEPT ![r] = y]
  BY DEF Left
<1> HIDE DEF x, y
<1> QED BY <1>1, <1>2 DEF But, Alike

LEMMA SpentFacts ==
    ASSUME run \in [Runs -> RunStates], NEW r \in Runs, NEW at \in Ats
    PROVE  /\ But(r, Spent(r, at), run)
           /\ Spent(r, at)[r].at = at
           /\ Spent(r, at)[r].followUp = run[r].followUp /\ Spent(r, at)[r].leases = run[r].leases
           /\ Spent(r, at)[r].retry = 0 /\ ~Spent(r, at)[r].fresh
<1> DEFINE x == [IdleRun EXCEPT !.at = at]
           y == [x EXCEPT !.followUp = run[r].followUp]
           z == [y EXCEPT !.leases = run[r].leases]
<1>1. run[r].followUp \in BOOLEAN /\ run[r].leases \in 0..2
  BY Fields
<1>2. Spent(r, at) = [run EXCEPT ![r] = z]
  BY DEF Spent
<1> HIDE DEF x, y, z
<1>3. x \in RunStates /\ x.at = at /\ x.retry = 0 /\ ~x.fresh
  BY IdleTyped, AtSet DEF x
<1>4. y \in RunStates /\ y.at = at /\ y.retry = 0 /\ ~y.fresh /\ y.followUp = run[r].followUp
  BY <1>1, <1>3 DEF RunStates, y
<1>5. /\ z \in RunStates /\ z.at = at /\ z.retry = 0 /\ ~z.fresh /\ z.followUp = run[r].followUp
      /\ z.leases = run[r].leases
  BY <1>1, <1>4 DEF RunStates, z
<1> QED BY <1>2, <1>5 DEF But, Alike

LEMMA SetTyped ==
    ASSUME run \in [Runs -> RunStates], NEW r \in Runs, NEW x \in RunStates
    PROVE  But(r, [run EXCEPT ![r] = x], run) /\ [run EXCEPT ![r] = x][r] = x
BY DEF But, Alike

(* Abort only touches aborted. *)
LEMMA AbortFacts ==
    ASSUME NEW f \in [Runs -> RunStates], entry \in Runs \cup {NoRun}
    PROVE  Abort(f) \in [Runs -> RunStates] /\ \A q \in Runs : Alike(Abort(f)[q], f[q])
<1>1. CASE entry # NoRun /\ f[entry].at \in {"entered", "preparing", "joined", "agent"}
  <2>1. entry \in Runs /\ f[entry] \in RunStates
    BY <1>1
  <2>2. Abort(f) = [f EXCEPT ![entry] = [f[entry] EXCEPT !.aborted = TRUE]]
    BY <1>1 DEF Abort
  <2> DEFINE x == [f[entry] EXCEPT !.aborted = TRUE]
  <2>3. x \in RunStates /\ Alike(x, f[entry])
    BY <2>1, AbortedSet DEF Alike
  <2>4. Abort(f) = [f EXCEPT ![entry] = x]
    BY <2>2
  <2> HIDE DEF x
  <2> QED BY <2>1, <2>3, <2>4 DEF Alike
<1>2. CASE ~(entry # NoRun /\ f[entry].at \in {"entered", "preparing", "joined", "agent"})
  BY <1>2 DEF Abort, Alike
<1> QED BY <1>1, <1>2

(* A status write: the runs are those of f, but for what is aborted, and what a *)
(* stop has to do with it is seen.                                              *)
LEMMA WriteFacts ==
    ASSUME TypeOK, NEW new \in Statuses, NEW f \in [Runs -> RunStates], NEW g \in [Stoppers -> Stops],
           WriteStatus(new, f, g)
    PROVE  /\ status' = new /\ status' \in Statuses
           /\ run' \in [Runs -> RunStates] /\ \A q \in Runs : Alike(run'[q], f[q])
           /\ stops' \in [Stoppers -> Stops]
           /\ seen' \in Nothing..FollowUp /\ seen' >= seen
           /\ seen' < Stop => run' = f /\ stops' = g
           /\ seen' = seen \/ seen' = Stop
<1> DEFINE stopper == {s \in Stoppers : g[s].at = "idle"}
<1>1. CASE new = "done" /\ status # "done" /\ entry # NoRun /\ stopper # {}
  <2>1. /\ run' = Abort(f) /\ seen' = AtLeast(Stop) /\ status' = new
        /\ \E s \in stopper : stops' = [g EXCEPT ![s] = [at |-> "writing", target |-> "done"]]
    BY <1>1 DEF WriteStatus
  <2>2. stops' \in [Stoppers -> Stops]
    BY <2>1 DEF Stops
  <2>3. seen' \in Nothing..FollowUp /\ seen' >= seen /\ seen' >= Stop /\ (seen' = seen \/ seen' = Stop)
    BY <2>1 DEF TypeOK, AtLeast, Nothing, Denial, Stop, FollowUp
  <2>4. run' \in [Runs -> RunStates] /\ \A q \in Runs : Alike(run'[q], f[q])
    BY <2>1, AbortFacts DEF TypeOK
  <2> QED BY <2>1, <2>2, <2>3, <2>4 DEF Stop, Nothing, FollowUp
<1>2. CASE ~(new = "done" /\ status # "done" /\ entry # NoRun /\ stopper # {})
  <2>1. run' = f /\ stops' = g /\ seen' = seen /\ status' = new
    BY <1>2 DEF WriteStatus
  <2> QED BY <2>1 DEF TypeOK, Alike, Nothing, FollowUp
<1> QED BY <1>1, <1>2

--------------------------------------------------------------------------------
(* What a step of run r may do.  Sound(r) is what the invariant needs of it. *)

TimersKeep ==
    /\ timer' \in [Timers -> TimerStates]
    /\ retryTimers' \subseteq Timers /\ Cardinality(retryTimers') <= 1
    /\ \A t \in Timers : timer[t].kind # "none" => timer'[t] = timer[t]

Typed(r) ==
    /\ lease' \in Nat /\ entry' \in {entry, r, NoRun}
    /\ But(r, run', run) /\ Frame(run'[r])
    /\ TimersKeep
    /\ stops' \in [Stoppers -> Stops] /\ status' \in Statuses /\ output' \in BOOLEAN
    /\ seen' \in Nothing..FollowUp /\ seen' >= seen
    /\ seen' < Stop => stops' = stops

Owns(r) ==
    /\ entry' = r => run'[r].at \notin Absent
    /\ seen' < Stop => /\ entry' # entry => entry \in {r, NoRun}
                       /\ run'[r].at \in Held => entry' = r
    /\ seen' < FollowUp => run'[r].at # "joined" /\ (run'[r].followUp => run'[r].at = "joining")

Leases(r) ==
    seen' < FollowUp /\ lease' > 0 =>
        lease' = 1 /\ (run'[r].leases > 0 \/ (lease > 0 /\ run[r].leases = 0))

Progresses(r) ==
    /\ seen' = Nothing /\ status' = "in_progress" /\ ~output' =>
          \/ run'[r].at \in Held \/ Waiting({"relaunch", "immediate", "reset"})'
          \/ status = "in_progress" /\ ~output /\ run[r].at \notin Held
    /\ seen' = Nothing /\ status' = "in_progress" =>
          /\ entry' = r /\ run'[r].at = "cleanup" =>
                \/ Waiting({"reset"})'
                \/ status = "in_progress" /\ run[r].at = "cleanup" /\ entry = r
          /\ entry' \notin {r, NoRun} => status = "in_progress"

Sound(r) == Typed(r) /\ Owns(r) /\ Leases(r) /\ Progresses(r)

LEMMA SoundKeeps ==
    ASSUME IInv, NEW r \in Runs, Sound(r)
    PROVE  IInv'
<1>1. /\ run \in [Runs -> RunStates] /\ run' \in [Runs -> RunStates]
      /\ seen \in 0..3 /\ seen' \in 0..3 /\ seen <= seen'
  BY DEF IInv, TypeOK, Sound, Typed, But, Nothing, FollowUp
<1>2. TypeOK'
  BY DEF IInv, TypeOK, Sound, Typed, TimersKeep, But, Stops
<1>3. Frames'
  BY DEF IInv, Frames, Frame, Sound, Typed, But, Alike
<1>4. EntryIsAlive'
  BY Constants DEF IInv, TypeOK, EntryIsAlive, Absent, Sound, Typed, Owns, But, Alike
<1>5. LeaseIsBacked'
  <2> SUFFICES ASSUME seen' < FollowUp, lease' > 0
               PROVE  lease' = 1 /\ \E q \in Runs : run'[q].leases > 0
    BY DEF LeaseIsBacked
  <2>1. lease' = 1 /\ (run'[r].leases > 0 \/ (lease > 0 /\ run[r].leases = 0))
    BY DEF Sound, Leases
  <2>2. CASE lease > 0 /\ run[r].leases = 0
    <3>1. PICK q \in Runs : run[q].leases > 0
      BY <1>1, <2>2 DEF IInv, LeaseIsBacked, FollowUp
    <3>2. q # r /\ run'[q].leases = run[q].leases
      BY <2>2, <3>1 DEF Sound, Typed, But, Alike
    <3> QED BY <2>1, <3>1, <3>2
  <2> QED BY <2>1, <2>2
<1>6. Alone'
  BY <1>1, Constants DEF IInv, Alone, Stop, Sound, Typed, Owns, But, Alike
<1>7. FollowUpsAreSeen'
  BY <1>1 DEF IInv, FollowUpsAreSeen, FollowUp, Sound, Typed, Owns, But, Alike
<1>8. \A kinds \in SUBSET {"relaunch", "immediate", "reset"} : Waiting(kinds) => Waiting(kinds)'
  BY DEF Waiting, Sound, Typed, TimersKeep
<1>9. Moves'
  <2> SUFFICES ASSUME seen' = Nothing, status' = "in_progress", ~output'
               PROVE  (\E q \in Runs : run'[q].at \in Held) \/ Waiting({"relaunch", "immediate", "reset"})'
    BY DEF Moves
  <2>1. CASE status = "in_progress" /\ ~output /\ run[r].at \notin Held
    <3>1. (\E q \in Runs : run[q].at \in Held) \/ Waiting({"relaunch", "immediate", "reset"})
      BY <1>1, <2>1 DEF IInv, Moves, Nothing
    <3> QED BY <1>8, <2>1, <3>1 DEF Sound, Typed, But, Alike
  <2> QED BY <2>1 DEF Sound, Progresses
<1>10. Resets'
  <2> SUFFICES ASSUME seen' = Nothing, status' = "in_progress", entry' # NoRun, run'[entry'].at = "cleanup"
               PROVE  Waiting({"reset"})'
    BY DEF Resets
  <2>1. seen = Nothing
    BY <1>1 DEF Nothing
  <2>2. CASE entry' = r
    <3>1. \/ Waiting({"reset"})'
          \/ status = "in_progress" /\ run[r].at = "cleanup" /\ entry = r
      BY <2>2 DEF Sound, Progresses
    <3> QED BY <1>8, <2>1, <3>1, Constants DEF IInv, Resets
  <2>3. CASE entry' # r
    <3>1. entry' = entry /\ entry \in Runs \ {r} /\ status = "in_progress"
      BY <2>3 DEF IInv, TypeOK, Sound, Typed, Progresses
    <3>2. run[entry].at = "cleanup"
      BY <3>1 DEF Sound, Typed, But, Alike
    <3> QED BY <1>8, <2>1, <3>1, <3>2 DEF IInv, Resets
  <2> QED BY <2>2, <2>3
<1> QED BY <1>2, <1>3, <1>4, <1>5, <1>6, <1>7, <1>9, <1>10 DEF IInv

--------------------------------------------------------------------------------
(* Steps that move no run: stops, timers that start nothing, other writers. *)

Steady ==
    /\ lease' \in Nat /\ lease' <= lease /\ entry' \in {entry, NoRun}
    /\ run' \in [Runs -> RunStates] /\ \A q \in Runs : Alike(run'[q], run[q])
    /\ timer' \in [Timers -> TimerStates]
    /\ retryTimers' \subseteq Timers /\ Cardinality(retryTimers') <= 1
    /\ stops' \in [Stoppers -> Stops] /\ status' \in Statuses /\ output' \in BOOLEAN
    /\ seen' \in Nothing..FollowUp /\ seen' >= seen
    /\ seen' < Stop => entry' = entry /\ stops' = stops
    /\ seen' = Nothing /\ status' = "in_progress" =>
          /\ status = "in_progress" /\ output' = output
          /\ Waiting({"reset"}) => Waiting({"reset"})'
          /\ Waiting({"relaunch", "immediate", "reset"}) =>
                Waiting({"relaunch", "immediate", "reset"})' \/ \E q \in Runs : run[q].at \in Held

LEMMA SteadyKeeps ==
    ASSUME IInv, Steady
    PROVE  IInv'
<1>1. /\ run \in [Runs -> RunStates] /\ run' \in [Runs -> RunStates] /\ lease \in Nat
      /\ seen \in 0..3 /\ seen' \in 0..3 /\ seen <= seen'
  BY DEF IInv, TypeOK, Steady, Nothing, FollowUp
<1>2. \A q \in Runs : Alike(run'[q], run[q])
  BY DEF Steady
<1>3. TypeOK'
  BY DEF IInv, TypeOK, Steady, Stops
<1>4. Frames'
  BY <1>2 DEF IInv, Frames, Frame, Alike
<1>5. EntryIsAlive'
  BY <1>2 DEF IInv, TypeOK, EntryIsAlive, Steady, Alike
<1>6. LeaseIsBacked'
  BY <1>1, <1>2 DEF IInv, LeaseIsBacked, Steady, FollowUp, Alike
<1>7. Alone'
  BY <1>1, <1>2 DEF IInv, Alone, Stop, Steady, Alike
<1>8. FollowUpsAreSeen'
  BY <1>1, <1>2 DEF IInv, FollowUpsAreSeen, FollowUp, Alike
<1>9. Moves'
  BY <1>1, <1>2 DEF IInv, Moves, Nothing, Steady, Alike
<1>10. Resets'
  BY <1>1, <1>2 DEF IInv, TypeOK, Resets, Nothing, Steady, Alike
<1> QED BY <1>3, <1>4, <1>5, <1>6, <1>7, <1>8, <1>9, <1>10 DEF IInv

--------------------------------------------------------------------------------
(* Timers *)

LEMMA TimersUnchanged ==
    ASSUME IInv, UNCHANGED <<timer, retryTimers>>
    PROVE  TimersKeep
BY DEF IInv, TypeOK, TimersKeep

LEMMA ArmFacts ==
    ASSUME IInv, NEW r \in Runs, NEW kind \in {"relaunch", "immediate", "reset"}, Arm(r, kind),
           kind # "reset" => run[r].retry < MaxRetries
    PROVE  TimersKeep /\ Waiting({kind})'
<1>1. PICK t \in FreeTimers :
        /\ timer' = [timer EXCEPT ![t] =
              [kind |-> kind, retry |-> IF kind = "reset" THEN 0 ELSE run[r].retry + 1]]
        /\ retryTimers' = IF kind = "immediate" THEN retryTimers ELSE {t}
  BY DEF Arm
<1> DEFINE x == [kind |-> kind, retry |-> IF kind = "reset" THEN 0 ELSE run[r].retry + 1]
<1>2. run[r].retry \in 0..MaxRetries
  BY Fields DEF IInv, TypeOK
<1>3. x \in TimerStates /\ x.kind = kind
  BY <1>2, Constants DEF TimerStates
<1>4. t \in Timers /\ timer[t].kind = "none" /\ timer \in [Timers -> TimerStates]
  BY DEF FreeTimers, IInv, TypeOK
<1> HIDE DEF x
<1>5. timer' = [timer EXCEPT ![t] = x]
  BY <1>1 DEF x
<1>6. Cardinality({t}) = 1
  BY FS_Singleton
<1>7. retryTimers' \subseteq Timers /\ Cardinality(retryTimers') <= 1
  BY <1>1, <1>4, <1>6 DEF IInv, TypeOK
<1> QED BY <1>3, <1>4, <1>5, <1>7 DEF TimersKeep, Waiting

LEMMA FiredFacts ==
    ASSUME IInv, NEW t \in Timers, Fired(t)
    PROVE  /\ timer' \in [Timers -> TimerStates]
           /\ retryTimers' \subseteq Timers /\ Cardinality(retryTimers') <= 1
           /\ \A u \in Timers \ {t} : timer'[u] = timer[u]
<1>1. NoTimer \in TimerStates
  BY IdleTyped
<1>2. Cardinality({}) = 0
  BY FS_EmptySet
<1> QED BY <1>1, <1>2 DEF Fired, IInv, TypeOK

--------------------------------------------------------------------------------
(* One lemma per action of a run. *)

LEMMA AboutRun ==
    ASSUME IInv, NEW r \in Runs
    PROVE  /\ run \in [Runs -> RunStates] /\ Frame(run[r]) /\ entry \in Runs \cup {NoRun}
           /\ stops \in [Stoppers -> Stops] /\ status \in Statuses /\ output \in BOOLEAN
           /\ lease \in Nat /\ seen \in 0..3 /\ run[r].leases \in 0..2
           /\ entry = r => run[r].at \notin Absent
           /\ seen < Stop /\ run[r].at \in Held => entry = r
           /\ seen < FollowUp => run[r].at # "joined" /\ (run[r].followUp => run[r].at = "joining")
           /\ seen < FollowUp /\ lease > 0 => lease = 1
<1>1. run \in [Runs -> RunStates] /\ Frame(run[r]) /\ entry \in Runs \cup {NoRun} /\ run[r].leases \in 0..2
  BY Fields DEF IInv, TypeOK, Frames
<1>2. /\ stops \in [Stoppers -> Stops] /\ status \in Statuses /\ output \in BOOLEAN
      /\ lease \in Nat /\ seen \in 0..3
  BY DEF IInv, TypeOK, Stops, Nothing, FollowUp
<1>3. entry = r => run[r].at \notin Absent
  BY Constants DEF IInv, EntryIsAlive, Absent
<1> QED BY <1>1, <1>2, <1>3 DEF IInv, Alone, FollowUpsAreSeen, LeaseIsBacked

(* The flat facts about run r and what its step did, from which Sound follows. *)
LEMMA WroteFor ==
    ASSUME IInv, NEW r \in Runs, NEW new \in Statuses, NEW f, But(r, f, run), SetStatus(new, f)
    PROVE  /\ But(r, run', run) /\ Alike(run'[r], f[r])
           /\ status' = new /\ stops' \in [Stoppers -> Stops]
           /\ seen' \in Nothing..FollowUp /\ seen' >= seen
           /\ seen' < Stop => stops' = stops
           /\ seen' = seen \/ seen' = Stop
<1>1. f \in [Runs -> RunStates] /\ stops \in [Stoppers -> Stops] /\ TypeOK
  BY DEF But, IInv, TypeOK, Stops
<1>2. /\ run' \in [Runs -> RunStates] /\ \A q \in Runs : Alike(run'[q], f[q])
      /\ status' = new /\ stops' \in [Stoppers -> Stops]
      /\ seen' \in Nothing..FollowUp /\ seen' >= seen
      /\ seen' < Stop => stops' = stops
      /\ seen' = seen \/ seen' = Stop
  BY <1>1, WriteFacts DEF SetStatus
<1> QED BY <1>2 DEF But, Alike

LEMMA StartSound ==
    ASSUME IInv, NEW r \in Runs, Start(r)
    PROVE  Sound(r)
<1>1. PICK fresh \in BOOLEAN, retry \in 0..MaxRetries :
        run' = [run EXCEPT ![r] = [IdleRun EXCEPT !.at = "entered", !.leases = 1,
                                       !.fresh = fresh, !.retry = retry]]
  BY DEF Start
<1> DEFINE a == [IdleRun EXCEPT !.at = "entered"]
           b == [a EXCEPT !.leases = 1]
           c == [b EXCEPT !.fresh = fresh]
           d == [c EXCEPT !.retry = retry]
<1>2. run' = [run EXCEPT ![r] = d]
  BY <1>1
<1> HIDE DEF a, b, c, d
<1>3. a \in RunStates /\ a.at = "entered" /\ ~a.followUp
  BY IdleTyped, AtSet DEF a, Ats
<1>4. b \in RunStates /\ b.at = "entered" /\ ~b.followUp /\ b.leases = 1
  BY <1>3 DEF RunStates, b
<1>5. c \in RunStates /\ c.at = "entered" /\ ~c.followUp /\ c.leases = 1
  BY <1>4 DEF RunStates, c
<1>6. d \in RunStates /\ d.at = "entered" /\ ~d.followUp /\ d.leases = 1
  BY <1>5 DEF RunStates, d
<1>7. But(r, run', run) /\ run'[r] = d
  BY <1>2, <1>6, AboutRun, SetTyped
<1>8. TimersKeep
  BY TimersUnchanged DEF Start
<1>9. Frame(run'[r])
  BY <1>6, <1>7 DEF Frame
<1>10. Typed(r)
  BY <1>7, <1>8, <1>9, AboutRun DEF Start, Typed, Nothing, FollowUp
<1>11. Owns(r)
  BY <1>6, <1>7, AboutRun, Constants DEF Start, Owns, Held, Absent
<1>12. Leases(r)
  BY <1>6, <1>7, AboutRun DEF Start, Leases
<1>13. Progresses(r)
  BY <1>6, <1>7, AboutRun DEF Start, Progresses, Held
<1> QED BY <1>10, <1>11, <1>12, <1>13 DEF Sound

LEMMA LoadTerminalSound ==
    ASSUME IInv, NEW r \in Runs, LoadTerminal(r)
    PROVE  Sound(r)
<1>1. /\ But(r, run', run) /\ run'[r].at = "cleanup" /\ ~run'[r].fresh
      /\ run'[r].followUp = run[r].followUp /\ run'[r].leases = run[r].leases
  BY AboutRun, SpentFacts DEF LoadTerminal, Over, Ats
<1>2. TimersKeep
  BY TimersUnchanged DEF LoadTerminal
<1>3. Frame(run'[r])
  BY <1>1, AboutRun, Constants DEF LoadTerminal, Frame
<1>4. Typed(r)
  BY <1>1, <1>2, <1>3, AboutRun DEF LoadTerminal, Typed, Nothing, FollowUp
<1>5. Owns(r)
  BY <1>1, AboutRun, Constants DEF LoadTerminal, Owns, Held, Absent, Stop, FollowUp
<1>6. Leases(r)
  BY <1>1, AboutRun DEF LoadTerminal, Leases, FollowUp
<1>7. Progresses(r)
  BY <1>1, <1>2, AboutRun, Constants DEF LoadTerminal, Progresses, Held, Nothing, Terminal
<1> QED BY <1>4, <1>5, <1>6, <1>7 DEF Sound

LEMMA DelegateSound ==
    ASSUME IInv, NEW r \in Runs, Delegate(r)
    PROVE  Sound(r)
<1>1. /\ But(r, run', run) /\ run'[r].at = "resuming" /\ ~run'[r].fresh
      /\ run'[r].followUp = run[r].followUp /\ run'[r].leases = run[r].leases
  BY AboutRun, SpentFacts DEF Delegate, Ats
<1>2. TimersKeep
  BY TimersUnchanged DEF Delegate
<1>3. Frame(run'[r])
  BY <1>1, AboutRun, Constants DEF Delegate, Frame
<1>4. Typed(r)
  BY <1>1, <1>2, <1>3, AboutRun DEF Delegate, Typed, Nothing, FollowUp
<1>5. Owns(r)
  BY <1>1, AboutRun, Constants DEF Delegate, Owns, Held, Absent, Stop, FollowUp
<1>6. Leases(r)
  BY <1>1, AboutRun DEF Delegate, Leases, FollowUp
<1>7. Progresses(r)
  BY <1>1, <1>2, AboutRun, Constants DEF Delegate, Progresses, Held, Nothing
<1> QED BY <1>4, <1>5, <1>6, <1>7 DEF Sound

LEMMA ResumeRefusedSound ==
    ASSUME IInv, NEW r \in Runs, ResumeRefused(r)
    PROVE  Sound(r)
<1>1. /\ But(r, run', run) /\ run'[r].at = "returning" /\ ~run'[r].fresh
      /\ run'[r].followUp = run[r].followUp /\ run'[r].leases = run[r].leases
  BY AboutRun, SpentFacts DEF ResumeRefused, Ats
<1>2. TimersKeep
  BY TimersUnchanged DEF ResumeRefused
<1>3. Frame(run'[r])
  BY <1>1, AboutRun, Constants DEF ResumeRefused, Frame
<1>4. Typed(r)
  BY <1>1, <1>2, <1>3, AboutRun DEF ResumeRefused, Typed, Nothing, FollowUp
<1>5. Owns(r)
  BY <1>1, AboutRun, Constants DEF ResumeRefused, Owns, Held, Absent, Stop, FollowUp
<1>6. Leases(r)
  BY <1>1, AboutRun DEF ResumeRefused, Leases, FollowUp
<1>7. Progresses(r)
  BY <1>1, <1>2, AboutRun, Constants DEF ResumeRefused, Progresses, Held, Nothing
<1> QED BY <1>4, <1>5, <1>6, <1>7 DEF Sound

LEMMA AuthorityDeniesSound ==
    ASSUME IInv, NEW r \in Runs, AuthorityDenies(r)
    PROVE  Sound(r)
<1>1. /\ But(r, run', run) /\ run'[r].at = "cleanup" /\ ~run'[r].fresh
      /\ run'[r].followUp = run[r].followUp /\ run'[r].leases = run[r].leases
  BY AboutRun, SpentFacts DEF AuthorityDenies, Over, Ats
<1>2. TimersKeep
  BY TimersUnchanged DEF AuthorityDenies
<1>3. seen' \in Nothing..FollowUp /\ seen' >= seen /\ seen' > Nothing /\ (seen' < Stop => seen < Stop)
  BY AboutRun DEF AuthorityDenies, AtLeast, Nothing, Denial, Stop, FollowUp
<1>4. Frame(run'[r])
  BY <1>1, AboutRun, Constants DEF AuthorityDenies, Frame
<1>5. Typed(r)
  BY <1>1, <1>2, <1>4, <1>3, AboutRun DEF AuthorityDenies, Typed, Nothing, FollowUp
<1>6. Owns(r)
  BY <1>1, <1>3, AboutRun, Constants DEF AuthorityDenies, Owns, Held, Absent, Stop, FollowUp
<1>7. Leases(r)
  BY <1>1, <1>3, AboutRun DEF AuthorityDenies, Leases, FollowUp
<1>8. Progresses(r)
  BY <1>1, <1>2, <1>3, AboutRun, Constants DEF AuthorityDenies, Progresses, Held, Nothing
<1> QED BY <1>5, <1>6, <1>7, <1>8 DEF Sound

LEMMA AgentAbortsSound ==
    ASSUME IInv, NEW r \in Runs, AgentAborts(r)
    PROVE  Sound(r)
<1>1. /\ But(r, run', run) /\ run'[r].at = "aborting" /\ ~run'[r].fresh
      /\ run'[r].followUp = run[r].followUp /\ run'[r].leases = run[r].leases
  BY AboutRun, SpentFacts DEF AgentAborts, Ats
<1>2. TimersKeep
  BY TimersUnchanged DEF AgentAborts
<1>3. Frame(run'[r])
  BY <1>1, AboutRun, Constants DEF AgentAborts, Frame
<1>4. Typed(r)
  BY <1>1, <1>2, <1>3, AboutRun DEF AgentAborts, Typed, Nothing, FollowUp
<1>5. Owns(r)
  BY <1>1, AboutRun, Constants DEF AgentAborts, Owns, Held, Absent, Stop, FollowUp
<1>6. Leases(r)
  BY <1>1, AboutRun DEF AgentAborts, Leases, FollowUp
<1>7. Progresses(r)
  BY <1>1, <1>2, AboutRun, Constants DEF AgentAborts, Progresses, Held, Nothing
<1> QED BY <1>4, <1>5, <1>6, <1>7 DEF Sound

LEMMA RetryLaterSound ==
    ASSUME IInv, NEW r \in Runs, RetryLater(r)
    PROVE  Sound(r)
<1>1. /\ But(r, run', run) /\ run'[r].at = "cleanup" /\ ~run'[r].fresh
      /\ run'[r].followUp = run[r].followUp /\ run'[r].leases = run[r].leases
  BY AboutRun, SpentFacts DEF RetryLater, Over, Ats
<1>2. TimersKeep /\ Waiting({"relaunch"})'
  BY AboutRun, ArmFacts DEF RetryLater, Frame
<1>3. Frame(run'[r])
  BY <1>1, AboutRun, Constants DEF RetryLater, Frame
<1>4. Typed(r)
  BY <1>1, <1>2, <1>3, AboutRun DEF RetryLater, Typed, Nothing, FollowUp
<1>5. Owns(r)
  BY <1>1, AboutRun, Constants DEF RetryLater, Owns, Held, Absent, Stop, FollowUp
<1>6. Leases(r)
  BY <1>1, AboutRun DEF RetryLater, Leases, FollowUp
<1>7. Progresses(r)
  BY <1>1, <1>2, AboutRun, Constants DEF RetryLater, Progresses, Held, Nothing, Waiting
<1> QED BY <1>4, <1>5, <1>6, <1>7 DEF Sound

LEMMA RecoveryRetriesSound ==
    ASSUME IInv, NEW r \in Runs, RecoveryRetries(r)
    PROVE  Sound(r)
<1>1. /\ But(r, run', run) /\ run'[r].at = "cleanup" /\ ~run'[r].fresh
      /\ run'[r].followUp = run[r].followUp /\ run'[r].leases = run[r].leases
  BY AboutRun, SpentFacts DEF RecoveryRetries, Over, Ats
<1>2. TimersKeep /\ Waiting({"immediate"})'
  BY AboutRun, ArmFacts DEF RecoveryRetries, Frame
<1>3. Frame(run'[r])
  BY <1>1, AboutRun, Constants DEF RecoveryRetries, Frame
<1>4. Typed(r)
  BY <1>1, <1>2, <1>3, AboutRun DEF RecoveryRetries, Typed, Nothing, FollowUp
<1>5. Owns(r)
  BY <1>1, AboutRun, Constants DEF RecoveryRetries, Owns, Held, Absent, Stop, FollowUp
<1>6. Leases(r)
  BY <1>1, AboutRun DEF RecoveryRetries, Leases, FollowUp
<1>7. Progresses(r)
  BY <1>1, <1>2, AboutRun, Constants DEF RecoveryRetries, Progresses, Held, Nothing, Waiting
<1> QED BY <1>4, <1>5, <1>6, <1>7 DEF Sound

LEMMA BackOffSound ==
    ASSUME IInv, NEW r \in Runs, BackOff(r)
    PROVE  Sound(r)
<1>1. /\ But(r, run', run) /\ run'[r].at = "cleanup" /\ ~run'[r].fresh
      /\ run'[r].followUp = run[r].followUp /\ run'[r].leases = run[r].leases
  BY AboutRun, SpentFacts DEF BackOff, Over, Ats
<1>2. TimersKeep /\ Waiting({"reset"})'
  BY AboutRun, ArmFacts DEF BackOff, Frame
<1>3. Frame(run'[r])
  BY <1>1, AboutRun, Constants DEF BackOff, Frame
<1>4. Typed(r)
  BY <1>1, <1>2, <1>3, AboutRun DEF BackOff, Typed, Nothing, FollowUp
<1>5. Owns(r)
  BY <1>1, AboutRun, Constants DEF BackOff, Owns, Held, Absent, Stop, FollowUp
<1>6. Leases(r)
  BY <1>1, AboutRun DEF BackOff, Leases, FollowUp
<1>7. Progresses(r)
  BY <1>1, <1>2, AboutRun, Constants DEF BackOff, Progresses, Held, Nothing, Waiting
<1> QED BY <1>4, <1>5, <1>6, <1>7 DEF Sound

LEMMA RecoveryWaitsSound ==
    ASSUME IInv, NEW r \in Runs, RecoveryWaits(r)
    PROVE  Sound(r)
<1>1. /\ But(r, run', run) /\ run'[r].at = "delaying" /\ run'[r].fresh = run[r].fresh
      /\ run'[r].followUp = run[r].followUp /\ run'[r].leases = run[r].leases
      /\ run'[r].retry = run[r].retry
  BY AboutRun, MovedFacts DEF RecoveryWaits, Ats
<1>2. TimersKeep
  BY TimersUnchanged DEF RecoveryWaits
<1>3. Frame(run'[r])
  BY <1>1, AboutRun, Constants DEF RecoveryWaits, Frame
<1>4. Typed(r)
  BY <1>1, <1>2, <1>3, AboutRun DEF RecoveryWaits, Typed, Nothing, FollowUp
<1>5. Owns(r)
  BY <1>1, AboutRun, Constants DEF RecoveryWaits, Owns, Held, Absent, Stop, FollowUp
<1>6. Leases(r)
  BY <1>1, AboutRun DEF RecoveryWaits, Leases, FollowUp
<1>7. Progresses(r)
  BY <1>1, <1>2, AboutRun, Constants DEF RecoveryWaits, Progresses, Held, Nothing
<1> QED BY <1>4, <1>5, <1>6, <1>7 DEF Sound

LEMMA PrepareThrowsSound ==
    ASSUME IInv, NEW r \in Runs, PrepareThrows(r)
    PROVE  Sound(r)
<1>1. /\ But(r, run', run) /\ run'[r].at = "failing" /\ run'[r].fresh = run[r].fresh
      /\ run'[r].followUp = run[r].followUp /\ run'[r].leases = run[r].leases
      /\ run'[r].retry = run[r].retry
  BY AboutRun, LeftFacts DEF PrepareThrows, Ats
<1>2. TimersKeep
  BY TimersUnchanged DEF PrepareThrows
<1>3. Frame(run'[r])
  BY <1>1, AboutRun, Constants DEF PrepareThrows, Frame
<1>4. Typed(r)
  BY <1>1, <1>2, <1>3, AboutRun DEF PrepareThrows, Typed, Nothing, FollowUp
<1>5. Owns(r)
  BY <1>1, AboutRun, Constants DEF PrepareThrows, Owns, Held, Absent, Stop, FollowUp
<1>6. Leases(r)
  BY <1>1, AboutRun DEF PrepareThrows, Leases, FollowUp
<1>7. Progresses(r)
  BY <1>1, <1>2, AboutRun, Constants DEF PrepareThrows, Progresses, Held, Nothing
<1> QED BY <1>4, <1>5, <1>6, <1>7 DEF Sound

LEMMA CleanupSound ==
    ASSUME IInv, NEW r \in Runs, Cleanup(r)
    PROVE  Sound(r)
<1>1. /\ But(r, run', run) /\ run'[r].at = "returning" /\ run'[r].fresh = run[r].fresh
      /\ run'[r].followUp = run[r].followUp /\ run'[r].leases = run[r].leases
      /\ run'[r].retry = run[r].retry
  BY AboutRun, MovedFacts DEF Cleanup, Ats
<1>2. TimersKeep
  BY TimersUnchanged DEF Cleanup
<1>3. Frame(run'[r])
  BY <1>1, AboutRun, Constants DEF Cleanup, Frame
<1>4. Typed(r)
  BY <1>1, <1>2, <1>3, AboutRun DEF Cleanup, Typed, Nothing, FollowUp
<1>5. Owns(r)
  BY <1>1, AboutRun, Constants DEF Cleanup, Owns, Held, Absent, Stop, FollowUp
<1>6. Leases(r)
  BY <1>1, AboutRun DEF Cleanup, Leases, FollowUp
<1>7. Progresses(r)
  BY <1>1, <1>2, AboutRun, Constants DEF Cleanup, Progresses, Held, Nothing
<1> QED BY <1>4, <1>5, <1>6, <1>7 DEF Sound

LEMMA JoinSound ==
    ASSUME IInv, NEW r \in Runs, Join(r)
    PROVE  Sound(r)
<1>1. /\ But(r, run', run) /\ run'[r].at = "joined" /\ run'[r].fresh = run[r].fresh
      /\ run'[r].followUp = run[r].followUp /\ run'[r].leases = run[r].leases
      /\ run'[r].retry = run[r].retry
  BY AboutRun, MovedFacts DEF Join, Ats
<1>2. TimersKeep
  BY TimersUnchanged DEF Join
<1>3. seen' \in Nothing..FollowUp /\ seen' >= seen /\ seen' = FollowUp
  BY AboutRun DEF Join, AtLeast, Nothing, FollowUp
<1>4. Frame(run'[r])
  BY <1>1, AboutRun, Constants DEF Join, Frame
<1>5. Typed(r)
  BY <1>1, <1>2, <1>4, <1>3, AboutRun DEF Join, Typed, Nothing, FollowUp
<1>6. Owns(r)
  BY <1>1, <1>3, AboutRun, Constants DEF Join, Owns, Held, Absent, Stop, FollowUp
<1>7. Leases(r)
  BY <1>1, <1>3, AboutRun DEF Join, Leases, FollowUp
<1>8. Progresses(r)
  BY <1>1, <1>2, <1>3, AboutRun, Constants DEF Join, Progresses, Held, Nothing
<1> QED BY <1>5, <1>6, <1>7, <1>8 DEF Sound

LEMMA PrepareSound ==
    ASSUME IInv, NEW r \in Runs, Prepare(r)
    PROVE  Sound(r)
<1>1. /\ But(r, Moved(r, "agent"), run) /\ Moved(r, "agent")[r].at = "agent"
      /\ Moved(r, "agent")[r].followUp = run[r].followUp /\ Moved(r, "agent")[r].leases = run[r].leases
      /\ Moved(r, "agent")[r].fresh = run[r].fresh
  BY AboutRun, MovedFacts DEF Ats
<1>2. /\ But(r, run', run) /\ Alike(run'[r], Moved(r, "agent")[r])
      /\ status' = "in_progress" /\ stops' \in [Stoppers -> Stops]
      /\ seen' \in Nothing..FollowUp /\ seen' >= seen /\ (seen' < Stop => stops' = stops)
      /\ seen' = seen \/ seen' = Stop
  BY <1>1, WroteFor DEF Prepare, Statuses
<1>3. TimersKeep
  BY TimersUnchanged DEF Prepare
<1>4. Frame(run'[r])
  BY <1>1, <1>2, AboutRun, Constants DEF Prepare, Alike, Frame
<1>5. Typed(r)
  BY <1>1, <1>2, <1>3, <1>4, AboutRun DEF Prepare, Statuses, Typed
<1>6. Owns(r)
  BY <1>1, <1>2, AboutRun, Constants DEF Prepare, Alike, Owns, Held, Absent, Nothing, Stop, FollowUp
<1>7. Leases(r)
  BY <1>1, <1>2, AboutRun DEF Prepare, Alike, Leases, Nothing, FollowUp
<1>8. Progresses(r)
  BY <1>1, <1>2, AboutRun, Constants DEF Prepare, Alike, Progresses, Held, Nothing, Stop
<1> QED BY <1>5, <1>6, <1>7, <1>8 DEF Sound

LEMMA FollowUpRunsSound ==
    ASSUME IInv, NEW r \in Runs, FollowUpRuns(r)
    PROVE  Sound(r)
<1>1. /\ But(r, Moved(r, "agent"), run) /\ Moved(r, "agent")[r].at = "agent"
      /\ Moved(r, "agent")[r].followUp = run[r].followUp /\ Moved(r, "agent")[r].leases = run[r].leases
      /\ Moved(r, "agent")[r].fresh = run[r].fresh
  BY AboutRun, MovedFacts DEF Ats
<1>2. /\ But(r, run', run) /\ Alike(run'[r], Moved(r, "agent")[r])
      /\ status' = "in_progress" /\ stops' \in [Stoppers -> Stops]
      /\ seen' \in Nothing..FollowUp /\ seen' >= seen /\ (seen' < Stop => stops' = stops)
      /\ seen' = seen \/ seen' = Stop
  BY <1>1, WroteFor DEF FollowUpRuns, Statuses
<1>3. TimersKeep
  BY TimersUnchanged DEF FollowUpRuns
<1>4. Frame(run'[r])
  BY <1>1, <1>2, AboutRun, Constants DEF FollowUpRuns, Alike, Frame
<1>5. Typed(r)
  BY <1>1, <1>2, <1>3, <1>4, AboutRun DEF FollowUpRuns, Statuses, Typed
<1>6. Owns(r)
  BY <1>1, <1>2, AboutRun, Constants DEF FollowUpRuns, Alike, Owns, Held, Absent, Nothing, Stop, FollowUp
<1>7. Leases(r)
  BY <1>1, <1>2, AboutRun DEF FollowUpRuns, Alike, Leases, Nothing, FollowUp
<1>8. Progresses(r)
  BY <1>1, <1>2, AboutRun, Constants DEF FollowUpRuns, Alike, Progresses, Held, Nothing, Stop, FollowUp
<1> QED BY <1>5, <1>6, <1>7, <1>8 DEF Sound

(* A run that ends on a status other than in_progress. *)
LEMMA WriteOverSound ==
    ASSUME IInv, NEW r \in Runs, NEW new \in Statuses \ {"in_progress"}, SetStatus(new, Over(r)),
           run[r].at \notin Absent, UNCHANGED <<lease, entry, timer, retryTimers, output>>
    PROVE  Sound(r)
<1>1. /\ But(r, Over(r), run) /\ Over(r)[r].at = "cleanup" /\ ~Over(r)[r].fresh
      /\ Over(r)[r].followUp = run[r].followUp /\ Over(r)[r].leases = run[r].leases
  BY AboutRun, SpentFacts DEF Over, Ats
<1>2. /\ But(r, run', run) /\ Alike(run'[r], Over(r)[r])
      /\ status' = new /\ stops' \in [Stoppers -> Stops]
      /\ seen' \in Nothing..FollowUp /\ seen' >= seen /\ (seen' < Stop => stops' = stops)
      /\ seen' = seen \/ seen' = Stop
  BY <1>1, WroteFor
<1>3. TimersKeep
  BY TimersUnchanged
<1>4. Frame(run'[r])
  BY <1>1, <1>2, AboutRun, Constants DEF Alike, Frame
<1>5. Typed(r)
  BY <1>1, <1>2, <1>3, <1>4, AboutRun DEF Statuses, Typed
<1>6. Owns(r)
  BY <1>1, <1>2, AboutRun, Constants DEF Alike, Owns, Held, Absent, Nothing, Stop, FollowUp
<1>7. Leases(r)
  BY <1>1, <1>2, AboutRun DEF Alike, Leases, Nothing, FollowUp
<1>8. Progresses(r)
  BY <1>1, <1>2, AboutRun, Constants DEF Alike, Progresses, Held, Nothing, Stop
<1> QED BY <1>5, <1>6, <1>7, <1>8 DEF Sound

LEMMA EndSound ==
    ASSUME IInv, NEW r \in Runs,
           PrepareBlocks(r) \/ AgentSucceeds(r) \/ AbortResets(r) \/ RetriesExhausted(r) \/ GiveUp(r)
    PROVE  Sound(r)
<1>1. PICK new \in Statuses \ {"in_progress"} : SetStatus(new, Over(r))
  BY DEF PrepareBlocks, AgentSucceeds, AbortResets, RetriesExhausted, GiveUp, Statuses
<1>2. run[r].at \notin Absent /\ UNCHANGED <<lease, entry, timer, retryTimers, output>>
  BY DEF PrepareBlocks, AgentSucceeds, AbortResets, RetriesExhausted, GiveUp, Absent
<1> QED BY <1>1, <1>2, WriteOverSound

LEMMA FollowUpBlocksSound ==
    ASSUME IInv, NEW r \in Runs, FollowUpBlocks(r)
    PROVE  Sound(r)
<1> DEFINE f == [run EXCEPT ![r] = IdleRun]
<1>1. But(r, f, run) /\ f[r] = IdleRun
  BY AboutRun, IdleTyped, SetTyped
<1>2. SetStatus("open", f)
  BY DEF FollowUpBlocks
<1> HIDE DEF f
<1>3. /\ But(r, run', run) /\ Alike(run'[r], IdleRun)
      /\ status' = "open" /\ stops' \in [Stoppers -> Stops]
      /\ seen' \in Nothing..FollowUp /\ seen' >= seen /\ (seen' < Stop => stops' = stops)
      /\ seen' = seen \/ seen' = Stop
  BY <1>1, <1>2, WroteFor DEF Statuses
<1>4. TimersKeep
  BY TimersUnchanged DEF FollowUpBlocks
<1>5. Frame(run'[r])
  BY <1>3, IdleTyped, AboutRun, Constants DEF FollowUpBlocks, Alike, Frame
<1>6. Typed(r)
  BY <1>3, <1>4, <1>5, AboutRun DEF FollowUpBlocks, Statuses, Typed
<1>7. Owns(r)
  BY <1>3, IdleTyped, AboutRun, Constants
     DEF FollowUpBlocks, Alike, Owns, Held, Absent, Nothing, Stop, FollowUp
<1>8. Leases(r)
  BY <1>3, IdleTyped, AboutRun DEF FollowUpBlocks, Alike, Frame, Leases, Nothing, FollowUp
<1>9. Progresses(r)
  BY <1>3, IdleTyped, AboutRun, Constants DEF FollowUpBlocks, Alike, Progresses, Held, Nothing, Stop
<1> QED BY <1>6, <1>7, <1>8, <1>9 DEF Sound

LEMMA LoadSound ==
    ASSUME IInv, NEW r \in Runs, Load(r)
    PROVE  Sound(r)
<1> DEFINE x == [run[r] EXCEPT !.at = "preparing"]
           y == [x EXCEPT !.fresh = FALSE]
<1>1. run' = [run EXCEPT ![r] = y]
  BY DEF Load
<1> HIDE DEF x, y
<1>2. x \in RunStates /\ x.at = "preparing" /\ x.followUp = run[r].followUp /\ x.leases = run[r].leases
  <2>1. run[r] \in RunStates
    BY AboutRun
  <2> QED BY <2>1, AtSet DEF Ats, x
<1>3. /\ y \in RunStates /\ y.at = "preparing" /\ y.followUp = run[r].followUp
      /\ y.leases = run[r].leases /\ ~y.fresh
  BY <1>2 DEF RunStates, y
<1>4. But(r, run', run) /\ run'[r] = y
  BY <1>1, <1>3, AboutRun, SetTyped
<1>5. TimersKeep
  BY TimersUnchanged DEF Load
<1>6. Frame(run'[r])
  BY <1>3, <1>4, AboutRun, Constants DEF Load, Frame
<1>7. Typed(r)
  BY <1>1, <1>2, <1>3, <1>4, <1>5, <1>6, AboutRun DEF Load, Typed, Nothing, FollowUp
<1>8. Owns(r)
  BY <1>3, <1>4, AboutRun, Constants DEF Load, Owns, Held, Absent, Stop, FollowUp
<1>9. Leases(r)
  BY <1>3, <1>4, AboutRun DEF Load, Leases, FollowUp
<1>10. Progresses(r)
  BY <1>1, <1>2, <1>3, <1>4, <1>5, AboutRun, Constants DEF Load, Progresses, Held, Nothing
<1> QED BY <1>7, <1>8, <1>9, <1>10 DEF Sound

LEMMA RecurseSound ==
    ASSUME IInv, NEW r \in Runs, Recurse(r)
    PROVE  Sound(r)
<1> DEFINE x == [run[r] EXCEPT !.retry = 0]
           y == [x EXCEPT !.fresh = FALSE]
           z == [y EXCEPT !.aborted = FALSE]
<1>1. run' = [run EXCEPT ![r] = z]
  BY DEF Recurse
<1> HIDE DEF x, y, z
<1>2. x \in RunStates /\ x.at = "entered" /\ x.followUp = run[r].followUp /\ x.leases = run[r].leases
  BY AboutRun, Constants DEF Recurse, RunStates, x
<1>3. /\ y \in RunStates /\ y.at = "entered" /\ y.followUp = run[r].followUp
      /\ y.leases = run[r].leases /\ ~y.fresh
  BY <1>2 DEF RunStates, y
<1>4. /\ z \in RunStates /\ z.at = "entered" /\ z.followUp = run[r].followUp
      /\ z.leases = run[r].leases /\ ~z.fresh
  BY <1>3, AbortedSet DEF z
<1>5. But(r, run', run) /\ run'[r] = z
  BY <1>1, <1>4, AboutRun, SetTyped
<1>6. TimersKeep
  BY TimersUnchanged DEF Recurse
<1>7. Frame(run'[r])
  BY <1>4, <1>5, AboutRun, Constants DEF Recurse, Frame
<1>8. Typed(r)
  BY <1>1, <1>2, <1>3, <1>4, <1>5, <1>6, <1>7, AboutRun DEF Recurse, Typed, Nothing, FollowUp
<1>9. Owns(r)
  BY <1>4, <1>5, AboutRun, Constants DEF Recurse, Owns, Held, Absent, Stop, FollowUp
<1>10. Leases(r)
  BY <1>4, <1>5, AboutRun DEF Recurse, Leases, FollowUp
<1>11. Progresses(r)
  BY <1>1, <1>2, <1>3, <1>4, <1>5, <1>6, AboutRun, Constants DEF Recurse, Progresses, Held, Nothing
<1> QED BY <1>8, <1>9, <1>10, <1>11 DEF Sound

LEMMA ResumeRunsSound ==
    ASSUME IInv, NEW r \in Runs, ResumeRuns(r)
    PROVE  Sound(r)
<1> DEFINE x == [run[r] EXCEPT !.at = "entered"]
           y == [x EXCEPT !.leases = @ + 1]
<1>1. run' = [run EXCEPT ![r] = y]
  BY DEF ResumeRuns
<1> HIDE DEF x, y
<1>2. /\ x \in RunStates /\ x.at = "entered" /\ x.followUp = run[r].followUp
      /\ x.leases = run[r].leases /\ x.fresh = run[r].fresh
  <2>1. run[r] \in RunStates
    BY AboutRun
  <2> QED BY <2>1, AtSet DEF Ats, x
<1>3. run[r].leases \in 0..1 /\ ~run[r].followUp
  BY AboutRun DEF ResumeRuns, Frame
<1>4. /\ y \in RunStates /\ y.at = "entered" /\ y.followUp = run[r].followUp
      /\ y.leases = run[r].leases + 1 /\ y.fresh = run[r].fresh
  BY <1>2, <1>3 DEF RunStates, y
<1>5. But(r, run', run) /\ run'[r] = y
  BY <1>1, <1>4, AboutRun, SetTyped
<1>6. TimersKeep
  BY TimersUnchanged DEF ResumeRuns
<1>7. Frame(run'[r])
  BY <1>3, <1>4, <1>5, AboutRun, Constants DEF ResumeRuns, Frame
<1>8. Typed(r)
  BY <1>1, <1>2, <1>3, <1>4, <1>5, <1>6, <1>7, AboutRun DEF ResumeRuns, Typed, Nothing, FollowUp
<1>9. Owns(r)
  BY <1>3, <1>4, <1>5, AboutRun, Constants DEF ResumeRuns, Owns, Held, Absent, Stop, FollowUp
<1>10. Leases(r)
  BY <1>3, <1>4, <1>5, AboutRun DEF ResumeRuns, Leases, FollowUp
<1>11. Progresses(r)
  BY <1>1, <1>2, <1>3, <1>4, <1>5, <1>6, AboutRun, Constants DEF ResumeRuns, Progresses, Held, Nothing
<1> QED BY <1>8, <1>9, <1>10, <1>11 DEF Sound

LEMMA ReturnSound ==
    ASSUME IInv, NEW r \in Runs, Return(r)
    PROVE  Sound(r)
<1>1. But(r, run', run) /\ run'[r] = IdleRun
  BY AboutRun, IdleTyped, SetTyped DEF Return
<1>2. TimersKeep
  BY TimersUnchanged DEF Return
<1>3. Frame(run'[r])
  BY <1>1, IdleTyped, AboutRun, Constants DEF Return, Frame
<1>4. Typed(r)
  BY <1>1, <1>2, <1>3, AboutRun DEF Return, Typed, Released, Frame, Nothing, FollowUp
<1>5. Owns(r)
  BY <1>1, IdleTyped, AboutRun, Constants DEF Return, Owns, Held, Absent, Stop, FollowUp
<1>6. Leases(r)
  BY <1>1, IdleTyped, AboutRun DEF Return, Leases, FollowUp, Released, Frame
<1>7. Progresses(r)
  BY <1>1, <1>2, IdleTyped, AboutRun, Constants DEF Return, Progresses, Held, Nothing
<1> QED BY <1>4, <1>5, <1>6, <1>7 DEF Sound

LEMMA FollowUpEndsSound ==
    ASSUME IInv, NEW r \in Runs, FollowUpEnds(r)
    PROVE  Sound(r)
<1>1. But(r, run', run) /\ run'[r] = IdleRun
  BY AboutRun, IdleTyped, SetTyped DEF FollowUpEnds
<1>2. TimersKeep
  BY TimersUnchanged DEF FollowUpEnds
<1>3. Frame(run'[r])
  BY <1>1, IdleTyped, AboutRun, Constants DEF FollowUpEnds, Frame
<1>4. Typed(r)
  BY <1>1, <1>2, <1>3, AboutRun DEF FollowUpEnds, Typed, Released, Frame, Nothing, FollowUp
<1>5. Owns(r)
  BY <1>1, IdleTyped, AboutRun, Constants DEF FollowUpEnds, Owns, Held, Absent, Stop, FollowUp
<1>6. Leases(r)
  BY <1>1, IdleTyped, AboutRun DEF FollowUpEnds, Leases, FollowUp, Released, Frame
<1>7. Progresses(r)
  BY <1>1, <1>2, IdleTyped, AboutRun, Constants DEF FollowUpEnds, Progresses, Held, Nothing
<1> QED BY <1>4, <1>5, <1>6, <1>7 DEF Sound

LEMMA CallFollowUpSound ==
    ASSUME IInv, NEW r \in Runs, CallFollowUp(r)
    PROVE  Sound(r)
<1> DEFINE x == [IdleRun EXCEPT !.at = "joining"]
           y == [x EXCEPT !.followUp = TRUE]
<1>1. run' = [run EXCEPT ![r] = y]
  BY DEF CallFollowUp
<1> HIDE DEF x, y
<1>2. x \in RunStates /\ x.at = "joining" /\ x.leases = 0 /\ ~x.fresh
  BY IdleTyped, AtSet DEF Ats, x
<1>3. y \in RunStates /\ y.at = "joining" /\ y.leases = 0 /\ ~y.fresh /\ y.followUp
  BY <1>2 DEF RunStates, y
<1>4. But(r, run', run) /\ run'[r] = y
  BY <1>1, <1>3, AboutRun, SetTyped
<1>5. TimersKeep
  BY TimersUnchanged DEF CallFollowUp
<1>6. Frame(run'[r])
  BY <1>3, <1>4, AboutRun, Constants DEF CallFollowUp, Frame
<1>7. Typed(r)
  BY <1>1, <1>2, <1>3, <1>4, <1>5, <1>6, AboutRun DEF CallFollowUp, Typed, Nothing, FollowUp
<1>8. Owns(r)
  BY <1>3, <1>4, AboutRun, Constants DEF CallFollowUp, Owns, Held, Absent, Stop, FollowUp
<1>9. Leases(r)
  BY <1>3, <1>4, AboutRun DEF CallFollowUp, Leases, FollowUp, Frame
<1>10. Progresses(r)
  BY <1>1, <1>2, <1>3, <1>4, <1>5, AboutRun, Constants DEF CallFollowUp, Progresses, Held, Nothing
<1> QED BY <1>7, <1>8, <1>9, <1>10 DEF Sound

LEMMA AgentFailsSound ==
    ASSUME IInv, NEW r \in Runs, AgentFails(r)
    PROVE  Sound(r)
<1>1. TimersKeep
  BY TimersUnchanged DEF AgentFails
<1>2. CASE run' = Over(r) /\ run[r].followUp
  <2>1. /\ But(r, run', run) /\ run'[r].at = "cleanup" /\ ~run'[r].fresh
        /\ run'[r].followUp /\ run'[r].leases = run[r].leases
    BY <1>2, AboutRun, SpentFacts DEF Over, Ats
  <2>2. Frame(run'[r]) /\ seen >= FollowUp
    BY <1>2, <2>1, AboutRun DEF AgentFails, Frame, FollowUp
  <2>3. Typed(r)
    BY <1>1, <2>1, <2>2, AboutRun DEF AgentFails, Typed, Nothing, FollowUp
  <2>4. Owns(r) /\ Leases(r) /\ Progresses(r)
    BY <2>1, <2>2, AboutRun DEF AgentFails, Owns, Leases, Progresses, Absent, Nothing, Stop, FollowUp
  <2> QED BY <2>3, <2>4 DEF Sound
<1>3. ASSUME NEW at \in {"failing", "exhausted"}, run' = Left(r, at), ~run[r].followUp
      PROVE  Sound(r)
  <2>1. /\ But(r, run', run) /\ run'[r].at = at /\ run'[r].fresh = run[r].fresh
        /\ run'[r].followUp = run[r].followUp /\ run'[r].leases = run[r].leases
    BY <1>3, AboutRun, LeftFacts DEF Ats
  <2>2. Frame(run'[r])
    BY <1>3, <2>1, AboutRun DEF AgentFails, Frame
  <2>3. Typed(r)
    BY <1>1, <2>1, <2>2, AboutRun DEF AgentFails, Typed, Nothing, FollowUp
  <2>4. Owns(r)
    BY <1>3, <2>1, AboutRun, Constants DEF AgentFails, Owns, Held, Absent
  <2>5. Leases(r) /\ Progresses(r)
    BY <2>1, AboutRun DEF AgentFails, Leases, Progresses, Held, FollowUp
  <2> QED BY <2>3, <2>4, <2>5 DEF Sound
<1> QED BY <1>2, <1>3 DEF AgentFails

--------------------------------------------------------------------------------
(* The timers' callbacks *)

LEMMA RelaunchSound ==
    ASSUME IInv, NEW r \in Runs, NEW t \in Timers, Relaunch(t, r)
    PROVE  IInv'
<1> DEFINE a == [IdleRun EXCEPT !.at = "entered"]
           b == [a EXCEPT !.fresh = TRUE]
           c == [b EXCEPT !.retry = timer[t].retry]
<1>1. run' = [run EXCEPT ![r] = c]
  BY DEF Relaunch
<1>2. timer[t].retry \in 0..MaxRetries
  BY DEF IInv, TypeOK, TimerStates
<1> HIDE DEF a, b, c
<1>3. a \in RunStates /\ a.at = "entered" /\ ~a.followUp /\ a.leases = 0
  BY IdleTyped, AtSet DEF Ats, a
<1>4. b \in RunStates /\ b.at = "entered" /\ ~b.followUp /\ b.leases = 0
  BY <1>3 DEF RunStates, b
<1>5. c \in RunStates /\ c.at = "entered" /\ ~c.followUp /\ c.leases = 0
  BY <1>2, <1>4 DEF RunStates, c
<1>6. But(r, run', run) /\ run'[r] = c
  BY <1>1, <1>5, AboutRun, SetTyped
<1>7. run[r].leases = 0
  BY AboutRun DEF Relaunch, Frame
<1>8. /\ run \in [Runs -> RunStates] /\ run' \in [Runs -> RunStates] /\ entry = NoRun /\ entry' = r
      /\ \A q \in Runs : q # r => Alike(run'[q], run[q])
  BY <1>6, AboutRun DEF Relaunch, But
<1>9. TypeOK'
  BY <1>8, FiredFacts DEF Relaunch, IInv, TypeOK
<1>10. Frames'
  BY <1>5, <1>6, <1>8 DEF IInv, Frames, Frame, Alike
<1>11. EntryIsAlive'
  BY <1>5, <1>6, <1>8 DEF EntryIsAlive
<1>12. LeaseIsBacked'
  BY <1>7, <1>8 DEF Relaunch, IInv, LeaseIsBacked, Alike
<1>13. Alone'
  BY <1>8, Constants DEF Relaunch, IInv, Alone, Alike
<1>14. FollowUpsAreSeen'
  BY <1>5, <1>6, <1>8 DEF Relaunch, IInv, FollowUpsAreSeen, Alike
<1>15. Moves'
  BY <1>5, <1>6 DEF Moves, Held
<1>16. Resets'
  BY <1>5, <1>6, <1>8 DEF Resets
<1> QED BY <1>9, <1>10, <1>11, <1>12, <1>13, <1>14, <1>15, <1>16 DEF IInv

LEMMA RelaunchRefusedSteady ==
    ASSUME IInv, NEW t \in Timers, RelaunchRefused(t)
    PROVE  Steady
<1>1. Waiting({"reset"}) => Waiting({"reset"})'
  BY FiredFacts DEF RelaunchRefused, Waiting
<1>2. ASSUME seen = Nothing, status = "in_progress"
      PROVE  Waiting({"reset"}) \/ \E q \in Runs : run[q].at \in Held
  <2>1. entry \in Runs /\ run[entry] \in RunStates
    BY DEF RelaunchRefused, IInv, TypeOK
  <2>2. run[entry].at \in Held \cup {"cleanup"}
    BY <1>2, <2>1, Fields, AboutRun DEF Ats, Absent, Held, Nothing, FollowUp
  <2> QED BY <1>2, <2>1, <2>2, Constants DEF IInv, Resets
<1>3. Waiting({"reset"})' => Waiting({"relaunch", "immediate", "reset"})'
  BY DEF Waiting
<1>4. \A q \in Runs : Alike(run'[q], run[q])
  BY DEF RelaunchRefused, Alike
<1>5. /\ timer' \in [Timers -> TimerStates]
      /\ retryTimers' \subseteq Timers /\ Cardinality(retryTimers') <= 1
  BY FiredFacts DEF RelaunchRefused
<1> QED BY <1>1, <1>2, <1>3, <1>4, <1>5 DEF RelaunchRefused, Steady, IInv, TypeOK, Stops, Nothing, FollowUp

LEMMA WroteSteady ==
    ASSUME IInv, NEW new \in Statuses \ {"in_progress"}, NEW g \in [Stoppers -> Stops],
           WriteStatus(new, run, g), seen < Stop => g = stops,
           timer' \in [Timers -> TimerStates],
           retryTimers' \subseteq Timers, Cardinality(retryTimers') <= 1,
           UNCHANGED <<lease, entry, output>>
    PROVE  Steady
<1>1. /\ run' \in [Runs -> RunStates] /\ \A q \in Runs : Alike(run'[q], run[q])
      /\ status' = new /\ stops' \in [Stoppers -> Stops]
      /\ seen' \in Nothing..FollowUp /\ seen' >= seen
      /\ seen' < Stop => stops' = g
  BY WriteFacts DEF IInv, TypeOK
<1>2. lease \in Nat /\ entry \in Runs \cup {NoRun} /\ output \in BOOLEAN /\ seen \in 0..3
  BY DEF IInv, TypeOK, Nothing, FollowUp
<1> QED BY <1>1, <1>2 DEF Steady, Nothing, Stop, FollowUp

LEMMA ResetSteady ==
    ASSUME IInv, NEW t \in Timers, ResetAfterBackOff(t)
    PROVE  Steady
<1>1. stops \in [Stoppers -> Stops] /\ WriteStatus("open", run, stops)
  BY DEF ResetAfterBackOff, SetStatus, IInv, TypeOK, Stops
<1>2. /\ timer' \in [Timers -> TimerStates]
      /\ retryTimers' \subseteq Timers /\ Cardinality(retryTimers') <= 1
  BY FiredFacts DEF ResetAfterBackOff
<1> QED BY <1>1, <1>2, WroteSteady DEF ResetAfterBackOff, Statuses

--------------------------------------------------------------------------------
(* Stops and the rest of the server *)

LEMMA MarkDoneSteady == ASSUME IInv, MarkDone PROVE Steady
<1>1. stops \in [Stoppers -> Stops] /\ WriteStatus("done", run, stops)
  BY DEF MarkDone, SetStatus, IInv, TypeOK, Stops
<1>2. /\ timer' \in [Timers -> TimerStates]
      /\ retryTimers' \subseteq Timers /\ Cardinality(retryTimers') <= 1
  BY DEF MarkDone, IInv, TypeOK
<1> QED BY <1>1, <1>2, WroteSteady DEF MarkDone, Statuses

LEMMA StopWritesSteady ==
    ASSUME IInv, NEW s \in Stoppers, StopWrites(s)
    PROVE  Steady
<1>1. stops \in [Stoppers -> Stops] /\ stops[s].at = "writing"
  BY DEF StopWrites, IInv, TypeOK, Stops
<1>2. stops[s].target \in {"open", "done"}
  BY <1>1 DEF Stops
<1> DEFINE x == [IdleStop EXCEPT !.at = "written"]
           g == [stops EXCEPT ![s] = x]
<1>3. WriteStatus(stops[s].target, run, g)
  BY DEF StopWrites
<1>4. x \in Stops
  BY DEF Stops, IdleStop
<1> HIDE DEF x
<1>5. g \in [Stoppers -> Stops]
  BY <1>1, <1>4
<1>6. ~(seen < Stop)
  BY <1>1 DEF IInv, Alone
<1>7. /\ timer' \in [Timers -> TimerStates]
      /\ retryTimers' \subseteq Timers /\ Cardinality(retryTimers') <= 1
      /\ UNCHANGED <<lease, entry, output>>
  BY DEF StopWrites, IInv, TypeOK
<1> HIDE DEF g
<1> QED BY <1>2, <1>3, <1>5, <1>6, <1>7, WroteSteady DEF Statuses

LEMMA StopFeatureSteady ==
    ASSUME IInv, NEW s \in Stoppers, StopFeature(s)
    PROVE  Steady
<1>1. run' \in [Runs -> RunStates] /\ \A q \in Runs : Alike(run'[q], run[q])
  BY AbortFacts DEF StopFeature, IInv, TypeOK
<1>2. stops' \in [Stoppers -> Stops]
  BY DEF StopFeature, IInv, TypeOK, Stops
<1>3. seen' \in Nothing..FollowUp /\ seen' >= seen /\ seen' >= Stop
  BY DEF StopFeature, AtLeast, IInv, TypeOK, Nothing, Stop, FollowUp
<1> QED BY <1>1, <1>2, <1>3 DEF StopFeature, Steady, IInv, TypeOK, Nothing, Stop, FollowUp

LEMMA StopEndsSteady ==
    ASSUME IInv, NEW s \in Stoppers, StopEnds(s)
    PROVE  Steady
<1>1. stops' \in [Stoppers -> Stops]
  BY IdleTyped DEF StopEnds, IInv, TypeOK, Stops
<1>2. timer' \in [Timers -> TimerStates]
  BY IdleTyped DEF StopEnds, IInv, TypeOK
<1>3. retryTimers' \subseteq Timers /\ Cardinality(retryTimers') <= 1
  BY FS_EmptySet DEF StopEnds
<1>4. seen \in 0..3 /\ ~(seen < Stop) /\ lease \in Nat
  BY DEF StopEnds, IInv, Alone, TypeOK, Nothing, FollowUp
<1>5. lease' \in Nat /\ lease' <= lease
  BY <1>4 DEF StopEnds, Released
<1>6. \A q \in Runs : Alike(run'[q], run[q])
  BY DEF StopEnds, Alike
<1> QED BY <1>1, <1>2, <1>3, <1>4, <1>5, <1>6
        DEF StopEnds, Steady, IInv, TypeOK, Nothing, Stop, FollowUp

LEMMA StopAutoLoopSteady == ASSUME IInv, StopAutoLoop PROVE Steady
<1>1. run' \in [Runs -> RunStates] /\ \A q \in Runs : Alike(run'[q], run[q])
  BY AbortFacts DEF StopAutoLoop, IInv, TypeOK
<1>2. seen' \in Nothing..FollowUp /\ seen' >= seen /\ (seen' < Stop => entry = NoRun)
  BY DEF StopAutoLoop, AtLeast, IInv, TypeOK, Nothing, Stop, FollowUp
<1>3. UNCHANGED <<timer, retryTimers, stops, status, output>> /\ entry' = NoRun /\ lease' = 0
  BY DEF StopAutoLoop
<1>4. /\ timer \in [Timers -> TimerStates] /\ retryTimers \subseteq Timers /\ Cardinality(retryTimers) <= 1
      /\ stops \in [Stoppers -> Stops] /\ status \in Statuses /\ output \in BOOLEAN /\ lease \in Nat
  BY DEF IInv, TypeOK, Stops
<1>5. \A kinds \in SUBSET {"relaunch", "immediate", "reset"} : Waiting(kinds) => Waiting(kinds)'
  BY <1>3 DEF Waiting
<1> QED BY <1>1, <1>2, <1>3, <1>4, <1>5 DEF Steady

LEMMA ReleaseStaleLeaseSteady == ASSUME IInv, ReleaseStaleLease PROVE Steady
<1>1. \A q \in Runs : Alike(run'[q], run[q])
  BY DEF ReleaseStaleLease, Alike
<1> QED BY <1>1 DEF ReleaseStaleLease, Steady, Waiting, IInv, TypeOK, Stops, Nothing, FollowUp

--------------------------------------------------------------------------------
(* The theorems *)

LEMMA RunStepKeeps ==
    ASSUME IInv, NEW r \in Runs, Start(r) \/ CallFollowUp(r) \/ RunStep(r)
    PROVE  IInv'
<1>1. Sound(r)
  BY StartSound, CallFollowUpSound, LoadTerminalSound, RecurseSound, DelegateSound, LoadSound,
     ResumeRefusedSound, ResumeRunsSound, PrepareSound, AuthorityDeniesSound, PrepareThrowsSound,
     EndSound, AgentFailsSound, AgentAbortsSound, RetryLaterSound, RecoveryWaitsSound,
     RecoveryRetriesSound, BackOffSound, CleanupSound, ReturnSound, FollowUpBlocksSound, JoinSound,
     FollowUpRunsSound, FollowUpEndsSound
     DEF RunStep
<1> QED BY <1>1, SoundKeeps

LEMMA InitHolds == Init => IInv
<1> SUFFICES ASSUME Init PROVE IInv
  OBVIOUS
<1>1. \A r \in Runs : run[r] = IdleRun
  BY DEF Init
<1>2. TypeOK
  <2>1. IdleRun \in RunStates /\ NoTimer \in TimerStates /\ IdleStop \in Stops
    BY IdleTyped
  <2>2. run \in [Runs -> RunStates] /\ timer \in [Timers -> TimerStates] /\ stops \in [Stoppers -> Stops]
    BY <2>1 DEF Init
  <2>3. retryTimers \subseteq Timers /\ Cardinality(retryTimers) <= 1
    BY FS_EmptySet DEF Init
  <2>4. /\ lease \in Nat /\ entry \in Runs \cup {NoRun} /\ status \in Statuses /\ output \in BOOLEAN
        /\ seen \in Nothing..FollowUp
    <3>1. lease = 0 /\ entry = NoRun /\ status = "open" /\ output = FALSE /\ seen = Nothing
      BY DEF Init
    <3>2. output \in BOOLEAN
      BY <3>1, Zenon
    <3>3. seen \in Nothing..FollowUp
      BY <3>1 DEF Nothing, FollowUp
    <3> QED BY <3>1, <3>2, <3>3 DEF Statuses
  <2> QED BY <2>2, <2>3, <2>4 DEF TypeOK, Stops
<1>3. Frames
  BY <1>1, IdleTyped DEF Frames, Frame
<1>4. Alone
  BY <1>1, IdleTyped DEF Init, Alone, Held, IdleStop
<1>5. FollowUpsAreSeen
  BY <1>1, IdleTyped DEF FollowUpsAreSeen
<1> QED BY <1>2, <1>3, <1>4, <1>5 DEF Init, IInv, EntryIsAlive, LeaseIsBacked, Moves, Resets

LEMMA StepKeeps == IInv /\ [Next]_vars => IInv'
<1> SUFFICES ASSUME IInv, [Next]_vars PROVE IInv'
  OBVIOUS
<1>1. CASE \E r \in Runs : Start(r) \/ CallFollowUp(r) \/ RunStep(r)
  BY <1>1, RunStepKeeps
<1>2. CASE \E t \in Timers : TimerStep(t)
  BY <1>2, RelaunchSound, RelaunchRefusedSteady, ResetSteady, SteadyKeeps DEF TimerStep
<1>3. CASE \E s \in Stoppers : StopFeature(s) \/ StopStep(s)
  BY <1>3, StopFeatureSteady, StopWritesSteady, StopEndsSteady, SteadyKeeps DEF StopStep
<1>4. CASE StopAutoLoop \/ MarkDone \/ ReleaseStaleLease
  BY <1>4, StopAutoLoopSteady, MarkDoneSteady, ReleaseStaleLeaseSteady, SteadyKeeps
<1>5. CASE UNCHANGED vars
  BY <1>5 DEF vars, IInv, TypeOK, Frames, EntryIsAlive, LeaseIsBacked, Alone, FollowUpsAreSeen,
              Moves, Resets, Waiting
<1> QED BY <1>1, <1>2, <1>3, <1>4, <1>5 DEF Next

LEMMA Invariant == Spec => []IInv
<1> QED BY InitHolds, StepKeeps, PTL DEF Spec

(* Every variable keeps its type; the retry count stays within its limit.    *)
THEOREM TypeCorrect == Spec => []TypeOK
<1>1. IInv => TypeOK
  BY DEF IInv
<1> QED BY <1>1, Invariant, PTL

(* runningFeatures never keeps the entry of a run that is over: whatever     *)
(* stops, retries and follow-ups do to it, the feature can start again.      *)
THEOREM EntryStaysAlive == Spec => []EntryIsAlive
<1>1. IInv => EntryIsAlive
  BY DEF IInv
<1> QED BY <1>1, Invariant, PTL

(* Until somebody stops a run or follows up on it, no two agents work on the *)
(* feature: the guard of ExecutionService suffices without the lease.        *)
THEOREM NoTwoAgents == Spec => []OneLiveAgent
<1>1. ASSUME IInv, seen < Stop
      PROVE  Cardinality(Live) <= 1
  <2>1. Live \subseteq {entry}
    BY <1>1 DEF IInv, Alone, Live, Held
  <2>2. IsFiniteSet({entry}) /\ Cardinality({entry}) = 1
    BY FS_Singleton
  <2>3. Cardinality(Live) <= Cardinality({entry}) /\ IsFiniteSet(Live)
    BY <2>1, <2>2, FS_Subset
  <2>4. Cardinality(Live) \in Nat
    BY <2>3, FS_CardinalityType
  <2> QED BY <2>2, <2>3, <2>4
<1>2. IInv => OneLiveAgent
  BY <1>1 DEF OneLiveAgent
<1> QED BY <1>2, Invariant, PTL

(* Without follow-ups the count is that of calls which will give it back,    *)
(* also after the releases of stops and of the health sweep.                 *)
THEOREM LeasesAreBacked == Spec => []LeaseIsBacked
<1>1. IInv => LeaseIsBacked
  BY DEF IInv
<1> QED BY <1>1, Invariant, PTL

(* Left alone, every run that ends writes a status or arms a timer; only the *)
(* call that finds the context of an earlier run leaves in_progress behind.  *)
THEOREM ContextAloneStrands == Spec => []OnlyContextStrands
<1>1. ASSUME IInv, Quiet, seen = Nothing, status = "in_progress"
      PROVE  output
  <2>1. \A r \in Runs : run[r].at \notin Held
    BY <1>1 DEF Quiet, Held
  <2>2. ~Waiting({"relaunch", "immediate", "reset"})
    BY <1>1 DEF Quiet, Waiting
  <2> QED BY <1>1, <2>1, <2>2 DEF IInv, Moves
<1>2. IInv => OnlyContextStrands
  BY <1>1 DEF OnlyContextStrands
<1> QED BY <1>2, Invariant, PTL

================================================================================
