---------------------------- MODULE DependencyProofs ----------------------------
(***************************************************************************)
(* Theorems about the dependencies of features: the gates of DependencyGate  *)
(* for any board and any writers, and that DependencyResolver implements     *)
(* DependencyOrder, for any graph, from which its properties follow.         *)
(***************************************************************************)
EXTENDS DependencyGate, DependencyResolver,
        FiniteSetTheorems, SequenceTheorems, WellFoundedInduction, TLAPS

(* A call has its place, and one that nobody called is not the loop's. *)
IdleCalls == \A f \in Features : call[f].at = "idle" => ~call[f].auto

AllDone(f) == \A id \in deps[f] : status[id] = "done"

(* What the histories say of those whose look at the board still holds. *)
ClearedHold ==
    \A f \in Features : call[f].at = "cleared" /\ f \notin changed
        => call[f].deps = deps[f] /\ Blocking(status, deps[f]) = {}
AutoHold ==
    \A f \in Features : call[f].auto /\ call[f].at \in {"called", "intake"} /\ f \notin changed
        => AllDone(f) /\ (call[f].at = "intake" => call[f].deps = deps[f])
PassHolds ==
    pass.at = "loaded" /\ "pass" \notin changed
        => /\ \A f \in ToSet(pass.ready) : AllDone(f)
           /\ \A f \in pass.todo : status[f] = "blocked"
SettingsHold ==
    \A s \in Setters : setting[s].at = "checked"
        => /\ setting[s].of \in Features
           /\ s \notin changed => ~ClosesCycle(deps, setting[s].of, setting[s].ds)
SweepHolds == "sweep" \notin changed => \A f \in DOMAIN sweep : sweep[f] \subseteq deps[f]

TidyHolds ==
    "tidy" \notin changed
        => \A d \in DOMAIN tidy : \A f \in DOMAIN tidy[d].left : tidy[d].left[f] \subseteq deps[f]
ToldIsEmpty == \A d \in DOMAIN tidy : DOMAIN tidy[d].left # {} => tidy[d].at = "writes"

GateInv ==
    /\ TypeOK /\ IdleCalls /\ ClearedHold /\ AutoHold /\ PassHolds
    /\ SettingsHold /\ SweepHolds /\ TidyHolds /\ ToldIsEmpty

--------------------------------------------------------------------------------
(* Graphs *)

Below(N, f) == {g \in DOMAIN N : Reaches(N, f, g)}

(* What a feature reaches is closed, and holds what it depends on. *)
LEMMA BelowClosed ==
    ASSUME NEW N, NEW f \in DOMAIN N
    PROVE  N[f] \cap DOMAIN N \subseteq Below(N, f) /\ Closed(N, Below(N, f))
BY DEF Below, Reaches, Closed

(* A closed set that holds a feature holds what it reaches. *)
LEMMA ClosedHolds ==
    ASSUME NEW N, NEW S \in SUBSET DOMAIN N, Closed(N, S), NEW f \in S, NEW g, Reaches(N, f, g)
    PROVE  g \in S
BY DEF Reaches, Closed

(* A feature reaches what those it depends on reach. *)
LEMMA ReachesOn ==
    ASSUME NEW N, NEW f \in DOMAIN N, NEW g \in N[f] \cap DOMAIN N, NEW h, Reaches(N, g, h)
    PROVE  Reaches(N, f, h)
BY DEF Reaches, Closed

(* No cycle comes from taking dependencies away. *)
LEMMA FewerNeeds ==
    ASSUME NEW N, NEW M, DOMAIN M = DOMAIN N, \A f \in DOMAIN N : M[f] \subseteq N[f], Acyclic(N)
    PROVE  Acyclic(M)
<1> SUFFICES ASSUME NEW f \in DOMAIN N, Reaches(M, f, f) PROVE Reaches(N, f, f)
  BY DEF Acyclic
<1> SUFFICES ASSUME NEW S \in SUBSET DOMAIN N, N[f] \cap DOMAIN N \subseteq S, Closed(N, S) PROVE f \in S
  BY DEF Reaches
<1>1. Closed(M, S) /\ M[f] \cap DOMAIN M \subseteq S
  BY DEF Closed
<1> QED BY <1>1 DEF Reaches

(* Nor from new dependencies of f that do not lead to f. *)
LEMMA NewNeeds ==
    ASSUME NEW N, NEW M, NEW f \in DOMAIN N, NEW ds, DOMAIN M = DOMAIN N, M[f] = ds,
           \A g \in DOMAIN N : g # f => M[g] = N[g], Acyclic(N), ~ClosesCycle(N, f, ds)
    PROVE  Acyclic(M)
<1> DEFINE R == {g \in DOMAIN N : \E id \in ds : g = id \/ (id \in DOMAIN N /\ Reaches(N, id, g))}
<1>1. f \notin R /\ ds \cap DOMAIN N \subseteq R
  BY DEF ClosesCycle
<1>2. Closed(N, R)
  <2> SUFFICES ASSUME NEW g \in R, NEW h \in N[g] \cap DOMAIN N PROVE h \in R
    BY DEF Closed
  <2>1. PICK id \in ds : g = id \/ (id \in DOMAIN N /\ Reaches(N, id, g))
    OBVIOUS
  <2>2. id \in DOMAIN N /\ Reaches(N, id, h)
    BY <2>1 DEF Reaches, Closed
  <2> QED BY <2>2
<1>3. Closed(M, R)
  BY <1>1, <1>2 DEF Closed
<1> SUFFICES ASSUME NEW x \in DOMAIN N, Reaches(M, x, x) PROVE FALSE
  BY DEF Acyclic
<1>4. ASSUME NEW S \in SUBSET DOMAIN N, M[x] \cap DOMAIN N \subseteq S, Closed(M, S) PROVE x \in S
  BY <1>4 DEF Reaches
<1>5. x # f
  <2> SUFFICES ASSUME x = f PROVE FALSE
    OBVIOUS
  <2> QED BY <1>1, <1>3, <1>4
<1> DEFINE B == Below(N, x)
<1>6. N[x] \cap DOMAIN N \subseteq B /\ Closed(N, B) /\ x \notin B /\ B \in SUBSET DOMAIN N
  BY BelowClosed DEF Below, Acyclic
<1> HIDE DEF B
<1>7. f \in B
  <2> SUFFICES ASSUME f \notin B PROVE FALSE
    OBVIOUS
  <2>1. Closed(M, B) /\ M[x] \cap DOMAIN N \subseteq B
    BY <1>5, <1>6 DEF Closed
  <2> QED BY <1>4, <1>6, <2>1
<1>8. x \notin R
  <2> SUFFICES ASSUME x \in R PROVE FALSE
    OBVIOUS
  <2>1. Reaches(N, x, f)
    BY <1>7 DEF B, Below
  <2> QED BY <1>1, <1>2, <2>1, ClosedHolds
<1>9. Closed(M, B \cup R) /\ M[x] \cap DOMAIN N \subseteq B \cup R
  BY <1>1, <1>2, <1>5, <1>6 DEF Closed
<1> QED BY <1>4, <1>6, <1>8, <1>9

--------------------------------------------------------------------------------
(* The types of DependencyGate *)

CallType == [at : {"idle", "called", "intake", "cleared", "refused", "running"},
             deps : SUBSET Features, auto : BOOLEAN]
SettingType == [at : {"idle", "checked"}, of : Features \cup {None}, ds : SUBSET Features]

(* The orders of some features are sequences of them. *)
LEMMA OrdersOf ==
    ASSUME NEW S \in SUBSET Features, NEW q \in SetToSeqs(S)
    PROVE  q \in Seq(Features) /\ ToSet(q) \subseteq S /\ \A i \in DOMAIN q : q[i] \in S
<1>1. IsFiniteSet(S) /\ Cardinality(S) \in Nat
  BY GateAssumption, FS_Subset, FS_CardinalityType
<1>2. q \in [1..Cardinality(S) -> S]
  BY DEF SetToSeqs
<1> QED BY <1>1, <1>2 DEF ToSet

(* A write of a status keeps the type. *)
LEMMA WriteTypes ==
    ASSUME TypeOK, NEW f \in Features,
           NEW s \in {"backlog", "blocked", "in_progress", "review", "done", "deleted"}, Write(f, s)
    PROVE  status' \in [Features -> {"backlog", "blocked", "in_progress", "review", "done", "deleted"}]
BY DEF TypeOK, Write

(* What the listener of a deletion has to do keeps its type. *)
LEMMA TidyTypes ==
    ASSUME TypeOK, Step
    PROVE  TidyTyped'
<1>1. TidyTyped
  BY DEF TypeOK
<1>2. ASSUME NEW d, Forget(d) PROVE TidyTyped'
  BY <1>1, <1>2 DEF Forget, TidyTyped, Tidies
<1>3. ASSUME NEW f \in Features, Delete(f) PROVE TidyTyped'
  <2>1. Tidies(Told)
    BY DEF Told, Tidies
  <2>2. tidy' = [d \in DOMAIN tidy \cup {f} |-> IF d = f THEN Told ELSE tidy[d]]
    BY <1>3 DEF Delete
  <2> HIDE DEF Tidies
  <2>3. DOMAIN tidy' \subseteq Features /\ \A d \in DOMAIN tidy' : Tidies(tidy'[d])
    BY <1>1, <2>1, <2>2 DEF TidyTyped
  <2> QED BY <2>3 DEF TidyTyped, Tidies
<1>4. ASSUME NEW d \in Features, TidyLooks(d) PROVE TidyTyped'
  <2> DEFINE dependents == {f \in Features : d \in deps[f]}
             w == [at |-> "writes", left |-> [f \in dependents |-> deps[f] \ {d}]]
  <2>1. Forget(d) \/ tidy' = [tidy EXCEPT ![d] = w]
    BY <1>4 DEF TidyLooks
  <2>2. Tidies(w)
    BY DEF Tidies, TypeOK
  <2> HIDE DEF w
  <2>3. CASE tidy' = [tidy EXCEPT ![d] = w]
    <3>1. DOMAIN tidy' \subseteq Features /\ \A c \in DOMAIN tidy' : Tidies(tidy'[c])
      BY <1>1, <2>2, <2>3 DEF TidyTyped
    <3> QED BY <3>1 DEF TidyTyped, Tidies
  <2> QED BY <1>2, <2>1, <2>3
<1>5. ASSUME NEW d \in Features, NEW f \in Features, TidyFixes(d, f) PROVE TidyTyped'
  <2> DEFINE w == [tidy[d] EXCEPT !.left = [g \in DOMAIN @ \ {f} |-> @[g]]]
  <2>1. d \in DOMAIN tidy /\ (Forget(d) \/ tidy' = [tidy EXCEPT ![d] = w])
    BY <1>5 DEF TidyFixes
  <2>2. Tidies(w)
    BY <1>1, <2>1 DEF TidyTyped, Tidies
  <2> HIDE DEF w
  <2>3. CASE tidy' = [tidy EXCEPT ![d] = w]
    <3>1. DOMAIN tidy' \subseteq Features /\ \A c \in DOMAIN tidy' : Tidies(tidy'[c])
      BY <1>1, <2>2, <2>3 DEF TidyTyped
    <3> QED BY <3>1 DEF TidyTyped, Tidies
  <2> QED BY <1>2, <2>1, <2>3
<1>6. ASSUME NEW d \in Features, TidyEnds(d) PROVE TidyTyped'
  BY <1>2, <1>6 DEF TidyEnds
<1>7. CASE tidy' = tidy
  BY <1>1, <1>7 DEF TidyTyped, Tidies
<1>8. \/ \E f \in Features : Delete(f)
      \/ \E d \in Features : TidyLooks(d)
      \/ \E d \in Features, f \in Features : TidyFixes(d, f)
      \/ \E d \in Features : TidyEnds(d)
      \/ tidy' = tidy
  <2>1. CASE Load \/ Dispatch \/ SweepLooks
    BY <2>1 DEF Load, Dispatch, SweepLooks
  <2>2. ASSUME NEW f \in Features,
               \/ Unblock(f) \/ Begins(f) \/ IntakeLooks(f) \/ IntakeStarts(f)
               \/ Escalates(f) \/ Ends(f) \/ Merges(f) \/ SweepFixes(f)
        PROVE  tidy' = tidy
    BY <2>2 DEF Unblock, Begins, IntakeLooks, IntakeStarts, Escalates, Ends, Merges, SweepFixes
  <2>3. ASSUME NEW f \in Features, NEW force \in BOOLEAN, RunFeature(f, force) PROVE tidy' = tidy
    BY <2>3 DEF RunFeature
  <2>4. ASSUME NEW f \in Features, NEW s, Moves(f, s) PROVE tidy' = tidy
    BY <2>4 DEF Moves
  <2>5. ASSUME NEW f \in Features, NEW ds \in DepSets, Rewrites(f, ds) PROVE tidy' = tidy
    BY <2>5 DEF Rewrites
  <2>6. ASSUME NEW e \in Epics, EpicCloses(e) PROVE tidy' = tidy
    BY <2>6 DEF EpicCloses
  <2>7. ASSUME NEW s \in Setters, SetWrites(s) PROVE tidy' = tidy
    BY <2>7 DEF SetWrites
  <2>8. ASSUME NEW s \in Setters, NEW f \in Features, NEW ds \in DepSets, SetLooks(s, f, ds) PROVE tidy' = tidy
    BY <2>8 DEF SetLooks
  <2> QED BY <2>1, <2>2, <2>3, <2>4, <2>5, <2>6, <2>7, <2>8 DEF Step
<1> QED BY <1>3, <1>4, <1>5, <1>6, <1>7, <1>8

(* So do the writes of a call. *)
LEMMA CallTypes ==
    ASSUME TypeOK, NEW f \in Features
    PROVE  /\ NoCall \in CallType
           /\ \A r \in CallType : call' = [call EXCEPT ![f] = r] => call' \in [Features -> CallType]
           /\ \A at \in {"idle", "called", "intake", "cleared", "refused", "running"} :
                Goto(f, at) => call' \in [Features -> CallType]
           /\ Hangup(f) => call' \in [Features -> CallType]
<1> USE DEF TypeOK, CallType
<1>1. NoCall \in CallType
  BY DEF NoCall
<1>2. ASSUME NEW r \in CallType, call' = [call EXCEPT ![f] = r] PROVE call' \in [Features -> CallType]
  BY <1>2
<1>3. ASSUME NEW at \in {"idle", "called", "intake", "cleared", "refused", "running"}, Goto(f, at)
      PROVE  call' \in [Features -> CallType]
  <2> DEFINE q == [call[f] EXCEPT !.at = at]
  <2>1. q \in CallType
    <3>1. call[f] \in CallType
      OBVIOUS
    <3> HIDE DEF TypeOK
    <3> QED BY <3>1
  <2>2. call' = [call EXCEPT ![f] = q]
    BY <1>3 DEF Goto
  <2> HIDE DEF q
  <2> QED BY <1>2, <2>1, <2>2
<1>4. ASSUME Hangup(f) PROVE call' \in [Features -> CallType]
  <2>1. call' = [call EXCEPT ![f] = NoCall]
    BY <1>4 DEF Hangup
  <2> QED BY <1>1, <1>2, <2>1
<1> HIDE DEF TypeOK, CallType
<1> QED BY <1>1, <1>2, <1>3, <1>4

(* Every step of the gates keeps the types. *)
LEMMA GateTypes ==
    ASSUME TypeOK, Step, Watch
    PROVE  TypeOK'
<1>1. \A f \in Features :
        /\ \A r \in CallType : call' = [call EXCEPT ![f] = r] => call' \in [Features -> CallType]
        /\ \A at \in {"idle", "called", "intake", "cleared", "refused", "running"} :
             Goto(f, at) => call' \in [Features -> CallType]
        /\ Hangup(f) => call' \in [Features -> CallType]
  BY CallTypes
<1>2. \A f \in Features, s \in {"backlog", "blocked", "in_progress", "review", "done", "deleted"} :
        Write(f, s) => status' \in [Features -> {"backlog", "blocked", "in_progress", "review", "done", "deleted"}]
  BY WriteTypes
<1> USE GateAssumption DEF TypeOK, board, CallType, SettingType
<1>3. changed' \in SUBSET (Features \cup Setters \cup {"tidy", "sweep", "pass"})
  BY DEF Watch
<1>4. TidyTyped'
  BY TidyTypes
<1>5. CASE Load
  <2>1. PICK free \in SUBSET Features, ready \in UNION {SetToSeqs(S) : S \in SUBSET Features} :
            pass' = [at |-> "loaded", todo |-> free, ready |-> ready]
    <3> DEFINE P(free) == {f \in Features : Eligible(Backlog(free), f)}
           waiting == {f \in Features : status[f] = "blocked" /\ deps[f] # {} /\ ~Final(f)}
    <3>3. PICK order \in SetToSeqs(waiting), free \in SUBSET waiting :
            \E ready \in Ordered(P(free)) : pass' = [at |-> "loaded", todo |-> free, ready |-> ready]
      BY <1>5, Zenon DEF Load
    <3>1. PICK ready \in Ordered(P(free)) : pass' = [at |-> "loaded", todo |-> free, ready |-> ready]
      BY <3>3
    <3>2. ready \in SetToSeqs(P(free)) /\ P(free) \in SUBSET Features
      BY <3>1 DEF Ordered
    <3>4. free \in SUBSET Features
      OBVIOUS
    <3>5. ready \in UNION {SetToSeqs(S) : S \in SUBSET Features}
      BY <3>2
    <3> HIDE DEF P, waiting
    <3> QED BY <3>1, <3>4, <3>5
  <2>2. ready \in Seq(Features)
    BY <2>1, OrdersOf
  <2> QED BY <1>3, <1>4, <1>5, <2>1, <2>2 DEF Load
<1>6. CASE Dispatch
  <2>1. \A i \in DOMAIN pass.ready : pass.ready[i] \in Features
    OBVIOUS
  <2>2. [NoCall EXCEPT !.at = "called", !.auto = TRUE] \in CallType
    BY DEF NoCall
  <2>3. UNCHANGED call \/ \E i \in DOMAIN pass.ready :
            call' = [call EXCEPT ![pass.ready[i]] = [NoCall EXCEPT !.at = "called", !.auto = TRUE]]
    BY <1>6 DEF Dispatch
  <2>4. call' \in [Features -> CallType]
    <3> DEFINE q == [NoCall EXCEPT !.at = "called", !.auto = TRUE]
    <3>1. q \in CallType
      BY <2>2
    <3>2. UNCHANGED call \/ \E i \in DOMAIN pass.ready : call' = [call EXCEPT ![pass.ready[i]] = q]
      BY <2>3
    <3> HIDE DEF q
    <3> QED BY <2>1, <3>1, <3>2
  <2>5. NoPass \in [at : {"idle", "loaded"}, todo : SUBSET Features, ready : Seq(Features)]
    BY DEF NoPass
  <2> QED BY <1>3, <1>4, <1>6, <2>5, <2>4 DEF Dispatch
<1>7. CASE SweepLooks
  BY <1>3, <1>4, <1>7 DEF SweepLooks
<1>8. ASSUME NEW f \in Features, Unblock(f) PROVE TypeOK'
  BY <1>3, <1>4, <1>8, <1>2 DEF Unblock
<1>9. ASSUME NEW f \in Features, Begins(f) PROVE TypeOK'
  <2>1. call' \in [Features -> CallType]
    <3> DEFINE q == [at |-> "intake", deps |-> deps[f], auto |-> call[f].auto]
    <3>1. Hangup(f) \/ call' = [call EXCEPT ![f] = q]
      BY <1>9 DEF Begins
    <3>2. q \in CallType
      OBVIOUS
    <3> HIDE DEF q
    <3> QED BY <3>1, <3>2, <1>1
  <2> QED BY <1>3, <1>4, <1>9, <2>1 DEF Begins
<1>10. ASSUME NEW f \in Features, IntakeLooks(f) PROVE TypeOK'
  <2>1. call' \in [Features -> CallType]
    BY <1>10, <1>1 DEF IntakeLooks
  <2> QED BY <1>3, <1>4, <1>10, <2>1 DEF IntakeLooks
<1>11. ASSUME NEW f \in Features, IntakeStarts(f) PROVE TypeOK'
  <2>1. call' \in [Features -> CallType]
    <3> DEFINE q == [NoCall EXCEPT !.at = "running"]
    <3>1. q \in CallType
      BY DEF NoCall
    <3>2. Goto(f, "refused") \/ call' = [call EXCEPT ![f] = q]
      BY <1>11 DEF IntakeStarts
    <3> HIDE DEF q, TypeOK, CallType
    <3> QED BY <3>1, <3>2, <1>1
  <2> QED BY <1>3, <1>4, <1>11, <2>1, <1>2 DEF IntakeStarts
<1>12. ASSUME NEW f \in Features, Escalates(f) PROVE TypeOK'
  <2>1. call' \in [Features -> CallType]
    BY <1>12, <1>1 DEF Escalates
  <2>2. failure' \in [Features -> {"none", "retryable", "final", "deps"}]
    BY <1>12 DEF Escalates
  <2>3. status' \in [Features -> {"backlog", "blocked", "in_progress", "review", "done", "deleted"}]
    BY <1>12, <1>2 DEF Escalates
  <2> QED BY <1>3, <1>4, <1>12, <2>1, <2>2, <2>3 DEF Escalates
<1>13. ASSUME NEW f \in Features, Ends(f) PROVE TypeOK'
  <2>1. call' \in [Features -> CallType]
    BY <1>13, <1>1 DEF Ends
  <2>2. failure' \in [Features -> {"none", "retryable", "final", "deps"}]
    BY <1>13 DEF Ends
  <2>3. status' \in [Features -> {"backlog", "blocked", "in_progress", "review", "done", "deleted"}]
    BY <1>13, <1>2 DEF Ends
  <2> QED BY <1>3, <1>4, <1>13, <2>1, <2>2, <2>3 DEF Ends
<1>14. ASSUME NEW f \in Features, Merges(f) PROVE TypeOK'
  BY <1>3, <1>4, <1>14, <1>2 DEF Merges
<1>15. ASSUME NEW f \in Features, SweepFixes(f) PROVE TypeOK'
  BY <1>3, <1>4, <1>15 DEF SweepFixes
<1>16. ASSUME NEW f \in Features, Delete(f) PROVE TypeOK'
  BY <1>3, <1>4, <1>16, <1>2 DEF Delete, Edit
<1>17. ASSUME NEW f \in Features, NEW force \in BOOLEAN, RunFeature(f, force) PROVE TypeOK'
  <2>1. call' \in [Features -> CallType]
    BY <1>17, <1>1 DEF RunFeature
  <2> QED BY <1>3, <1>4, <1>17, <2>1 DEF RunFeature, Edit
<1>18. ASSUME NEW f \in Features, NEW s \in {"backlog", "blocked", "done"}, Moves(f, s) PROVE TypeOK'
  BY <1>3, <1>4, <1>18, <1>2 DEF Moves, Edit
<1>19. ASSUME NEW e \in Epics, EpicCloses(e) PROVE TypeOK'
  BY <1>3, <1>4, <1>19, <1>2 DEF EpicCloses
<1>20. ASSUME NEW s \in Setters, SetWrites(s) PROVE TypeOK'
  <2>1. NoSetting \in SettingType
    BY DEF NoSetting
  <2>2. setting' \in [Setters -> SettingType]
    BY <1>20, <2>1 DEF SetWrites
  <2>3. deps' \in [Features -> SUBSET Features]
    <3>1. deps' = deps \/ deps' = [deps EXCEPT ![setting[s].of] = setting[s].ds]
      BY <1>20 DEF SetWrites
    <3>2. setting[s].ds \in SUBSET Features
      OBVIOUS
    <3> QED BY <3>1, <3>2
  <2> QED BY <1>3, <1>4, <1>20, <2>2, <2>3 DEF SetWrites
<1>21. ASSUME NEW s \in Setters, NEW f \in Features, NEW ds \in DepSets, SetLooks(s, f, ds) PROVE TypeOK'
  BY <1>3, <1>4, <1>21 DEF SetLooks, DepSets, Edit
<1>22. ASSUME NEW f \in Features, NEW ds \in DepSets, Rewrites(f, ds) PROVE TypeOK'
  BY <1>3, <1>4, <1>22 DEF Rewrites, DepSets, Edit
<1>23. ASSUME NEW d \in Features, TidyLooks(d) \/ TidyEnds(d) PROVE TypeOK'
  BY <1>3, <1>4, <1>23 DEF TidyLooks, TidyEnds
<1>24. ASSUME NEW d \in Features, NEW f \in Features, TidyFixes(d, f) PROVE TypeOK'
  <2>1. deps' = deps \/ deps' = [deps EXCEPT ![f] = tidy[d].left[f]]
    BY <1>24 DEF TidyFixes
  <2>2. tidy[d].left[f] \in SUBSET Features
    BY <1>24 DEF TidyFixes, TidyTyped, Tidies
  <2>3. deps' \in [Features -> SUBSET Features]
    BY <2>1, <2>2
  <2> QED BY <1>3, <1>4, <1>24, <2>3 DEF TidyFixes
<1> QED BY <1>5, <1>6, <1>7, <1>8, <1>9, <1>10, <1>11, <1>12, <1>13, <1>14, <1>15, <1>16, <1>17, <1>18,
           <1>19, <1>20, <1>21, <1>22, <1>23, <1>24 DEF Step

--------------------------------------------------------------------------------
(* What the histories of DependencyGate say *)

(* Of a call that relies on a look at the board and is not overtaken. *)
LEMMA WatchesCall ==
    ASSUME Watch, NEW f \in Features, f \notin changed',
           call'[f].at = "cleared" \/ (call'[f].auto /\ call'[f].at \in {"called", "intake"})
    PROVE  IF call[f].at = "idle" THEN "pass" \notin changed
           ELSE IF call[f].at = "intake" /\ call'[f].at = "cleared" THEN call[f].deps = deps[f]
           ELSE f \notin changed /\ deps' = deps /\ status' = status
<1>1. Relies(f)'
  BY GateAssumption DEF Relies
<1>2. ~Overtaken(f)
  BY <1>1 DEF Watch
<1>3. f \notin Setters /\ f # "pass" /\ f # "sweep" /\ f # "tidy"
  BY GateAssumption
<1> QED BY <1>2, <1>3 DEF Overtaken

(* Of the pass. *)
LEMMA WatchesPass ==
    ASSUME Watch, "pass" \notin changed', pass'.at = "loaded", pass.at = "loaded"
    PROVE  "pass" \notin changed /\ deps' = deps /\ (status' = status \/ pass'.todo # pass.todo)
<1>1. Relies("pass")' /\ Relies("pass")
  BY GateAssumption DEF Relies
<1>2. ~Overtaken("pass")
  BY <1>1 DEF Watch
<1>3. "pass" \notin Features
  BY GateAssumption
<1> QED BY <1>1, <1>2, <1>3 DEF Overtaken

(* Of a call of set_dependencies, of the listener and of the sweep. *)
LEMMA WatchesGraph ==
    ASSUME Watch, NEW x \in Setters \cup {"tidy", "sweep"}, x \notin changed', Relies(x), Relies(x)'
    PROVE  x \notin changed /\ deps' = deps
<1>1. ~Overtaken(x)
  BY DEF Watch
<1>2. x \notin Features /\ x # "pass"
  BY GateAssumption
<1> QED BY <1>1, <1>2 DEF Overtaken

(* The steps of a call. *)
LEMMA CallSteps ==
    ASSUME TypeOK, Step, NEW f \in Features
    PROVE  \/ call'[f] = call[f]
           \/ ~call'[f].auto /\ call'[f].at \in {"idle", "running"}
           \/ call[f].at = "cleared" /\ call'[f].at = "refused"
           \/ call[f].at = "idle" /\ call'[f].at = "called" /\ call'[f].auto = call[f].auto
           \/ /\ call[f].at = "idle" /\ call'[f].at = "called"
              /\ f \in ToSet(pass.ready) /\ pass.at = "loaded" /\ UNCHANGED <<status, deps>>
           \/ /\ call[f].at = "called" /\ call'[f].at = "intake" /\ UNCHANGED <<status, deps>>
              /\ call'[f].deps = deps[f] /\ call'[f].auto = call[f].auto
           \/ /\ call[f].at = "intake" /\ UNCHANGED <<status, deps>>
              /\ call'[f].at = IF Blocking(status, call[f].deps) = {} THEN "cleared" ELSE "refused"
              /\ call'[f].deps = call[f].deps /\ call'[f].auto = call[f].auto
<1> USE DEF TypeOK, board, NoCall, Goto, Hangup
<1>1. CASE Dispatch
  <2> DEFINE q == [NoCall EXCEPT !.at = "called", !.auto = TRUE]
  <2>1. q.at = "called"
    OBVIOUS
  <2>2. UNCHANGED call \/ \E i \in DOMAIN pass.ready :
            call[pass.ready[i]].at = "idle" /\ call' = [call EXCEPT ![pass.ready[i]] = q]
    BY <1>1 DEF Dispatch
  <2>3. pass.at = "loaded" /\ UNCHANGED <<status, deps>>
    BY <1>1 DEF Dispatch
  <2> HIDE DEF q
  <2> QED BY <2>1, <2>2, <2>3 DEF ToSet
<1>2. ASSUME NEW g \in Features, NEW force \in BOOLEAN, RunFeature(g, force)
      PROVE  \/ call'[f] = call[f]
             \/ call[f].at = "idle" /\ call'[f].at = "called" /\ call'[f].auto = call[f].auto
  BY <1>2 DEF RunFeature
<1>3. ASSUME NEW g \in Features, Begins(g)
      PROVE  \/ call'[f] = call[f]
             \/ ~call'[f].auto /\ call'[f].at = "idle"
             \/ /\ call[f].at = "called" /\ call'[f].at = "intake" /\ UNCHANGED <<status, deps>>
                /\ call'[f].deps = deps[f] /\ call'[f].auto = call[f].auto
  BY <1>3 DEF Begins
<1>4. ASSUME NEW g \in Features, IntakeLooks(g)
      PROVE  \/ call'[f] = call[f]
             \/ /\ call[f].at = "intake" /\ UNCHANGED <<status, deps>>
                /\ call'[f].at = IF Blocking(status, call[f].deps) = {} THEN "cleared" ELSE "refused"
                /\ call'[f].deps = call[f].deps /\ call'[f].auto = call[f].auto
  BY <1>4 DEF IntakeLooks
<1>5. ASSUME NEW g \in Features, IntakeStarts(g) \/ Escalates(g) \/ Ends(g)
      PROVE  \/ call'[f] = call[f]
             \/ ~call'[f].auto /\ call'[f].at \in {"idle", "running"}
             \/ call[f].at = "cleared" /\ call'[f].at = "refused"
  <2> DEFINE q == [NoCall EXCEPT !.at = "running"]
  <2>1. ~q.auto /\ q.at = "running"
    OBVIOUS
  <2>2. \/ Hangup(g) \/ call' = [call EXCEPT ![g] = q]
        \/ call[g].at = "cleared" /\ call' = [call EXCEPT ![g].at = "refused"]
    BY <1>5 DEF IntakeStarts, Escalates, Ends
  <2> HIDE DEF q
  <2> QED BY <2>1, <2>2
<1>6. CASE \/ Load \/ SweepLooks
           \/ \E g \in Features :
                \/ Unblock(g) \/ Merges(g) \/ SweepFixes(g) \/ Delete(g)
                \/ TidyLooks(g) \/ TidyEnds(g) \/ (\E d \in Features : TidyFixes(d, g))
                \/ (\E ds \in DepSets : Rewrites(g, ds))
                \/ \E s \in {"backlog", "blocked", "done"} : Moves(g, s)
           \/ \E e \in Epics : EpicCloses(e)
           \/ \E s \in Setters : SetWrites(s) \/ \E g \in Features, ds \in DepSets : SetLooks(s, g, ds)
  <2>1. call' = call
    BY <1>6 DEF Load, SweepLooks, Unblock, Merges, SweepFixes, Delete, TidyLooks, TidyEnds,
                TidyFixes, Rewrites, Moves, EpicCloses, SetWrites, SetLooks
  <2> QED BY <2>1
<1> QED BY <1>1, <1>2, <1>3, <1>4, <1>5, <1>6 DEF Step

(* The steps of the pass. *)
LEMMA PassSteps ==
    ASSUME TypeOK, Step
    PROVE  \/ pass' = pass
           \/ pass'.at = "idle"
           \/ /\ pass.at = "idle" /\ UNCHANGED <<status, deps>>
              /\ \A f \in pass'.todo : status[f] = "blocked"
              /\ \A f \in ToSet(pass'.ready) : AllDone(f)
           \/ /\ UNCHANGED deps /\ pass'.at = pass.at /\ pass'.ready = pass.ready
              /\ \E f \in pass.todo :
                    pass'.todo = pass.todo \ {f} /\ \A g \in Features \ {f} : status'[g] = status[g]
<1> USE DEF TypeOK
<1>1. CASE Load
  <2> DEFINE P(free) == {f \in Features : Eligible(Backlog(free), f)}
         waiting == {f \in Features : status[f] = "blocked" /\ deps[f] # {} /\ ~Final(f)}
  <2>1. PICK order \in SetToSeqs(waiting), free \in SUBSET waiting :
          \E ready \in Ordered(P(free)) : pass' = [at |-> "loaded", todo |-> free, ready |-> ready]
    BY <1>1, Zenon DEF Load
  <2>2. PICK ready \in Ordered(P(free)) : pass' = [at |-> "loaded", todo |-> free, ready |-> ready]
    BY <2>1
  <2>3. ready \in SetToSeqs(P(free)) /\ P(free) \in SUBSET Features
    BY <2>2 DEF Ordered
  <2>4. ToSet(ready) \subseteq P(free)
    BY <2>3, OrdersOf
  <2>5. \A f \in P(free) : AllDone(f)
    BY DEF Eligible, Backlog, AllDone
  <2>6. pass.at = "idle" /\ UNCHANGED <<status, deps>>
    BY <1>1 DEF Load, board
  <2>7. \A f \in free : status[f] = "blocked"
    OBVIOUS
  <2>8. pass'.todo = free /\ pass'.ready = ready
    BY <2>2
  <2> HIDE DEF P, waiting
  <2> QED BY <2>4, <2>5, <2>6, <2>7, <2>8
<1>2. CASE Dispatch
  BY <1>2 DEF Dispatch, NoPass
<1>3. ASSUME NEW f \in Features, Unblock(f)
      PROVE  /\ UNCHANGED deps /\ pass'.at = pass.at /\ pass'.ready = pass.ready
             /\ f \in pass.todo /\ pass'.todo = pass.todo \ {f}
             /\ \A g \in Features \ {f} : status'[g] = status[g]
  <2>1. UNCHANGED deps /\ f \in pass.todo /\ pass' = [pass EXCEPT !.todo = @ \ {f}]
    BY <1>3 DEF Unblock
  <2>2. \A g \in Features \ {f} : status'[g] = status[g]
    BY <1>3 DEF Unblock, Write
  <2> QED BY <2>1, <2>2
<1>4. CASE \/ SweepLooks
           \/ \E g \in Features :
                \/ Begins(g) \/ IntakeLooks(g) \/ IntakeStarts(g) \/ Escalates(g) \/ Ends(g)
                \/ Merges(g) \/ SweepFixes(g) \/ Delete(g)
                \/ TidyLooks(g) \/ TidyEnds(g) \/ (\E d \in Features : TidyFixes(d, g))
                \/ (\E ds \in DepSets : Rewrites(g, ds))
                \/ \E force \in BOOLEAN : RunFeature(g, force)
                \/ \E s \in {"backlog", "blocked", "done"} : Moves(g, s)
           \/ \E e \in Epics : EpicCloses(e)
           \/ \E s \in Setters : SetWrites(s) \/ \E g \in Features, ds \in DepSets : SetLooks(s, g, ds)
  <2>1. pass' = pass
    BY <1>4 DEF SweepLooks, Begins, IntakeLooks, IntakeStarts, Escalates, Ends, Merges, SweepFixes, Delete,
                TidyLooks, TidyEnds, TidyFixes, Rewrites, RunFeature, Moves, EpicCloses, SetWrites, SetLooks
  <2> QED BY <2>1
<1> QED BY <1>1, <1>2, <1>3, <1>4 DEF Step

(* The steps of a call of set_dependencies. *)
LEMMA SettingSteps ==
    ASSUME TypeOK, Step, NEW s \in Setters
    PROVE  \/ setting'[s] = setting[s]
           \/ setting'[s].at = "idle"
           \/ /\ setting'[s].of \in Features /\ UNCHANGED deps
              /\ ~ClosesCycle(deps, setting'[s].of, setting'[s].ds)
<1> USE DEF TypeOK
<1>1. ASSUME NEW t \in Setters, SetWrites(t) PROVE setting'[s] = setting[s] \/ setting'[s].at = "idle"
  BY <1>1 DEF SetWrites, NoSetting
<1>2. ASSUME NEW t \in Setters, NEW f \in Features, NEW ds \in DepSets, SetLooks(t, f, ds)
      PROVE  \/ setting'[s] = setting[s]
             \/ /\ setting'[s].of \in Features /\ UNCHANGED deps
                /\ ~ClosesCycle(deps, setting'[s].of, setting'[s].ds)
  BY <1>2 DEF SetLooks, board
<1>3. CASE \/ Load \/ Dispatch \/ SweepLooks
           \/ \E g \in Features :
                \/ Unblock(g) \/ Begins(g) \/ IntakeLooks(g) \/ IntakeStarts(g) \/ Escalates(g) \/ Ends(g)
                \/ Merges(g) \/ SweepFixes(g) \/ Delete(g)
                \/ TidyLooks(g) \/ TidyEnds(g) \/ (\E d \in Features : TidyFixes(d, g))
                \/ (\E ds \in DepSets : Rewrites(g, ds))
                \/ \E force \in BOOLEAN : RunFeature(g, force)
                \/ \E st \in {"backlog", "blocked", "done"} : Moves(g, st)
           \/ \E e \in Epics : EpicCloses(e)
  <2>1. setting' = setting
    BY <1>3 DEF Load, Dispatch, SweepLooks, Unblock, Begins, IntakeLooks, IntakeStarts, Escalates, Ends,
                Merges, SweepFixes, Delete, TidyLooks, TidyEnds, TidyFixes, Rewrites, RunFeature, Moves, EpicCloses
  <2> QED BY <2>1
<1> QED BY <1>1, <1>2, <1>3 DEF Step

(* The steps of the sweep. *)
LEMMA SweepSteps ==
    ASSUME TypeOK, Step
    PROVE  \/ sweep' = sweep
           \/ UNCHANGED deps /\ \A f \in DOMAIN sweep' : sweep'[f] \subseteq deps[f]
           \/ \E f \in DOMAIN sweep :
                DOMAIN sweep' = DOMAIN sweep \ {f} /\ \A g \in DOMAIN sweep' : sweep'[g] = sweep[g]
<1> USE DEF TypeOK
<1>1. CASE SweepLooks
  BY <1>1 DEF SweepLooks, board
<1>2. ASSUME NEW f \in Features, SweepFixes(f)
      PROVE  /\ f \in DOMAIN sweep
             /\ DOMAIN sweep' = DOMAIN sweep \ {f} /\ \A g \in DOMAIN sweep' : sweep'[g] = sweep[g]
  BY <1>2 DEF SweepFixes
<1>3. CASE \/ Load \/ Dispatch
           \/ \E g \in Features :
                \/ Unblock(g) \/ Begins(g) \/ IntakeLooks(g) \/ IntakeStarts(g) \/ Escalates(g) \/ Ends(g)
                \/ Merges(g) \/ Delete(g)
                \/ TidyLooks(g) \/ TidyEnds(g) \/ (\E d \in Features : TidyFixes(d, g))
                \/ (\E ds \in DepSets : Rewrites(g, ds))
                \/ \E force \in BOOLEAN : RunFeature(g, force)
                \/ \E st \in {"backlog", "blocked", "done"} : Moves(g, st)
           \/ \E e \in Epics : EpicCloses(e)
           \/ \E s \in Setters : SetWrites(s) \/ \E g \in Features, ds \in DepSets : SetLooks(s, g, ds)
  BY <1>3 DEF Load, Dispatch, Unblock, Begins, IntakeLooks, IntakeStarts, Escalates, Ends,
              Merges, Delete, TidyLooks, TidyEnds, TidyFixes, Rewrites, RunFeature, Moves, EpicCloses,
              SetWrites, SetLooks
<1> QED BY <1>1, <1>2, <1>3 DEF Step

(* The steps of the listeners: none begins to write with more than what it has read, and what a *)
(* listener has left is what it had.                                                              *)
LEMMA TidySteps ==
    ASSUME TypeOK, Step, NEW d \in DOMAIN tidy', NEW f \in DOMAIN tidy'[d].left
    PROVE  \/ UNCHANGED deps /\ tidy'[d].left[f] \subseteq deps[f] /\ tidy'[d].at = "writes"
           \/ /\ d \in DOMAIN tidy /\ f \in DOMAIN tidy[d].left /\ tidy'[d].left[f] = tidy[d].left[f]
              /\ tidy'[d].at = tidy[d].at
<1> DEFINE Kept == /\ d \in DOMAIN tidy /\ f \in DOMAIN tidy[d].left
                   /\ tidy'[d].left[f] = tidy[d].left[f] /\ tidy'[d].at = tidy[d].at
<1>1. ASSUME NEW c, Forget(c) PROVE Kept
  BY <1>1 DEF Forget
<1>2. ASSUME NEW g \in Features, Delete(g) PROVE Kept
  BY <1>2 DEF Delete, Told
<1>3. ASSUME NEW c \in Features, TidyLooks(c)
      PROVE  Kept \/ (UNCHANGED deps /\ tidy'[d].left[f] \subseteq deps[f] /\ tidy'[d].at = "writes")
  <2> DEFINE dependents == {g \in Features : c \in deps[g]}
             w == [at |-> "writes", left |-> [g \in dependents |-> deps[g] \ {c}]]
  <2>1. UNCHANGED deps /\ (Forget(c) \/ tidy' = [tidy EXCEPT ![c] = w])
    BY <1>3 DEF TidyLooks, board
  <2>2. w.at = "writes" /\ \A g \in DOMAIN w.left : w.left[g] \subseteq deps[g]
    OBVIOUS
  <2> HIDE DEF w
  <2>3. CASE tidy' = [tidy EXCEPT ![c] = w]
    BY <2>1, <2>2, <2>3
  <2> QED BY <1>1, <2>1, <2>3
<1>4. ASSUME NEW c \in Features, NEW g \in Features, TidyFixes(c, g) PROVE Kept
  <2> DEFINE w == [tidy[c] EXCEPT !.left = [h \in DOMAIN @ \ {g} |-> @[h]]]
  <2>1. c \in DOMAIN tidy /\ (Forget(c) \/ tidy' = [tidy EXCEPT ![c] = w])
    BY <1>4 DEF TidyFixes
  <2>2. /\ w.at = tidy[c].at /\ DOMAIN w.left \subseteq DOMAIN tidy[c].left
        /\ \A h \in DOMAIN w.left : w.left[h] = tidy[c].left[h]
    BY <2>1 DEF TypeOK
  <2> HIDE DEF w
  <2>3. CASE tidy' = [tidy EXCEPT ![c] = w]
    BY <2>1, <2>2, <2>3
  <2> QED BY <1>1, <2>1, <2>3
<1>5. ASSUME NEW c \in Features, TidyEnds(c) PROVE Kept
  BY <1>1, <1>5 DEF TidyEnds
<1>6. CASE tidy' = tidy
  BY <1>6
<1> HIDE DEF Kept
<1>7. Kept \/ (UNCHANGED deps /\ tidy'[d].left[f] \subseteq deps[f] /\ tidy'[d].at = "writes")
  BY <1>2, <1>3, <1>4, <1>5, <1>6
  DEF Step, Kept, Load, Dispatch, Unblock, Begins, IntakeLooks, IntakeStarts, Escalates, Ends, Merges,
      RunFeature, Moves, Rewrites, EpicCloses, SweepLooks, SweepFixes, SetLooks, SetWrites
<1> QED BY <1>7 DEF Kept

--------------------------------------------------------------------------------
(* The invariant of DependencyGate *)

(* The invariant holds of every board without cycles. *)
LEMMA GateStarts ==
    ASSUME Init
    PROVE  GateInv
<1>1. TypeOK
  <2> USE DEF Init, TypeOK
  <2>1. deps \in [Features -> SUBSET Features] /\ edits \in 0..MaxEdits
    BY GateAssumption DEF DepSets
  <2>2. pass \in [at : {"idle", "loaded"}, todo : SUBSET Features, ready : Seq(Features)]
    BY DEF NoPass
  <2>3. call \in [Features -> CallType]
    BY DEF NoCall, CallType
  <2>4. setting \in [Setters -> SettingType]
    BY DEF NoSetting, SettingType
  <2>5. tidy = [d \in {} |-> {}] /\ changed = {}
    OBVIOUS
  <2>6. TidyTyped
    BY <2>5 DEF TidyTyped
  <2> QED BY <2>1, <2>2, <2>3, <2>4, <2>5, <2>6 DEF CallType, SettingType
<1>2. IdleCalls /\ ClearedHold /\ AutoHold
  BY DEF Init, NoCall, IdleCalls, ClearedHold, AutoHold
<1>3. PassHolds /\ SettingsHold /\ SweepHolds /\ TidyHolds /\ ToldIsEmpty
  BY DEF Init, NoPass, NoSetting, PassHolds, SettingsHold, SweepHolds, TidyHolds, ToldIsEmpty
<1> QED BY <1>1, <1>2, <1>3 DEF GateInv

(* What a call relies on. *)
LEMMA CallsHold ==
    ASSUME GateInv, Step, Watch
    PROVE  IdleCalls' /\ ClearedHold' /\ AutoHold'
<1> USE DEF GateInv
<1>1. IdleCalls'
  BY CallSteps DEF IdleCalls
<1>2. ASSUME NEW f \in Features, call'[f].at = "cleared", f \notin changed'
      PROVE  call'[f].deps = deps'[f] /\ Blocking(status', deps'[f]) = {}
  <2>1. call[f].at # "idle"
    BY <1>2, CallSteps
  <2>2. CASE call[f].at = "intake"
    <3>1. call[f].deps = deps[f]
      BY <1>2, <2>2, WatchesCall
    <3>2. UNCHANGED <<status, deps>> /\ Blocking(status, call[f].deps) = {} /\ call'[f].deps = call[f].deps
      BY <1>2, <2>2, CallSteps
    <3> QED BY <3>1, <3>2
  <2>3. CASE call[f].at # "intake"
    <3>1. f \notin changed /\ deps' = deps /\ status' = status
      BY <1>2, <2>1, <2>3, WatchesCall
    <3>2. call'[f] = call[f]
      BY <1>2, <2>1, <2>3, CallSteps
    <3> QED BY <1>2, <3>1, <3>2 DEF ClearedHold
  <2> QED BY <2>2, <2>3
<1>3. ClearedHold'
  BY <1>2 DEF ClearedHold, Blocking, Complete
<1>4. ASSUME NEW f \in Features, call'[f].auto, call'[f].at \in {"called", "intake"}, f \notin changed'
      PROVE  AllDone(f)' /\ (call'[f].at = "intake" => call'[f].deps = deps'[f])
  <2>1. CASE call[f].at = "idle"
    <3>1. "pass" \notin changed
      BY <1>4, <2>1, WatchesCall
    <3>2. /\ f \in ToSet(pass.ready) /\ pass.at = "loaded" /\ UNCHANGED <<status, deps>>
          /\ call'[f].at = "called"
      BY <1>4, <2>1, CallSteps DEF IdleCalls
    <3> QED BY <3>1, <3>2 DEF PassHolds, AllDone
  <2>2. CASE call[f].at # "idle"
    <3>1. f \notin changed /\ deps' = deps /\ status' = status
      BY <1>4, <2>2, WatchesCall
    <3>2. \/ call'[f] = call[f]
          \/ /\ call[f].at = "called" /\ call'[f].deps = deps[f] /\ call'[f].auto = call[f].auto
      BY <1>4, <2>2, CallSteps
    <3> QED BY <1>4, <3>1, <3>2 DEF AutoHold, AllDone
  <2> QED BY <2>1, <2>2
<1>5. AutoHold'
  BY <1>4 DEF AutoHold
<1> QED BY <1>1, <1>3, <1>5

(* What the pass relies on. *)
LEMMA PassStillHolds ==
    ASSUME GateInv, Step, Watch
    PROVE  PassHolds'
<1> SUFFICES ASSUME pass'.at = "loaded", "pass" \notin changed'
             PROVE  /\ \A f \in ToSet(pass'.ready) : AllDone(f)'
                    /\ \A f \in pass'.todo : status'[f] = "blocked"
  BY DEF PassHolds
<1> USE DEF GateInv
<1>1. CASE pass.at # "loaded"
  <2>1. /\ UNCHANGED <<status, deps>>
        /\ \A f \in pass'.todo : status[f] = "blocked"
        /\ \A f \in ToSet(pass'.ready) : AllDone(f)
    BY <1>1, PassSteps
  <2> QED BY <2>1 DEF AllDone
<1>2. CASE pass.at = "loaded"
  <2>1. "pass" \notin changed /\ deps' = deps /\ (status' = status \/ pass'.todo # pass.todo)
    BY <1>2, WatchesPass
  <2>2. /\ \A f \in ToSet(pass.ready) : AllDone(f)
        /\ \A f \in pass.todo : status[f] = "blocked"
    BY <1>2, <2>1 DEF PassHolds
  <2>3. CASE pass' = pass
    BY <2>1, <2>2, <2>3 DEF AllDone
  <2>4. CASE pass' # pass
    <3>1. PICK f \in pass.todo :
            /\ pass'.todo = pass.todo \ {f} /\ \A g \in Features \ {f} : status'[g] = status[g]
            /\ pass'.ready = pass.ready
      BY <1>2, <2>4, PassSteps
    <3>2. pass.todo \subseteq Features /\ ToSet(pass.ready) \subseteq Features
          /\ \A g \in Features : deps[g] \subseteq Features
      BY DEF TypeOK, ToSet
    <3>3. \A g \in pass'.todo : status'[g] = "blocked"
      BY <2>2, <3>1, <3>2
    <3>4. \A g \in ToSet(pass.ready) : \A id \in deps[g] : status'[id] = "done"
      BY <2>2, <3>1, <3>2 DEF AllDone
    <3> QED BY <2>1, <3>1, <3>3, <3>4 DEF AllDone
  <2> QED BY <2>3, <2>4
<1> QED BY <1>1, <1>2

(* What the calls of set_dependencies, the sweep and the listeners rely on. *)
LEMMA GraphsHold ==
    ASSUME GateInv, Step, Watch
    PROVE  SettingsHold' /\ SweepHolds' /\ TidyHolds' /\ ToldIsEmpty'
<1> USE DEF GateInv
<1>1. ASSUME NEW s \in Setters, setting'[s].at = "checked"
      PROVE  /\ setting'[s].of \in Features
             /\ s \notin changed' => ~ClosesCycle(deps', setting'[s].of, setting'[s].ds)
  <2>1. CASE setting'[s] = setting[s]
    <3>1. s \notin Features /\ Relies(s) /\ Relies(s)'
      BY <1>1, <2>1, GateAssumption DEF Relies
    <3>2. s \notin changed' => s \notin changed /\ deps' = deps
      BY <3>1, WatchesGraph
    <3> QED BY <1>1, <2>1, <3>2 DEF SettingsHold
  <2>2. CASE setting'[s] # setting[s]
    <3>1. setting'[s].of \in Features /\ deps' = deps /\ ~ClosesCycle(deps, setting'[s].of, setting'[s].ds)
      BY <1>1, <2>2, SettingSteps
    <3> QED BY <3>1
  <2> QED BY <2>1, <2>2
<1>2. SettingsHold'
  BY <1>1 DEF SettingsHold, ClosesCycle, Reaches, Closed
<1>3. ASSUME "sweep" \notin changed', NEW f \in DOMAIN sweep' PROVE sweep'[f] \subseteq deps'[f]
  <2>1. CASE UNCHANGED deps /\ \A g \in DOMAIN sweep' : sweep'[g] \subseteq deps[g]
    BY <2>1
  <2>2. CASE f \in DOMAIN sweep /\ sweep'[f] = sweep[f]
    <3>1. Relies("sweep") /\ Relies("sweep")'
      BY <2>2, GateAssumption DEF Relies
    <3>2. "sweep" \notin changed /\ deps' = deps
      BY <1>3, <3>1, WatchesGraph
    <3> QED BY <2>2, <3>2 DEF SweepHolds
  <2> QED BY <2>1, <2>2, SweepSteps
<1>4. SweepHolds'
  BY <1>3 DEF SweepHolds
<1>5. ASSUME "tidy" \notin changed', NEW d \in DOMAIN tidy', NEW f \in DOMAIN tidy'[d].left
      PROVE  tidy'[d].left[f] \subseteq deps'[f]
  <2>1. CASE UNCHANGED deps /\ tidy'[d].left[f] \subseteq deps[f]
    BY <2>1
  <2>2. CASE /\ d \in DOMAIN tidy /\ f \in DOMAIN tidy[d].left /\ tidy'[d].left[f] = tidy[d].left[f]
             /\ tidy'[d].at = tidy[d].at
    <3>1. tidy[d].at = "writes"
      BY <2>2 DEF ToldIsEmpty
    <3>2. Relies("tidy") /\ Relies("tidy")'
      BY <2>2, <3>1, GateAssumption DEF Relies
    <3>3. "tidy" \notin changed /\ deps' = deps
      BY <1>5, <3>2, WatchesGraph
    <3> QED BY <2>2, <3>3 DEF TidyHolds
  <2> QED BY <2>1, <2>2, TidySteps
<1>6. TidyHolds'
  BY <1>5 DEF TidyHolds
<1>7. ToldIsEmpty'
  BY TidySteps DEF ToldIsEmpty
<1> QED BY <1>2, <1>4, <1>6, <1>7

(* The invariant is inductive. *)
LEMMA GateSteps ==
    ASSUME GateInv, [Next]_vars
    PROVE  GateInv'
<1>1. CASE Next
  <2>1. Step /\ Watch
    BY <1>1 DEF Next
  <2>2. TypeOK'
    BY <2>1, GateTypes DEF GateInv
  <2> QED BY <2>1, <2>2, CallsHold, PassStillHolds, GraphsHold DEF GateInv
<1>2. CASE UNCHANGED vars
  <2>1. UNCHANGED <<status, failure, deps, pass, call, setting, tidy, sweep, edits, changed>>
    BY <1>2 DEF vars, board
  <2>2. TypeOK'
    BY <2>1 DEF GateInv, TypeOK, TidyTyped, Tidies
  <2>3. IdleCalls' /\ ClearedHold' /\ AutoHold'
    BY <2>1 DEF GateInv, IdleCalls, ClearedHold, AutoHold, AllDone, Blocking, Complete
  <2>4. PassHolds' /\ SettingsHold' /\ SweepHolds' /\ TidyHolds' /\ ToldIsEmpty'
    BY <2>1 DEF GateInv, PassHolds, AllDone, SettingsHold, SweepHolds, TidyHolds, ToldIsEmpty, ClosesCycle, Reaches, Closed
  <2> QED BY <2>2, <2>3, <2>4 DEF GateInv
<1> QED BY <1>1, <1>2

(* The variables have their types, and every look at the board that the histories do not *)
(* call overtaken still holds.                                                            *)
THEOREM GateHolds == Spec => []GateInv
BY GateStarts, GateSteps, PTL DEF Spec

(* Type correctness of the gates, the calls of process, set_dependencies and the sweep. *)
THEOREM GateTypeCorrect == Spec => []TypeOK
<1>1. GateInv => TypeOK
  BY DEF GateInv
<1> QED BY <1>1, GateHolds, PTL

(* Whatever the features, the epics and the foundations: INTAKE starts no feature whose *)
(* dependencies block it, unless the board has changed since it looked.                   *)
THEOREM StartsHaveDeps == Spec => StartsNeedTheirDeps
<1>1. GateInv /\ [Next]_vars =>
        [\A f \in Features : call[f].at = "cleared" /\ call'[f].at = "running"
            => f \in changed \/ Blocking(status, deps[f]) = {}]_vars
  BY DEF GateInv, ClearedHold
<1> QED BY <1>1, GateHolds, PTL DEF Spec, StartsNeedTheirDeps

(* What the scheduler dispatches is refused by INTAKE only after a change of the board: *)
(* the two gates, of different strictness and over different looks, agree.               *)
THEOREM RefusalsAreChanges == Spec => RefusalsNeedAChange
<1>1. GateInv /\ [Next]_vars =>
        [\A f \in Features : call[f].auto /\ call[f].at = "intake" /\ call'[f].at = "refused"
            => f \in changed]_vars
  <2> SUFFICES ASSUME GateInv, Next, NEW f \in Features, call[f].auto, call[f].at = "intake",
                      call'[f].at = "refused", f \notin changed
               PROVE  FALSE
    OBVIOUS
  <2> USE DEF GateInv
  <2>1. AllDone(f) /\ call[f].deps = deps[f]
    BY DEF AutoHold
  <2>2. Blocking(status, call[f].deps) # {}
    BY CallSteps DEF Next
  <2> QED BY <2>1, <2>2 DEF AllDone, Blocking, Complete
<1> QED BY <1>1, GateHolds, PTL DEF Spec, RefusalsNeedAChange

(* No write whose look at the graph still holds closes a cycle: not the deletion of a feature, not *)
(* the listener of a deletion, not the sweep, not set_dependencies.                                 *)
LEMMA WritesKeepAcyclic ==
    ASSUME GateInv, Step, changed \cap (Setters \cup {"tidy", "sweep"}) = {}, Acyclic(deps),
           ~\E f \in Features, ds \in DepSets : Rewrites(f, ds)
    PROVE  Acyclic(deps')
<1> USE DEF GateInv, TypeOK
<1>1. ASSUME NEW f \in Features, Delete(f) PROVE Acyclic(deps')
  <2>1. DOMAIN deps' = DOMAIN deps /\ \A g \in DOMAIN deps : deps'[g] \subseteq deps[g]
    BY <1>1 DEF Delete
  <2> QED BY <2>1, FewerNeeds
<1>2. ASSUME NEW f \in Features, SweepFixes(f) PROVE Acyclic(deps')
  <2>1. sweep[f] \subseteq deps[f]
    BY <1>2 DEF SweepFixes, SweepHolds
  <2>2. DOMAIN deps' = DOMAIN deps /\ \A g \in DOMAIN deps : deps'[g] \subseteq deps[g]
    BY <1>2, <2>1 DEF SweepFixes
  <2> QED BY <2>2, FewerNeeds
<1>3. ASSUME NEW d \in Features, NEW f \in Features, TidyFixes(d, f) PROVE Acyclic(deps')
  <2>1. tidy[d].left[f] \subseteq deps[f]
    BY <1>3 DEF TidyFixes, TidyHolds
  <2>2. DOMAIN deps' = DOMAIN deps /\ \A g \in DOMAIN deps : deps'[g] \subseteq deps[g]
    BY <1>3, <2>1 DEF TidyFixes
  <2> QED BY <2>2, FewerNeeds
<1>4. ASSUME NEW s \in Setters, SetWrites(s) PROVE Acyclic(deps')
  <2> DEFINE f == setting[s].of
             ds == setting[s].ds
  <2>1. f \in Features /\ ~ClosesCycle(deps, f, ds)
    BY <1>4 DEF SetWrites, SettingsHold
  <2>2. deps' = deps \/ deps' = [deps EXCEPT ![f] = ds]
    BY <1>4 DEF SetWrites
  <2> HIDE DEF f, ds
  <2>3. CASE deps' = deps
    BY <2>3
  <2>4. CASE deps' = [deps EXCEPT ![f] = ds]
    <3>1. f \in DOMAIN deps /\ DOMAIN deps' = DOMAIN deps /\ deps'[f] = ds
          /\ \A g \in DOMAIN deps : g # f => deps'[g] = deps[g]
      BY <2>1, <2>4
    <3> QED BY <2>1, <3>1, NewNeeds
  <2> QED BY <2>2, <2>3, <2>4
<1>5. ASSUME \/ Load \/ Dispatch \/ SweepLooks
             \/ \E g \in Features :
                  \/ Unblock(g) \/ Begins(g) \/ IntakeLooks(g) \/ IntakeStarts(g) \/ Escalates(g) \/ Ends(g)
                  \/ Merges(g) \/ TidyLooks(g) \/ TidyEnds(g)
                  \/ \E force \in BOOLEAN : RunFeature(g, force)
                  \/ \E st \in {"backlog", "blocked", "done"} : Moves(g, st)
             \/ \E e \in Epics : EpicCloses(e)
             \/ \E s \in Setters : \E g \in Features, ds \in DepSets : SetLooks(s, g, ds)
      PROVE  deps' = deps
  BY <1>5 DEF Load, Dispatch, SweepLooks, Unblock, Begins, IntakeLooks, IntakeStarts, Escalates, Ends,
              Merges, TidyLooks, TidyEnds, RunFeature, Moves, EpicCloses, SetLooks, board
<1> QED BY <1>1, <1>2, <1>4, <1>5, <1>3 DEF Step

(* On a board of any size: what closes a cycle of dependencies is a write that has not looked, *)
(* which is update's, or one whose look has been overtaken.                                      *)
THEOREM CyclesNeedUnchecked == Spec => CyclesAreUnchecked
<1>1. GateInv /\ [Next]_vars =>
        [Acyclic(deps) /\ ~Acyclic(deps') =>
            \/ changed \cap (Setters \cup {"tidy", "sweep"}) # {}
            \/ \E f \in Features, ds \in DepSets : Rewrites(f, ds)]_vars
  BY WritesKeepAcyclic DEF Next
<1> QED BY <1>1, GateHolds, PTL DEF Spec, CyclesAreUnchecked

--------------------------------------------------------------------------------
(* Sequences of features *)

(* The elements of a sequence before the i-th. *)
Firsts(s, i) == {s[j] : j \in 1..(i - 1)}

(* A sequence with one more element. *)
LEMMA Appended ==
    ASSUME NEW S, NEW s \in Seq(S), NEW e \in S
    PROVE  /\ Append(s, e) \in Seq(S) /\ Len(s) \in Nat /\ Append(s, e)[Len(s) + 1] = e
           /\ DOMAIN s = 1..Len(s) /\ DOMAIN Append(s, e) = 1..(Len(s) + 1)
           /\ \A i \in DOMAIN s : Append(s, e)[i] = s[i] /\ Firsts(Append(s, e), i) = Firsts(s, i)
           /\ Firsts(Append(s, e), Len(s) + 1) = ToSet(s) /\ ToSet(Append(s, e)) = ToSet(s) \cup {e}
           /\ IsInjective(s) /\ e \notin ToSet(s) => IsInjective(Append(s, e))
<1> DEFINE n == Len(s)
           t == Append(s, e)
<1>1. /\ t \in Seq(S) /\ n \in Nat /\ t[n + 1] = e /\ Len(t) = n + 1
      /\ \A i \in 1..n : t[i] = s[i]
  BY AppendProperties
<1>2. DOMAIN s = 1..n /\ DOMAIN t = 1..(n + 1)
  BY <1>1
<1> HIDE DEF n, t
<1>3. \A i \in 1..n : Firsts(t, i) = Firsts(s, i)
  <2> SUFFICES ASSUME NEW i \in 1..n PROVE \A j \in 1..(i - 1) : t[j] = s[j]
    BY DEF Firsts
  <2>1. \A j \in 1..(i - 1) : j \in 1..n
    BY <1>1
  <2> QED BY <1>1, <2>1
<1>4. Firsts(t, n + 1) = ToSet(s)
  <2>1. 1..((n + 1) - 1) = 1..n
    BY <1>1
  <2> QED BY <1>1, <1>2, <2>1 DEF Firsts, ToSet
<1>5. ToSet(t) = ToSet(s) \cup {e}
  <2>1. 1..(n + 1) = (1..n) \cup {n + 1}
    BY <1>1
  <2> QED BY <1>1, <1>2, <2>1 DEF ToSet
<1>6. ASSUME IsInjective(s), e \notin ToSet(s) PROVE IsInjective(t)
  <2>1. \A i \in 1..n : s[i] # e
    BY <1>2, <1>6 DEF ToSet
  <2>2. \A i, j \in 1..n : s[i] = s[j] => i = j
    BY <1>2, <1>6 DEF IsInjective
  <2> SUFFICES ASSUME NEW i \in 1..(n + 1), NEW j \in 1..(n + 1), t[i] = t[j] PROVE i = j
    BY <1>2 DEF IsInjective
  <2> QED BY <1>1, <2>1, <2>2
<1> QED BY <1>1, <1>2, <1>3, <1>4, <1>5, <1>6 DEF n, t

(* A sequence with all other elements behind it, each once. *)
LEMMA RestBehind ==
    ASSUME NEW S, IsFiniteSet(S), NEW s \in Seq(S), NEW rest \in SetToSeqs(S \ ToSet(s))
    PROVE  /\ s \o rest \in Seq(S) /\ ToSet(s \o rest) = S
           /\ IsInjective(s) => IsInjective(s \o rest)
           /\ Len(s) \in Nat /\ DOMAIN s = 1..Len(s) /\ DOMAIN (s \o rest) \subseteq Nat
           /\ \A i \in DOMAIN s : i \in DOMAIN (s \o rest) /\ (s \o rest)[i] = s[i]
<1> DEFINE R == S \ ToSet(s)
           k == Cardinality(R)
           n == Len(s)
           t == s \o rest
<1>1. IsFiniteSet(R) /\ k \in Nat
  BY FS_Subset, FS_CardinalityType
<1>2. /\ rest \in [1..k -> R]
      /\ \A i, j \in 1..k : i # j => rest[i] # rest[j]
  BY DEF SetToSeqs
<1>3. IsFiniteSet(1..k) /\ Cardinality(1..k) = k
  BY <1>1, FS_Interval
<1>4. \A r \in R : \E i \in 1..k : rest[i] = r
  <2>1. rest \in Injection(1..k, R)
    BY <1>2 DEF Injection, IsInjective
  <2>2. rest \in Surjection(1..k, R)
    BY <1>1, <1>3, <2>1, FS_Injection
  <2> QED BY <2>2 DEF Surjection
<1> HIDE DEF k
<1>5. rest \in Seq(S) /\ Len(rest) = k
  BY <1>1, <1>2
<1> HIDE DEF R, n
<1>6. /\ t \in Seq(S) /\ Len(t) = n + k /\ n \in Nat
      /\ \A i \in 1..(n + k) : t[i] = IF i <= n THEN s[i] ELSE rest[i - n]
  <2>1. /\ s \o rest \in Seq(S)
        /\ Len(s \o rest) = Len(s) + Len(rest)
        /\ \A i \in 1..(Len(s) + Len(rest)) : (s \o rest)[i] = IF i <= Len(s) THEN s[i] ELSE rest[i - Len(s)]
    BY <1>5, ConcatProperties
  <2>2. Len(s) \in Nat
    OBVIOUS
  <2> QED BY <1>5, <2>1, <2>2 DEF n
<1> HIDE DEF t
<1>7. DOMAIN t = 1..(n + k) /\ DOMAIN s = 1..n
  BY <1>6 DEF n
<1>8. \A i \in 1..n : s[i] \in ToSet(s) /\ i \in 1..(n + k) /\ t[i] = s[i]
  <2> SUFFICES ASSUME NEW i \in 1..n PROVE s[i] \in ToSet(s) /\ i \in 1..(n + k) /\ t[i] = s[i]
    OBVIOUS
  <2>1. s[i] \in ToSet(s)
    BY <1>7 DEF ToSet
  <2>2. i \in 1..(n + k) /\ i <= n
    BY <1>1, <1>6
  <2> QED BY <1>6, <2>1, <2>2
<1>9. \A i \in 1..k : rest[i] \in S /\ rest[i] \notin ToSet(s) /\ n + i \in 1..(n + k) /\ t[n + i] = rest[i]
  <2> SUFFICES ASSUME NEW i \in 1..k
               PROVE  rest[i] \in R /\ n + i \in 1..(n + k) /\ t[n + i] = rest[i]
    BY DEF R
  <2>1. n + i \in 1..(n + k) /\ ~(n + i <= n) /\ (n + i) - n = i
    BY <1>1, <1>6
  <2> QED BY <1>2, <1>6, <2>1
<1>10. \A i \in 1..(n + k) : i \in 1..n \/ \E j \in 1..k : i = n + j
  <2> SUFFICES ASSUME NEW i \in 1..(n + k), i \notin 1..n PROVE \E j \in 1..k : i = n + j
    OBVIOUS
  <2>1. i - n \in 1..k /\ i = n + (i - n)
    BY <1>1, <1>6
  <2> QED BY <2>1
<1>11. ASSUME IsInjective(s) PROVE IsInjective(t)
  <2>1. \A i, j \in 1..n : s[i] = s[j] => i = j
    BY <1>7, <1>11 DEF IsInjective
  <2> SUFFICES ASSUME NEW i \in 1..(n + k), NEW j \in 1..(n + k), t[i] = t[j] PROVE i = j
    BY <1>7 DEF IsInjective
  <2> QED BY <1>2, <1>8, <1>9, <1>10, <2>1
<1>12. ToSet(t) = S
  <2>1. \A f \in ToSet(s) : \E i \in 1..n : s[i] = f
    BY <1>7 DEF ToSet
  <2>2. \A f \in S : \E i \in 1..(n + k) : t[i] = f
    BY <1>4, <1>8, <1>9, <2>1 DEF R
  <2>3. \A i \in 1..(n + k) : t[i] \in S
    BY <1>6, <1>7
  <2> QED BY <1>7, <2>2, <2>3 DEF ToSet
<1> QED BY <1>1, <1>6, <1>7, <1>8, <1>11, <1>12 DEF n, t

(* An element of a sequence without repetitions is at one place. *)
LEMMA PlaceIs ==
    ASSUME NEW q, IsInjective(q), NEW i \in DOMAIN q
    PROVE  \A f : q[i] = f => (CHOOSE j \in DOMAIN q : q[j] = f) = i
BY DEF IsInjective

(* A sequence has finitely many elements. *)
LEMMA SequencesAreFinite ==
    ASSUME NEW S, NEW s \in Seq(S)
    PROVE  IsFiniteSet(ToSet(s))
<1>1. Len(s) \in Nat /\ DOMAIN s = 1..Len(s)
  OBVIOUS
<1>2. s \in Surjection(1..Len(s), ToSet(s))
  <2>1. s \in [1..Len(s) -> ToSet(s)]
    BY <1>1 DEF ToSet
  <2>2. \A x \in ToSet(s) : \E i \in 1..Len(s) : s[i] = x
    BY <1>1 DEF ToSet
  <2> QED BY <2>1, <2>2 DEF Surjection
<1>3. IsFiniteSet(1..Len(s))
  BY <1>1, FS_Interval
<1> QED BY <1>2, <1>3, FS_Surjection

(* The orders of a finite set are sequences of all its elements, each once. *)
LEMMA AllOnce ==
    ASSUME NEW S, IsFiniteSet(S), NEW s \in SetToSeqs(S)
    PROVE  s \in Seq(S) /\ IsInjective(s) /\ ToSet(s) = S
<1> DEFINE k == Cardinality(S)
<1>1. k \in Nat /\ IsFiniteSet(1..k) /\ Cardinality(1..k) = k
  BY FS_CardinalityType, FS_Interval
<1>2. s \in [1..k -> S] /\ \A i, j \in 1..k : i # j => s[i] # s[j]
  BY DEF SetToSeqs
<1>3. s \in Surjection(1..k, S)
  <2>1. s \in Injection(1..k, S)
    BY <1>2 DEF Injection, IsInjective
  <2> QED BY <1>1, <2>1, FS_Injection
<1> HIDE DEF k
<1>4. s \in Seq(S) /\ IsInjective(s)
  BY <1>1, <1>2 DEF IsInjective
<1>5. ToSet(s) = S
  BY <1>2, <1>3 DEF ToSet, Surjection
<1> QED BY <1>4, <1>5

(* The head of a sequence without repetitions, and what is behind it. *)
LEMMA QueueHead ==
    ASSUME NEW S, NEW q \in Seq(S), q # <<>>, IsInjective(q)
    PROVE  /\ Head(q) \in ToSet(q) /\ Tail(q) \in Seq(S) /\ ToSet(Tail(q)) = ToSet(q) \ {Head(q)}
           /\ \A f \in ToSet(q) : f = Head(q) \/ \E i \in DOMAIN q : 1 \in DOMAIN q /\ 1 < i /\ q[1] = Head(q) /\ f = q[i]
<1> DEFINE n == Len(q)
<1>1. n \in Nat /\ n > 0 /\ DOMAIN q = 1..n /\ Head(q) = q[1]
  OBVIOUS
<1>2. /\ Tail(q) \in Seq(S) /\ Len(Tail(q)) = n - 1 /\ DOMAIN Tail(q) = 1..(n - 1)
      /\ \A i \in 1..(n - 1) : Tail(q)[i] = q[i + 1]
  OBVIOUS
<1> HIDE DEF n
<1>3. \A i, j \in 1..n : q[i] = q[j] => i = j
  BY <1>1 DEF IsInjective
<1>4. \A i \in 1..n : i = 1 \/ i - 1 \in 1..(n - 1)
  BY <1>1
<1>5. \A i \in 1..(n - 1) : i + 1 \in 1..n /\ i + 1 # 1 /\ 1 \in 1..n
  BY <1>1
<1>6. \A i \in 1..n : i # 1 => Tail(q)[i - 1] = q[i]
  <2> SUFFICES ASSUME NEW i \in 1..n, i # 1 PROVE Tail(q)[i - 1] = q[i]
    OBVIOUS
  <2>1. (i - 1) + 1 = i
    BY <1>1
  <2> QED BY <1>2, <1>4, <2>1
<1>7. ToSet(Tail(q)) = ToSet(q) \ {Head(q)}
  <2>1. ToSet(Tail(q)) = {Tail(q)[i] : i \in 1..(n - 1)} /\ ToSet(q) = {q[i] : i \in 1..n}
    BY <1>1, <1>2 DEF ToSet
  <2> QED BY <1>1, <1>2, <1>3, <1>4, <1>5, <1>6, <2>1
<1>8. \A f \in ToSet(q) : f = Head(q) \/ \E i \in DOMAIN q : 1 \in DOMAIN q /\ 1 < i /\ q[1] = Head(q) /\ f = q[i]
  BY <1>1 DEF ToSet
<1>9. Head(q) \in ToSet(q)
  BY <1>1 DEF ToSet
<1> QED BY <1>2, <1>7, <1>8, <1>9

--------------------------------------------------------------------------------
(* The order that DependencyOrder allows *)

(* What is not placed and depends on nothing but placed features. *)
Waiting == {f \in Listed \ ToSet(ordered) : Graph[f] \subseteq ToSet(ordered)}

(* An array has finitely many features. *)
LEMMA ListedFinite == IsFiniteSet(Listed)
BY OrderAssumption, SequencesAreFinite DEF Listed

(* The graph of the resolver, and what is missing of it, are finite. *)
LEMMA GraphTypes ==
    ASSUME links \in [Listed -> Links]
    PROVE  /\ Graph \in [Listed -> SUBSET Listed]
           /\ \A f \in Listed : \A S : IsFiniteSet(Graph[f] \ S) /\ Cardinality(Graph[f] \ S) \in Nat
<1>1. Graph \in [Listed -> SUBSET Listed]
  BY DEF Graph
<1>2. IsFiniteSet(Listed)
  BY ListedFinite
<1> QED BY <1>1, <1>2, FS_Subset, FS_CardinalityType

(* What the operators of DependencyOrder stand for in the resolver. *)
LEMMA SortMeans ==
    /\ Sort!Taken = ToSet(ordered) /\ Sort!Ready = Waiting
    /\ \A S : Sort!SetToSeqs(S) = SetToSeqs(S)
<1>1. Sort!Taken = ToSet(ordered)
  BY DEF Sort!Taken, Sort!ToSet, ToSet
<1>2. Sort!Ready = Waiting
  BY <1>1 DEF Sort!Ready, Waiting
<1>3. \A S : Sort!SetToSeqs(S) = SetToSeqs(S)
  <2>1. \A S : Sort!Cardinality(S) = Cardinality(S)
    BY DEF Sort!Cardinality, Cardinality
  <2> QED BY <2>1 DEF Sort!SetToSeqs, SetToSeqs
<1> QED BY <1>1, <1>2, <1>3

(* Each feature came when all it depends on was there, and no other that could have been *)
(* taken had a smaller number.                                                             *)
Growing ==
    ~sorted => \A i \in DOMAIN ordered :
        /\ Graph[ordered[i]] \subseteq Firsts(ordered, i)
        /\ \A g \in Listed \ Firsts(ordered, i) : Graph[g] \subseteq Firsts(ordered, i) => priority[ordered[i]] <= priority[g]

OrderTypes ==
    /\ Graph \in [Listed -> SUBSET Listed] /\ priority \in [Listed -> Int]
    /\ ordered \in Seq(Listed) /\ IsInjective(ordered) /\ sorted \in BOOLEAN

OrderInv == OrderTypes /\ Growing /\ OrderRespectsDependencies /\ PriorityDecides

(* When nothing is ready, only what is on a cycle or depends on one is left: the least *)
(* of the others, by what it reaches, would be ready.                                     *)
LEMMA SortableTaken ==
    ASSUME Graph \in [Listed -> SUBSET Listed], Waiting = {}
    PROVE  Sortable \subseteq ToSet(ordered)
<1> DEFINE B(n) == Below(Graph, n)
           U == {B(n) : n \in Sortable \ ToSet(ordered)}
<1> SUFFICES ASSUME Sortable \ ToSet(ordered) # {} PROVE FALSE
  OBVIOUS
<1>1. U \subseteq SUBSET Listed /\ U # {} /\ Sortable \subseteq Listed
  <2>1. \A n \in Listed : B(n) \subseteq Listed
    BY DEF Below
  <2>2. Sortable \subseteq Listed
    BY DEF Sortable
  <2> HIDE DEF B
  <2> QED BY <2>1, <2>2
<1>2. IsWellFoundedOn(StrictSubsetOrdering(Listed), SUBSET Listed)
  BY ListedFinite, FS_StrictSubsetOrderingWellFounded, FS_FiniteSubsetsOfFinite
<1>3. PICK x \in U : \A y \in U : <<y, x>> \notin StrictSubsetOrdering(Listed)
  BY <1>1, <1>2, WFMin
<1>4. PICK n \in Sortable \ ToSet(ordered) : x = B(n)
  OBVIOUS
<1>5. PICK h \in Graph[n] : h \notin ToSet(ordered) /\ h \in Listed
  BY <1>1, <1>4 DEF Waiting
<1>6. Reaches(Graph, n, h)
  BY <1>1, <1>4, <1>5, BelowClosed DEF Below
<1>7. \A g \in Listed : Reaches(Graph, h, g) => Reaches(Graph, n, g)
  BY <1>1, <1>4, <1>5, ReachesOn
<1>8. h \in Sortable \ ToSet(ordered)
  BY <1>4, <1>5, <1>6, <1>7 DEF Sortable, OnCycle
<1>9. B(h) \subseteq B(n) /\ h \in B(n) /\ h \notin B(h)
  BY <1>5, <1>6, <1>7, <1>8 DEF Below, Sortable, OnCycle
<1>10. <<B(h), B(n)>> \in StrictSubsetOrdering(Listed)
  <2>1. B(h) \in SUBSET Listed /\ B(n) \in SUBSET Listed
    BY DEF Below
  <2> HIDE DEF B
  <2> QED BY <1>9, <2>1 DEF StrictSubsetOrdering
<1>11. B(h) \in U
  BY <1>8
<1> QED BY <1>3, <1>4, <1>10, <1>11

(* An empty order. *)
LEMMA OrderStarts ==
    ASSUME Sort!OrderInit
    PROVE  OrderInv
<1> USE DEF Sort!OrderInit
<1>1. OrderTypes
  <2>1. <<>> \in Seq(Listed) /\ IsInjective(<<>>)
    BY DEF IsInjective
  <2>2. Graph \in [Listed -> SUBSET Listed] /\ ordered = <<>> /\ sorted = FALSE
    OBVIOUS
  <2>3. priority \in [Listed -> Int]
    BY OrderAssumption
  <2> QED BY <2>1, <2>2, <2>3 DEF OrderTypes
<1>2. Growing /\ OrderRespectsDependencies /\ PriorityDecides
  BY DEF Growing, OrderRespectsDependencies, PriorityDecides
<1> QED BY <1>1, <1>2 DEF OrderInv

(* A round of the loop adds a feature. *)
LEMMA PlaceNextHolds ==
    ASSUME OrderInv, Sort!PlaceNext
    PROVE  OrderInv'
<1>1. PICK f \in Waiting : /\ \A g \in Waiting : priority[f] <= priority[g]
                           /\ ordered' = Append(ordered, f)
                           /\ UNCHANGED <<Graph, priority, sorted>>
  BY SortMeans DEF Sort!PlaceNext
<1>2. f \in Listed /\ f \notin ToSet(ordered) /\ Graph[f] \subseteq ToSet(ordered)
  BY DEF Waiting
<1>3. ~sorted
  BY <1>2 DEF OrderInv, OrderRespectsDependencies
<1>4. ordered \in Seq(Listed) /\ IsInjective(ordered)
  BY DEF OrderInv, OrderTypes
<1> DEFINE n == Len(ordered)
<1>5. /\ ordered' \in Seq(Listed) /\ n \in Nat /\ ordered'[n + 1] = f /\ IsInjective(ordered')
      /\ DOMAIN ordered = 1..n /\ DOMAIN ordered' = 1..(n + 1)
      /\ \A i \in DOMAIN ordered : ordered'[i] = ordered[i] /\ Firsts(ordered', i) = Firsts(ordered, i)
      /\ Firsts(ordered', n + 1) = ToSet(ordered)
  BY <1>1, <1>2, <1>4, Appended
<1> HIDE DEF n
<1>6. ASSUME NEW i \in DOMAIN ordered'
      PROVE  /\ Graph[ordered'[i]] \subseteq Firsts(ordered', i)
             /\ \A g \in Listed \ Firsts(ordered', i) :
                  Graph[g] \subseteq Firsts(ordered', i) => priority[ordered'[i]] <= priority[g]
  <2>1. CASE i \in DOMAIN ordered
    BY <1>3, <1>5, <2>1 DEF OrderInv, Growing
  <2>2. CASE i = n + 1
    BY <1>1, <1>2, <1>5, <2>2 DEF Waiting
  <2>3. i \in 1..n \/ i = n + 1
    BY <1>5
  <2> QED BY <1>5, <2>1, <2>2, <2>3
<1>7. Growing'
  BY <1>1, <1>6 DEF Growing
<1>8. OrderTypes'
  BY <1>1, <1>5 DEF OrderInv, OrderTypes
<1>9. OrderRespectsDependencies' /\ PriorityDecides'
  BY <1>1, <1>3 DEF OrderRespectsDependencies, PriorityDecides
<1> QED BY <1>7, <1>8, <1>9 DEF OrderInv

(* What is ordered when all it depends on is there comes after all it reaches. *)
LEMMA ReachedBefore ==
    ASSUME OrderTypes, Growing, ~sorted, NEW i \in DOMAIN ordered,
           NEW g \in Listed, Reaches(Graph, ordered[i], g)
    PROVE  \E j \in DOMAIN ordered : j < i /\ ordered[j] = g
<1> USE DEF OrderTypes
<1> DEFINE S == Firsts(ordered, i)
<1>1. DOMAIN ordered = 1..Len(ordered) /\ Len(ordered) \in Nat /\ i \in Nat
  OBVIOUS
<1>2. \A j \in 1..(i - 1) : j \in DOMAIN ordered /\ j < i /\ ordered[j] \in Listed
  BY <1>1
<1>3. S \in SUBSET Listed /\ Graph[ordered[i]] \subseteq S
  BY <1>2 DEF Firsts, Growing
<1>4. \A j \in 1..(i - 1) : Graph[ordered[j]] \subseteq S
  <2> SUFFICES ASSUME NEW j \in 1..(i - 1) PROVE Firsts(ordered, j) \subseteq S
    BY <1>2 DEF Growing
  <2>1. 1..(j - 1) \subseteq 1..(i - 1)
    BY <1>1
  <2> QED BY <2>1 DEF Firsts
<1>5. Closed(Graph, S)
  BY <1>4 DEF Firsts, Closed
<1>6. g \in S
  BY <1>3, <1>5 DEF Reaches
<1> QED BY <1>2, <1>6 DEF Firsts

(* The end: what has been ordered in its turn keeps its place. *)
LEMMA PlaceRestHolds ==
    ASSUME OrderInv, Sort!PlaceRest
    PROVE  OrderInv'
<1>1. PICK rest \in SetToSeqs(Listed \ ToSet(ordered)) : ordered' = ordered \o rest
  BY SortMeans DEF Sort!PlaceRest
<1>2. Waiting = {} /\ ~sorted /\ sorted' = TRUE /\ UNCHANGED <<Graph, priority>>
  BY SortMeans DEF Sort!PlaceRest
<1>3. OrderTypes /\ Growing
  BY DEF OrderInv
<1>4. ordered \in Seq(Listed) /\ IsInjective(ordered) /\ Graph \in [Listed -> SUBSET Listed]
  BY <1>3 DEF OrderTypes
<1>5. /\ ordered' \in Seq(Listed) /\ IsInjective(ordered') /\ ToSet(ordered') = Listed
      /\ Len(ordered) \in Nat /\ DOMAIN ordered = 1..Len(ordered) /\ DOMAIN ordered' \subseteq Nat
      /\ \A i \in DOMAIN ordered : i \in DOMAIN ordered' /\ ordered'[i] = ordered[i]
  <2>1. IsFiniteSet(Listed) /\ rest \in SetToSeqs(Listed \ ToSet(ordered))
    BY ListedFinite
  <2>2. /\ ordered \o rest \in Seq(Listed) /\ ToSet(ordered \o rest) = Listed
        /\ IsInjective(ordered) => IsInjective(ordered \o rest)
        /\ Len(ordered) \in Nat /\ DOMAIN ordered = 1..Len(ordered) /\ DOMAIN (ordered \o rest) \subseteq Nat
        /\ \A i \in DOMAIN ordered : i \in DOMAIN (ordered \o rest) /\ (ordered \o rest)[i] = ordered[i]
    <3>1. ordered \in Seq(Listed)
      BY <1>4
    <3>2. ordered \o rest \in Seq(Listed) /\ ToSet(ordered \o rest) = Listed
      BY <2>1, <3>1, RestBehind
    <3>3. IsInjective(ordered) => IsInjective(ordered \o rest)
      BY <2>1, <3>1, RestBehind
    <3>4. Len(ordered) \in Nat /\ DOMAIN ordered = 1..Len(ordered) /\ DOMAIN (ordered \o rest) \subseteq Nat
      BY <2>1, <3>1, RestBehind
    <3>5. \A i \in DOMAIN ordered : i \in DOMAIN (ordered \o rest) /\ (ordered \o rest)[i] = ordered[i]
      BY <2>1, <3>1, RestBehind
    <3> QED BY <3>2, <3>3, <3>4, <3>5
  <2> QED BY <1>1, <1>4, <2>2
<1>6. OrderTypes'
  BY <1>2, <1>3, <1>5 DEF OrderTypes
<1>7. Growing'
  BY <1>2 DEF Growing
<1>8. \A f \in Listed, i \in DOMAIN ordered' : ordered'[i] = f => Place(f)' = i
  <2> SUFFICES ASSUME NEW f \in Listed, NEW i \in DOMAIN ordered', ordered'[i] = f PROVE Place(f)' = i
    OBVIOUS
  <2>1. (CHOOSE j \in DOMAIN ordered' : ordered'[j] = f) = i
    BY <1>5, PlaceIs
  <2> QED BY <2>1 DEF Place
<1>9. Sortable' = Sortable /\ OnCycle' = OnCycle /\ \A f, g : Reaches(Graph', f, g) <=> Reaches(Graph, f, g)
  BY <1>2 DEF Sortable, OnCycle, Reaches, Closed
<1>10. \A f \in Sortable : \E i \in DOMAIN ordered : ordered[i] = f
  BY <1>2, <1>4, SortableTaken DEF ToSet
<1>11. ASSUME NEW f \in Sortable, NEW g \in Listed, Reaches(Graph, f, g)
       PROVE  Place(g)' < Place(f)'
  <2>1. PICK i \in DOMAIN ordered : ordered[i] = f
    BY <1>10
  <2>2. PICK j \in DOMAIN ordered : j < i /\ ordered[j] = g
    BY <1>2, <1>3, <1>11, <2>1, ReachedBefore
  <2>3. Place(f)' = i /\ Place(g)' = j
    BY <1>5, <1>8, <2>1, <2>2
  <2> QED BY <2>2, <2>3
<1>12. OrderRespectsDependencies'
  BY <1>2, <1>5, <1>9, <1>11 DEF OrderRespectsDependencies
<1>13. ASSUME NEW f \in Sortable, NEW g \in Sortable, Place(f)' < Place(g)',
              \A h \in Listed : Reaches(Graph, g, h) => Place(h)' < Place(f)'
       PROVE  priority[f] <= priority[g]
  <2>1. PICK i \in DOMAIN ordered : ordered[i] = f
    BY <1>10
  <2>2. PICK k \in DOMAIN ordered : ordered[k] = g
    BY <1>10
  <2>3. Place(f)' = i /\ Place(g)' = k
    BY <1>5, <1>8, <2>1, <2>2
  <2>4. g \notin Firsts(ordered, i)
    <3>1. \A j \in 1..(i - 1) : j \in DOMAIN ordered /\ j # k
      BY <1>5, <1>13, <2>3
    <3> QED BY <1>4, <2>2, <3>1 DEF Firsts, IsInjective
  <2>5. Graph[g] \subseteq Firsts(ordered, i)
    <3> SUFFICES ASSUME NEW h \in Graph[g] PROVE h \in Firsts(ordered, i)
      OBVIOUS
    <3>1. g \in Listed /\ h \in Listed
      BY <1>4 DEF Sortable
    <3>2. Reaches(Graph, g, h)
      BY <1>4, <3>1, BelowClosed DEF Below
    <3>3. PICK j \in DOMAIN ordered : ordered[j] = h
      BY <1>2, <1>3, <2>2, <3>1, <3>2, ReachedBefore
    <3>4. Place(h)' = j /\ j < i
      BY <1>5, <1>8, <1>13, <2>3, <3>1, <3>2, <3>3
    <3>5. j \in 1..(i - 1)
      BY <1>5, <3>3, <3>4
    <3> QED BY <3>3, <3>5 DEF Firsts
  <2>6. g \in Listed
    BY DEF Sortable
  <2> QED BY <1>2, <1>3, <2>1, <2>4, <2>5, <2>6 DEF Growing
<1>14. PriorityDecides'
  BY <1>2, <1>9, <1>13 DEF PriorityDecides
<1> QED BY <1>6, <1>7, <1>12, <1>14 DEF OrderInv

(* The invariant of the order. *)
LEMMA OrderHolds == Sort!OrderSpec => []OrderInv
<1>1. OrderInv /\ UNCHANGED Sort!orderVars => OrderInv'
  <2> SUFFICES ASSUME OrderInv, UNCHANGED <<Graph, priority, ordered, sorted>> PROVE OrderInv'
    BY DEF Sort!orderVars
  <2>1. OrderTypes' /\ Growing'
    BY DEF OrderInv, OrderTypes, Growing
  <2>2. OnCycle' = OnCycle /\ Sortable' = Sortable
    BY DEF OnCycle, Sortable
  <2>3. OrderRespectsDependencies' /\ PriorityDecides'
    BY <2>2 DEF OrderInv, OrderRespectsDependencies, PriorityDecides, Place
  <2> QED BY <2>1, <2>3 DEF OrderInv
<1>2. OrderInv /\ [Sort!OrderNext]_(Sort!orderVars) => OrderInv'
  BY <1>1, PlaceNextHolds, PlaceRestHolds DEF Sort!OrderNext
<1> QED BY <1>2, OrderStarts, PTL DEF Sort!OrderSpec

--------------------------------------------------------------------------------
(* Kahn's algorithm *)


ResolverTypes ==
    /\ links \in [Listed -> Links] /\ priority \in [Listed -> Priorities]
    /\ ordered \in Seq(Listed) /\ queue \in Seq(Listed) /\ IsInjective(queue)
    /\ sorted \in BOOLEAN

(* The degrees count what is missing, and so the queue holds what DependencyOrder calls ready, *)
(* the smallest number first.                                                                    *)
Counted ==
    IF sorted THEN queue = <<>>
    ELSE /\ inDegree = [f \in Listed |-> Cardinality(Graph[f] \ ToSet(ordered))]
         /\ \A f \in ToSet(ordered) : Graph[f] \subseteq ToSet(ordered)
         /\ ToSet(queue) = Waiting
         /\ \A i, j \in DOMAIN queue : i < j => priority[queue[i]] <= priority[queue[j]]

ResolverInv == ResolverTypes /\ Counted

(* The queue, sorted again, holds what it held and what is new, the smallest number first. *)
LEMMA QueuedSorts ==
    ASSUME priority \in [Listed -> Priorities], NEW q \in Seq(Listed), NEW new \in SUBSET Listed,
           NEW s \in Queued(q, new)
    PROVE  /\ s \in Seq(Listed) /\ IsInjective(s) /\ ToSet(s) = ToSet(q) \cup new
           /\ \A i, j \in DOMAIN s : i < j => priority[s[i]] <= priority[s[j]]
<1> DEFINE S == ToSet(q) \cup new
<1>1. S \subseteq Listed
  BY DEF ToSet
<1>2. IsFiniteSet(S)
  BY <1>1, OrderAssumption, SequencesAreFinite, FS_Subset DEF Listed
<1>3. s \in SetToSeqs(S) /\ \A i, j \in DOMAIN s : i < j => Before(q, s[i], s[j])
  BY DEF Queued
<1> HIDE DEF S
<1>4. s \in Seq(S) /\ IsInjective(s) /\ ToSet(s) = S
  BY <1>2, <1>3, AllOnce
<1>5. \A i \in DOMAIN s : priority[s[i]] \in Int
  <2>1. \A i \in DOMAIN s : s[i] \in Listed
    BY <1>1, <1>4
  <2> QED BY <2>1, OrderAssumption
<1>6. \A i, j \in DOMAIN s : i < j => priority[s[i]] <= priority[s[j]]
  BY <1>3, <1>5 DEF Before
<1> QED BY <1>1, <1>4, <1>6 DEF S

(* The degrees and the first queue. *)
LEMMA ResolverStarts ==
    ASSUME ResolverInit
    PROVE  ResolverInv
<1>1. links \in [Listed -> Links] /\ priority \in [Listed -> Priorities] /\ ordered = <<>> /\ sorted = FALSE
  BY DEF ResolverInit
<1>2. ToSet(ordered) = {} /\ ordered \in Seq(Listed) /\ ToSet(<<>>) = {}
  BY <1>1 DEF ToSet
<1>3. inDegree = [f \in Listed |-> Cardinality(Graph[f] \ ToSet(ordered))]
  <2>1. \A f \in Listed : Graph[f] \ {} = ToSet(links[f]) \cap Listed
    BY DEF Graph
  <2> QED BY <1>2, <2>1 DEF ResolverInit
<1>4. {f \in Listed : inDegree[f] = 0} = Waiting
  <2>1. \A f \in Listed : inDegree[f] = 0 <=> Graph[f] \subseteq ToSet(ordered)
    <3> SUFFICES ASSUME NEW f \in Listed PROVE inDegree[f] = 0 <=> Graph[f] \subseteq ToSet(ordered)
      OBVIOUS
    <3>1. Cardinality(Graph[f] \ ToSet(ordered)) = 0 <=> Graph[f] \ ToSet(ordered) = {}
      BY <1>1, GraphTypes, FS_EmptySet
    <3> QED BY <1>3, <3>1
  <2> QED BY <1>2, <2>1 DEF Waiting
<1>5. /\ queue \in Seq(Listed) /\ IsInjective(queue) /\ ToSet(queue) = Waiting
      /\ \A i, j \in DOMAIN queue : i < j => priority[queue[i]] <= priority[queue[j]]
  <2>1. queue \in Queued(<<>>, Waiting)
    BY <1>4 DEF ResolverInit
  <2>2. Waiting \in SUBSET Listed /\ <<>> \in Seq(Listed)
    BY DEF Waiting
  <2>3. ToSet(<<>>) \cup Waiting = Waiting
    BY <1>2
  <2> QED BY <1>1, <2>1, <2>2, <2>3, QueuedSorts
<1> QED BY <1>1, <1>2, <1>3, <1>5 DEF ResolverInv, ResolverTypes, Counted

(* A round of the loop keeps the counts and places a feature that DependencyOrder may place next. *)
LEMMA ProcessHolds ==
    ASSUME ResolverInv, Process
    PROVE  ResolverInv' /\ Sort!PlaceNext
<1> DEFINE h == Head(queue)
           new == {f \in Dependents(h) : inDegree'[f] = 0}
<1>1. /\ links \in [Listed -> Links] /\ priority \in [Listed -> Priorities]
      /\ ordered \in Seq(Listed) /\ queue \in Seq(Listed) /\ IsInjective(queue) /\ queue # <<>>
      /\ UNCHANGED <<links, priority, sorted>> /\ ordered' = Append(ordered, h)
      /\ inDegree' = Degrees(h) /\ queue' \in Queued(Tail(queue), new)
  BY DEF Process, ResolverInv, ResolverTypes
<1>2. /\ sorted = FALSE
      /\ inDegree = [f \in Listed |-> Cardinality(Graph[f] \ ToSet(ordered))]
      /\ \A f \in ToSet(ordered) : Graph[f] \subseteq ToSet(ordered)
      /\ ToSet(queue) = Waiting
      /\ \A i, j \in DOMAIN queue : i < j => priority[queue[i]] <= priority[queue[j]]
  BY <1>1 DEF ResolverInv, ResolverTypes, Counted
<1>3. /\ h \in Waiting /\ Tail(queue) \in Seq(Listed) /\ ToSet(Tail(queue)) = Waiting \ {h}
      /\ \A f \in Waiting : priority[h] <= priority[f]
  <2>1. /\ h \in ToSet(queue) /\ Tail(queue) \in Seq(Listed) /\ ToSet(Tail(queue)) = ToSet(queue) \ {h}
        /\ \A f \in ToSet(queue) : f = h \/ \E i \in DOMAIN queue :
             1 \in DOMAIN queue /\ 1 < i /\ queue[1] = h /\ f = queue[i]
    BY <1>1, QueueHead
  <2> HIDE DEF h
  <2>2. h \in Waiting /\ Waiting \subseteq Listed
    BY <1>2, <2>1 DEF Waiting
  <2>3. priority[h] \in Int
    BY <1>1, <2>2, OrderAssumption
  <2>4. ASSUME NEW f \in Waiting PROVE priority[h] <= priority[f]
    BY <1>2, <2>1, <2>3
  <2> QED BY <1>2, <2>1, <2>2, <2>4
<1>4. Graph' = Graph /\ Graph \in [Listed -> SUBSET Listed] /\ ToSet(ordered) \subseteq Listed
  BY <1>1, GraphTypes DEF Graph, ToSet
<1>5. ordered' \in Seq(Listed) /\ ToSet(ordered') = ToSet(ordered) \cup {h}
  BY <1>1, <1>3, Appended DEF Waiting
<1>6. h \in Listed /\ h \notin ToSet(ordered) /\ Graph[h] \subseteq ToSet(ordered)
  BY <1>3 DEF Waiting
<1> HIDE DEF h
<1>7. Dependents(h) = {f \in Listed : h \in Graph[f]}
  BY <1>6 DEF Dependents, Graph
<1>8. inDegree' = [f \in Listed |-> Cardinality(Graph[f] \ ToSet(ordered'))]
  <2>1. ASSUME NEW f \in Listed
        PROVE  Cardinality(Graph[f] \ ToSet(ordered'))
                 = IF h \in Graph[f] THEN inDegree[f] - 1 ELSE inDegree[f]
    <3> DEFINE A == Graph[f] \ ToSet(ordered)
    <3>1. Graph[f] \ ToSet(ordered') = A \ {h} /\ (h \in A <=> h \in Graph[f])
      BY <1>5, <1>6
    <3>2. IsFiniteSet(A)
      BY <1>1, GraphTypes
    <3>3. Cardinality(A \ {h}) = IF h \in A THEN Cardinality(A) - 1 ELSE Cardinality(A)
      BY <3>2, FS_RemoveElement
    <3>4. inDegree[f] = Cardinality(A)
      BY <1>2
    <3> HIDE DEF A
    <3> QED BY <3>1, <3>3, <3>4
  <2> QED BY <1>1, <1>7, <2>1 DEF Degrees
<1>9. \A f \in ToSet(ordered') : Graph[f] \subseteq ToSet(ordered')
  BY <1>2, <1>5, <1>6
<1>10. new = {f \in Listed : h \in Graph[f] /\ Graph[f] \subseteq ToSet(ordered')}
  <2>1. ASSUME NEW f \in Listed PROVE inDegree'[f] = 0 <=> Graph[f] \subseteq ToSet(ordered')
    <3>1. Cardinality(Graph[f] \ ToSet(ordered')) = 0 <=> Graph[f] \ ToSet(ordered') = {}
      BY <1>1, GraphTypes, FS_EmptySet
    <3> QED BY <1>8, <3>1
  <2> QED BY <1>7, <2>1
<1> HIDE DEF new
<1>11. (Waiting \ {h}) \cup new = Waiting'
  <2>1. Waiting' = {f \in Listed \ ToSet(ordered') : Graph[f] \subseteq ToSet(ordered')}
    BY <1>1, <1>4 DEF Waiting
  <2>2. \A f \in new : f \notin ToSet(ordered) /\ f # h
    BY <1>2, <1>6, <1>10
  <2> QED BY <1>4, <1>5, <1>10, <2>1, <2>2 DEF Waiting
<1>12. /\ queue' \in Seq(Listed) /\ IsInjective(queue') /\ ToSet(queue') = Waiting'
       /\ \A i, j \in DOMAIN queue' : i < j => priority[queue'[i]] <= priority[queue'[j]]
  <2>1. new \in SUBSET Listed
    BY <1>10
  <2> QED BY <1>1, <1>3, <1>11, <2>1, QueuedSorts
<1>13. ResolverInv'
  BY <1>1, <1>2, <1>4, <1>5, <1>8, <1>9, <1>12 DEF ResolverInv, ResolverTypes, Counted
<1>14. Sort!PlaceNext
  BY <1>1, <1>3, <1>4, SortMeans DEF Sort!PlaceNext
<1> QED BY <1>13, <1>14

(* The end appends what DependencyOrder appends. *)
LEMMA FinishHolds ==
    ASSUME ResolverInv, Finish
    PROVE  ResolverInv' /\ Sort!PlaceRest
<1>1. PICK remaining \in InArrayOrder(Listed \ ToSet(ordered)) : ordered' = ordered \o remaining
  BY DEF Finish
<1>2. queue = <<>> /\ ~sorted /\ sorted' = TRUE /\ UNCHANGED <<links, priority, inDegree, queue>>
  BY DEF Finish, Searching
<1>3. /\ links \in [Listed -> Links] /\ priority \in [Listed -> Priorities]
      /\ ordered \in Seq(Listed) /\ queue \in Seq(Listed) /\ IsInjective(queue)
  BY DEF ResolverInv, ResolverTypes
<1>4. remaining \in SetToSeqs(Listed \ ToSet(ordered))
  BY DEF InArrayOrder
<1>5. ordered' \in Seq(Listed)
  <2>1. IsFiniteSet(Listed)
    BY ListedFinite
  <2>2. ordered \o remaining \in Seq(Listed)
    BY <1>3, <1>4, <2>1, RestBehind
  <2> QED BY <1>1, <2>2
<1>6. ResolverInv'
  BY <1>2, <1>3, <1>5 DEF ResolverInv, ResolverTypes, Counted
<1>7. Sort!Ready = {}
  <2>1. ToSet(queue) = Waiting
    BY <1>2 DEF ResolverInv, Counted
  <2> QED BY <1>2, <2>1, SortMeans DEF ToSet
<1>8. Graph' = Graph
  BY <1>2 DEF Graph
<1>9. Sort!PlaceRest
  BY <1>1, <1>2, <1>4, <1>7, <1>8, SortMeans DEF Sort!PlaceRest
<1> QED BY <1>6, <1>9

(* The searches leave what is sorted alone. *)
LEMMA SearchesLeave ==
    ASSUME \/ DetectCycles \/ Visit \/ Count \/ (\E from, to \in Listed : Ask(from, to)) \/ CanReach
           \/ UNCHANGED resolverVars
    PROVE  UNCHANGED sortVars
<1>1. CASE DetectCycles
  BY <1>1 DEF DetectCycles, DfsFirst, DfsDeeper, DfsPast, DfsCycle, DfsReturns, Enter
<1>2. CASE Visit \/ Count
  BY <1>2 DEF Visit, Count
<1>3. CASE (\E from, to \in Listed : Ask(from, to)) \/ CanReach
  <2>1. CASE CanReach
    BY <2>1 DEF CanReach, ReachFinds, ReachDeeper, ReachPast, ReachReturns
  <2>2. CASE \E from, to \in Listed : Ask(from, to)
    BY <2>2 DEF Ask
  <2> QED BY <1>3, <2>1, <2>2
<1>4. CASE UNCHANGED resolverVars
  BY <1>4 DEF resolverVars
<1> QED BY <1>1, <1>2, <1>3, <1>4

(* A step of the resolver is one of DependencyOrder's, or none. *)
LEMMA ResolverSteps ==
    ASSUME ResolverInv, [ResolverNext]_resolverVars
    PROVE  ResolverInv' /\ [Sort!OrderNext]_(Sort!orderVars)
<1>1. CASE Process \/ Finish
  BY <1>1, ProcessHolds, FinishHolds DEF Sort!OrderNext
<1>2. CASE UNCHANGED sortVars
  <2>1. UNCHANGED <<links, priority, inDegree, queue, ordered, sorted>>
    BY <1>2 DEF sortVars
  <2>2. Graph' = Graph
    BY <2>1 DEF Graph
  <2>3. Waiting' = Waiting
    BY <2>1, <2>2 DEF Waiting
  <2>4. ResolverInv'
    BY <2>1, <2>2, <2>3 DEF ResolverInv, ResolverTypes, Counted
  <2> QED BY <2>1, <2>2, <2>4 DEF Sort!orderVars
<1> QED BY <1>1, <1>2, SearchesLeave DEF ResolverNext

(* The degrees and the queue, in every state. *)
LEMMA ResolverHolds == ResolverSpec => []ResolverInv
<1>1. ResolverInv /\ [ResolverNext]_resolverVars => ResolverInv'
  BY ResolverSteps
<1> QED BY <1>1, ResolverStarts, PTL DEF ResolverSpec

(* For any array of features, with any priorities: Kahn's algorithm, which counts degrees *)
(* down and sorts its queue again each round, returns an order that DependencyOrder allows,  *)
(* and so has the properties proved of that.                                                 *)
THEOREM ResolverSorts == ResolverSpec => SortsInOrder
<1>1. ResolverInit => Sort!OrderInit
  <2> SUFFICES ASSUME ResolverInit PROVE Sort!OrderInit
    OBVIOUS
  <2>1. links \in [Listed -> Links] /\ priority \in [Listed -> Priorities] /\ ordered = <<>> /\ sorted = FALSE
    BY DEF ResolverInit
  <2> QED BY <2>1, GraphTypes DEF Sort!OrderInit
<1>2. ResolverInv /\ [ResolverNext]_resolverVars => [Sort!OrderNext]_(Sort!orderVars)
  BY ResolverSteps
<1> QED BY <1>1, <1>2, ResolverHolds, PTL DEF ResolverSpec, SortsInOrder, Sort!OrderSpec

(* And so, for any array, any links and any priorities: what resolveDependencies returns is *)
(* each feature once, after all it reaches unless it is on a cycle or reaches one.           *)
THEOREM DependenciesFirst == ResolverSpec => []OrderRespectsDependencies
<1>1. OrderInv => OrderRespectsDependencies
  BY DEF OrderInv
<1> QED BY <1>1, ResolverSorts, OrderHolds, PTL DEF SortsInOrder

(* And among those that could be next the smallest number decides. *)
THEOREM PriorityOrders == ResolverSpec => []PriorityDecides
<1>1. OrderInv => PriorityDecides
  BY DEF OrderInv
<1> QED BY <1>1, ResolverSorts, OrderHolds, PTL DEF SortsInOrder

--------------------------------------------------------------------------------
(* The searches *)

Ids == Listed \cup Unknown
Calls == [id : Ids, next : Nat \ {0}]

(* What the search for descendants has counted, and what it has visited from the next source. *)
CountInv ==
    /\ Len(impact) <= Len(Order) /\ impact \in Seq(Nat)
    /\ ~sorted => impact = <<>>
    /\ \A i \in DOMAIN impact : impact[i] = Impact(Graph, Order[i])
    /\ Counting => LET s == Order[Len(impact) + 1] IN
         /\ visited \subseteq {g \in Listed : Reaches(Graph, g, s)}
         /\ pending \subseteq visited \cup {s}
         /\ \A f \in (visited \cup {s}) \ pending : Dependents(f) \subseteq visited

(* What detectCycles looks for, and has found so far. *)
Explored == visited \ recursionStack

(* The stack and the path hold the same ids, and the calls are those at the end of the path: *)
(* the calls that returned with a cycle have left theirs before them.                          *)
PathIsStack ==
    /\ calls \in Seq(Calls) /\ currentPath \in Seq(Ids) /\ cycles \in Seq(Seq(Ids))
    /\ visited \subseteq Ids /\ recursionStack \subseteq visited
    /\ IsInjective(currentPath) /\ ToSet(currentPath) = recursionStack
    /\ Len(calls) <= Len(currentPath)
    /\ \A i \in DOMAIN calls : calls[i].id = currentPath[(Len(currentPath) - Len(calls)) + i]

(* The dependencies a call has looked at are explored, but for the one the next call is for, *)
(* and so each id on the path leads to all after it.                                           *)
CallsLooked ==
    /\ Len(currentPath) = Len(calls)
    /\ \A i \in DOMAIN calls : calls[i].next <= Len(DepsOf(calls[i].id)) + 1
    /\ \A i \in DOMAIN calls : i + 1 \in DOMAIN calls =>
            calls[i].next >= 2 /\ DepsOf(calls[i].id)[calls[i].next - 1] = calls[i + 1].id
    /\ \A i \in DOMAIN calls : \A k \in 1..(calls[i].next - 1) :
            \/ DepsOf(calls[i].id)[k] \in Explored
            \/ i < Len(calls) /\ k = calls[i].next - 1
    /\ \A i, j \in DOMAIN calls : i < j /\ calls[j].id \in Listed =>
            calls[i].id \in Listed /\ Reaches(Graph, calls[i].id, calls[j].id)

(* What is explored has only explored dependencies, and is on no cycle. *)
ExploredStand ==
    \A f \in Explored : /\ ToSet(DepsOf(f)) \subseteq Explored
                        /\ f \in Listed => ~Reaches(Graph, f, f)

(* After the first cycle the path holds ids that are not below one another. *)
DfsInv ==
    /\ ~sorted => PathIsStack /\ (cycles = <<>> => CallsLooked /\ ExploredStand)
    /\ cycles # <<>> => IsCycle(cycles[1]) /\ ~Acyclic(Graph)
    /\ sorted /\ cycles = <<>> => Acyclic(Graph)

(* What canReach has visited can be reached, and what it has left is all visited. *)
From == question[1]
To == question[2]
ReachSearch ==
    /\ calls \in Seq(Calls) /\ visited \subseteq Ids /\ From \in visited /\ To \notin visited
    /\ \A f \in visited \cap Listed : f = From \/ Reaches(Graph, From, f)
    /\ \A i \in DOMAIN calls :
         /\ calls[i].id \in visited
         /\ \A k \in 1..(calls[i].next - 1) :
                k \in DOMAIN DepsOf(calls[i].id) => DepsOf(calls[i].id)[k] \in visited
    /\ \A f \in visited :
         ToSet(DepsOf(f)) \subseteq visited \/ \E i \in DOMAIN calls : calls[i].id = f
AskInv ==
    /\ ~sorted \/ Counting => question = <<>>
    /\ sorted /\ question = <<>> => calls = <<>>
    /\ Asking => /\ From \in Listed /\ To \in Listed
                 /\ reached => calls = <<>> /\ ClosesCycle(Graph, To, {From})
                 /\ ~reached => ReachSearch

(* The last element of a sequence taken away. *)
LEMMA FrontOf ==
    ASSUME NEW S, NEW s \in Seq(S), s # <<>>
    PROVE  /\ Front(s) \in Seq(S) /\ Len(Front(s)) = Len(s) - 1 /\ Len(s) \in Nat \ {0}
           /\ DOMAIN s = 1..Len(s) /\ DOMAIN Front(s) = 1..(Len(s) - 1)
           /\ \A i \in 1..(Len(s) - 1) : Front(s)[i] = s[i]
<1> DEFINE n == Len(s)
<1>1. n \in Nat \ {0} /\ DOMAIN s = 1..n
  OBVIOUS
<1>2. \A i \in 1..(n - 1) : s[i] \in S
  BY <1>1
<1> HIDE DEF n
<1>3. /\ SubSeq(s, 1, n - 1) \in Seq(S)
      /\ Len(SubSeq(s, 1, n - 1)) = IF 1 <= n - 1 THEN (n - 1) - 1 + 1 ELSE 0
      /\ \A i \in 1..((n - 1) - 1 + 1) : SubSeq(s, 1, n - 1)[i] = s[1 + i - 1]
  BY <1>1, <1>2, SubSeqProperties
<1>4. Front(s) = SubSeq(s, 1, n - 1)
  BY DEF Front, n
<1> HIDE DEF Front
<1>5. Len(Front(s)) = n - 1
  BY <1>1, <1>3, <1>4
<1>6. ASSUME NEW i \in 1..(n - 1) PROVE Front(s)[i] = s[i]
  <2>1. i \in 1..((n - 1) - 1 + 1) /\ 1 + i - 1 = i
    BY <1>1
  <2> QED BY <1>3, <1>4, <2>1
<1> QED BY <1>1, <1>3, <1>4, <1>5, <1>6 DEF n

(* The dependencies of an id, and those of them that are features. *)
LEMMA DepsTypes ==
    ASSUME links \in [Listed -> Links]
    PROVE  /\ \A id \in Ids : /\ DepsOf(id) \in Seq(Ids) /\ Len(DepsOf(id)) \in Nat
                              /\ DOMAIN DepsOf(id) = 1..Len(DepsOf(id))
                              /\ ToSet(DepsOf(id)) \subseteq Ids
           /\ \A f \in Listed : DepsOf(f) = links[f] /\ Graph[f] = ToSet(DepsOf(f)) \cap Listed
           /\ Graph \in [Listed -> SUBSET Listed] /\ Listed \subseteq Ids
           /\ \A id : id \notin Listed => DepsOf(id) = <<>> /\ ToSet(DepsOf(id)) = {}
<1>1. \A s \in Links : s \in Seq(Ids)
  BY DEF Links, Ids
<1>2. \A id \in Ids : DepsOf(id) \in Seq(Ids)
  BY <1>1 DEF DepsOf
<1>3. \A f \in Listed : DepsOf(f) = links[f] /\ Graph[f] = ToSet(DepsOf(f)) \cap Listed
  BY DEF DepsOf, Graph
<1>4. \A id : id \notin Listed => DepsOf(id) = <<>> /\ ToSet(DepsOf(id)) = {}
  BY DEF DepsOf, ToSet
<1>5. \A s \in Seq(Ids) : Len(s) \in Nat /\ DOMAIN s = 1..Len(s) /\ ToSet(s) \subseteq Ids
  BY DEF ToSet
<1> QED BY <1>2, <1>3, <1>4, <1>5, GraphTypes DEF Ids

(* A feature depends on what it is a dependent of, and reaches what that reaches. *)
LEMMA DependentsReach ==
    ASSUME links \in [Listed -> Links], NEW f \in Listed, NEW g \in Dependents(f)
    PROVE  /\ g \in Listed /\ f \in Graph[g] /\ Reaches(Graph, g, f)
           /\ \A h : Reaches(Graph, f, h) => Reaches(Graph, g, h)
<1>1. Graph \in [Listed -> SUBSET Listed] /\ g \in Listed /\ f \in Graph[g]
  BY DepsTypes DEF Dependents, Graph
<1>2. Reaches(Graph, g, f)
  BY <1>1, BelowClosed DEF Below
<1> QED BY <1>1, <1>2, ReachesOn

(* When nothing is pending, what has been visited is what reaches the source. *)
LEMMA VisitedIsImpact ==
    ASSUME links \in [Listed -> Links], NEW s \in Listed,
           visited \subseteq {g \in Listed : Reaches(Graph, g, s)},
           \A f \in visited \cup {s} : Dependents(f) \subseteq visited
    PROVE  Cardinality(visited) = Impact(Graph, s)
<1> DEFINE S == Listed \ (visited \cup {s})
<1>1. Graph \in [Listed -> SUBSET Listed]
  BY DepsTypes
<1>2. ASSUME NEW g \in Listed \ visited PROVE Graph[g] \cap DOMAIN Graph \subseteq S
  <2> SUFFICES ASSUME NEW d \in Graph[g], d \in visited \cup {s} PROVE FALSE
    BY <1>1
  <2>1. g \in Dependents(d)
    BY DEF Dependents, Graph
  <2> QED BY <2>1
<1>3. Closed(Graph, S)
  BY <1>2 DEF Closed
<1>4. S \in SUBSET DOMAIN Graph
  BY <1>1
<1>5. \A g \in Listed \ visited : ~Reaches(Graph, g, s)
  BY <1>2, <1>3, <1>4 DEF Reaches
<1>6. visited = {g \in DOMAIN Graph : Reaches(Graph, g, s)}
  BY <1>1, <1>5
<1> QED BY <1>6 DEF Impact

(* The array holds the features. *)
LEMMA ArrayOf ==
    /\ Len(Order) \in Nat
    /\ \A k \in Nat \ {0} : Source(k) = (IF k <= Len(Order) THEN {Order[k]} ELSE {}) /\ Source(k) \subseteq Listed
    /\ \A k \in Nat : k < Len(Order) => Order[k + 1] \in Listed
<1>1. Order \in Seq(Listed) /\ Len(Order) \in Nat
  BY OrderAssumption DEF Listed
<1>2. \A k \in Nat \ {0} : k <= Len(Order) => Order[k] \in Listed
  BY <1>1
<1>3. \A k \in Nat : k < Len(Order) => Order[k + 1] \in Listed
  BY <1>1
<1> QED BY <1>1, <1>2, <1>3 DEF Source

(* What is counted stays when neither the counts nor the graph change. *)
LEMMA CountStands ==
    ASSUME CountInv, UNCHANGED <<links, sorted, pending, impact>>, UNCHANGED visited \/ ~Counting
    PROVE  CountInv'
<1>1. Graph' = Graph /\ \A f : Dependents(f)' = Dependents(f)
  BY DEF Graph, Dependents
<1>2. Counting' = Counting
  BY DEF Counting
<1>3. \A f, g : Reaches(Graph, f, g)' <=> Reaches(Graph, f, g)
  BY <1>1
<1>4. \A f : Impact(Graph, f)' = Impact(Graph, f)
  BY <1>1
<1>5. CASE ~Counting
  BY <1>1, <1>2, <1>5 DEF CountInv
<1>6. CASE Counting
  BY <1>1, <1>2, <1>6 DEF CountInv
<1> QED BY <1>5, <1>6

(* The search from a source visits only what reaches it, and leaves nothing out. *)
LEMMA VisitCounts ==
    ASSUME links \in [Listed -> Links], CountInv, Visit
    PROVE  CountInv'
<1> DEFINE s == Order[Len(impact) + 1]
<1>1. PICK id \in pending : /\ visited' = visited \cup Dependents(id)
                            /\ pending' = (pending \ {id}) \cup (Dependents(id) \ visited)
  BY DEF Visit
<1>2. Counting /\ UNCHANGED <<links, sorted, impact>>
  BY DEF Visit, sortVars
<1>3. Counting' /\ Graph' = Graph /\ \A f : Dependents(f)' = Dependents(f)
  BY <1>2 DEF Counting, Graph, Dependents
<1>4. /\ visited \subseteq {g \in Listed : Reaches(Graph, g, s)}
      /\ pending \subseteq visited \cup {s}
      /\ \A f \in (visited \cup {s}) \ pending : Dependents(f) \subseteq visited
  BY <1>2 DEF CountInv
<1>5. s \in Listed
  BY <1>2, ArrayOf DEF CountInv, Counting
<1> HIDE DEF s
<1>6. Dependents(id) \subseteq {g \in Listed : Reaches(Graph, g, s)}
  <2> SUFFICES ASSUME NEW g \in Dependents(id) PROVE g \in Listed /\ Reaches(Graph, g, s)
    OBVIOUS
  <2>1. id \in Listed /\ (id = s \/ Reaches(Graph, id, s))
    BY <1>4, <1>5
  <2> QED BY <2>1, DependentsReach
<1>7. /\ visited' \subseteq {g \in Listed : Reaches(Graph, g, s)}
      /\ pending' \subseteq visited' \cup {s}
      /\ \A f \in (visited' \cup {s}) \ pending' : Dependents(f) \subseteq visited'
  BY <1>1, <1>4, <1>6
<1>8. s' = s
  BY <1>2 DEF s
<1> QED BY <1>2, <1>3, <1>7, <1>8 DEF CountInv, s

(* The count of a source, and the start from the next. *)
LEMMA CountCounts ==
    ASSUME links \in [Listed -> Links], CountInv, Count
    PROVE  CountInv'
<1> DEFINE n == Len(impact)
           s == Order[n + 1]
<1>1. /\ pending = {} /\ impact' = Append(impact, Cardinality(visited))
      /\ visited' = {} /\ pending' = Source(n + 2)
  BY DEF Count
<1>2. Counting /\ UNCHANGED <<links, sorted>>
  BY DEF Count, sortVars
<1>3. Graph' = Graph /\ \A f : Dependents(f)' = Dependents(f)
  BY <1>2 DEF Graph, Dependents
<1>4. /\ visited \subseteq {g \in Listed : Reaches(Graph, g, s)}
      /\ \A f \in visited \cup {s} : Dependents(f) \subseteq visited
      /\ sorted /\ n < Len(Order) /\ impact \in Seq(Nat)
      /\ \A i \in DOMAIN impact : impact[i] = Impact(Graph, Order[i])
  BY <1>1, <1>2 DEF CountInv, Counting
<1>5. s \in Listed /\ n \in Nat /\ DOMAIN impact = 1..n
  BY <1>4, ArrayOf
<1> HIDE DEF s
<1>6. Cardinality(visited) = Impact(Graph, s) /\ Cardinality(visited) \in Nat
  <2>1. IsFiniteSet(visited)
    BY <1>4, ListedFinite, FS_Subset
  <2> QED BY <1>4, <1>5, <2>1, VisitedIsImpact, FS_CardinalityType
<1>7. /\ impact' \in Seq(Nat) /\ Len(impact') = n + 1 /\ DOMAIN impact' = 1..(n + 1)
      /\ \A i \in 1..n : impact'[i] = impact[i]
      /\ impact'[n + 1] = Cardinality(visited)
  BY <1>1, <1>4, <1>6, AppendProperties
<1> HIDE DEF n
<1>8. \A i \in DOMAIN impact' : impact'[i] = Impact(Graph, Order[i])
  <2> SUFFICES ASSUME NEW i \in 1..(n + 1) PROVE impact'[i] = Impact(Graph, Order[i])
    BY <1>7
  <2>1. CASE i = n + 1
    BY <1>6, <1>7, <2>1 DEF s
  <2>2. CASE i # n + 1
    <3>1. i \in 1..n
      BY <1>5, <2>2
    <3> QED BY <1>4, <1>5, <1>7, <3>1
  <2> QED BY <2>1, <2>2
<1>9. Len(impact') <= Len(Order)
  BY <1>4, <1>5, <1>7, ArrayOf
<1>10. Counting' => Source(n + 2) = {Order[Len(impact') + 1]}
  <2> SUFFICES ASSUME Counting' PROVE n + 2 <= Len(Order) /\ Len(impact') + 1 = n + 2 /\ n + 2 \in Nat \ {0}
    BY ArrayOf
  <2> QED BY <1>5, <1>7, ArrayOf DEF Counting
<1> QED BY <1>1, <1>2, <1>3, <1>4, <1>7, <1>8, <1>9, <1>10 DEF CountInv

(* The counts, from step to step. *)
LEMMA CountSteps ==
    ASSUME ResolverInv, CountInv, AskInv, [ResolverNext]_resolverVars
    PROVE  CountInv'
<1>1. links \in [Listed -> Links]
  BY DEF ResolverInv, ResolverTypes
<1>2. CASE Process
  BY <1>2, CountStands DEF Process, impactVars
<1>3. CASE DetectCycles
  <2>1. ~Counting /\ UNCHANGED <<links, sorted, pending, impact>>
    BY <1>3 DEF DetectCycles, DfsFirst, DfsDeeper, DfsPast, DfsCycle, DfsReturns, Enter, Searching, Counting,
                sortVars, impactVars
  <2> QED BY <2>1, CountStands
<1>4. CASE Finish
  <2>1. /\ impact = <<>> /\ impact' = <<>> /\ sorted' = TRUE /\ visited' = {} /\ pending' = Source(1)
        /\ UNCHANGED links
    BY <1>4 DEF Finish, Searching, CountInv
  <2>2. Len(<<>>) = 0 /\ <<>> \in Seq(Nat) /\ DOMAIN <<>> = {}
    OBVIOUS
  <2>3. Counting' => Source(1) = {Order[Len(impact') + 1]}
    BY <2>1, <2>2, ArrayOf DEF Counting
  <2> QED BY <2>1, <2>2, <2>3, ArrayOf DEF CountInv
<1>5. CASE Visit
  BY <1>1, <1>5, VisitCounts
<1>6. CASE Count
  BY <1>1, <1>6, CountCounts
<1>7. CASE \E from, to \in Listed : Ask(from, to)
  BY <1>7, CountStands DEF Ask, sortVars, impactVars
<1>8. CASE CanReach
  <2>1. ~Counting
    BY <1>8 DEF AskInv, CanReach, ReachFinds, ReachDeeper, ReachPast, ReachReturns, Asking
  <2>2. UNCHANGED <<links, sorted, pending, impact>>
    BY <1>8 DEF CanReach, ReachFinds, ReachDeeper, ReachPast, ReachReturns, sortVars, impactVars
  <2> QED BY <2>1, <2>2, CountStands
<1>9. CASE UNCHANGED resolverVars
  BY <1>9, CountStands DEF resolverVars, sortVars, impactVars
<1> QED BY <1>2, <1>3, <1>4, <1>5, <1>6, <1>7, <1>8, <1>9 DEF ResolverNext

(* The innermost call and the dependency it looks at. *)
LEMMA TopOf ==
    ASSUME links \in [Listed -> Links], calls \in Seq(Calls), calls # <<>>
    PROVE  /\ Len(calls) \in Nat \ {0} /\ DOMAIN calls = 1..Len(calls) /\ Top = calls[Len(calls)]
           /\ Top.id \in Ids /\ Top.next \in Nat \ {0}
           /\ Top.next <= Len(DepsOf(Top.id)) =>
                /\ Dep = DepsOf(Top.id)[Top.next] /\ Dep \in Ids /\ Dep \in ToSet(DepsOf(Top.id))
                /\ Top.id \in Listed
                /\ Dep \in Listed => Dep \in Graph[Top.id]
<1>1. Len(calls) \in Nat \ {0} /\ DOMAIN calls = 1..Len(calls) /\ Top = calls[Len(calls)]
  BY DEF Top
<1>2. Top \in Calls
  BY <1>1
<1>3. Top.id \in Ids /\ Top.next \in Nat \ {0}
  BY <1>2 DEF Calls
<1> HIDE DEF Top
<1>4. ASSUME Top.next <= Len(DepsOf(Top.id))
      PROVE  /\ Dep = DepsOf(Top.id)[Top.next] /\ Dep \in Ids /\ Dep \in ToSet(DepsOf(Top.id))
             /\ Top.id \in Listed
             /\ Dep \in Listed => Dep \in Graph[Top.id]
  <2>1. DepsOf(Top.id) \in Seq(Ids) /\ DOMAIN DepsOf(Top.id) = 1..Len(DepsOf(Top.id))
    BY <1>3, DepsTypes
  <2>2. Len(DepsOf(Top.id)) \in Nat /\ Top.next \in DOMAIN DepsOf(Top.id)
    BY <1>3, <1>4, <2>1
  <2>3. Dep = DepsOf(Top.id)[Top.next] /\ Dep \in Ids /\ Dep \in ToSet(DepsOf(Top.id))
    BY <2>1, <2>2 DEF Dep, ToSet
  <2>4. Top.id \in Listed
    <3> SUFFICES ASSUME Top.id \notin Listed PROVE FALSE
      OBVIOUS
    <3> QED BY <2>3, DepsTypes
  <2>5. Dep \in Listed => Dep \in Graph[Top.id]
    BY <2>3, <2>4, DepsTypes
  <2> QED BY <2>3, <2>4, <2>5
<1> QED BY <1>1, <1>3, <1>4

(* The calls once the innermost has gone on to its next dependency. *)
LEMMA AdvancedIs ==
    ASSUME calls \in Seq(Calls), calls # <<>>
    PROVE  /\ Advanced \in Seq(Calls) /\ Len(Advanced) = Len(calls) /\ DOMAIN Advanced = DOMAIN calls
           /\ \A i \in DOMAIN calls :
                 /\ Advanced[i].id = calls[i].id
                 /\ Advanced[i].next = IF i = Len(calls) THEN calls[i].next + 1 ELSE calls[i].next
<1> DEFINE n == Len(calls)
<1>1. n \in Nat \ {0} /\ DOMAIN calls = 1..n /\ \A i \in 1..n : calls[i] \in Calls
  OBVIOUS
<1>2. Advanced = [i \in 1..n |-> IF i = n THEN [calls[i] EXCEPT !.next = @ + 1] ELSE calls[i]]
  BY <1>1 DEF Advanced
<1> HIDE DEF n
<1>3. ASSUME NEW c \in Calls
      PROVE  /\ [c EXCEPT !.next = @ + 1] \in Calls
             /\ [c EXCEPT !.next = @ + 1].id = c.id /\ [c EXCEPT !.next = @ + 1].next = c.next + 1
  BY DEF Calls
<1>4. \A i \in 1..n : Advanced[i] \in Calls
  BY <1>1, <1>2, <1>3
<1>5. Advanced \in [1..n -> Calls]
  BY <1>2, <1>4
<1>6. Advanced \in Seq(Calls) /\ Len(Advanced) = n /\ DOMAIN Advanced = 1..n
  BY <1>1, <1>5
<1>7. \A i \in 1..n : /\ Advanced[i].id = calls[i].id
                      /\ Advanced[i].next = IF i = n THEN calls[i].next + 1 ELSE calls[i].next
  BY <1>1, <1>2, <1>3
<1> QED BY <1>1, <1>6, <1>7 DEF n

(* A new call inside the others. *)
LEMMA CalledIs ==
    ASSUME NEW outer \in Seq(Calls), NEW id \in Ids
    PROVE  /\ Append(outer, CallOf(id)) \in Seq(Calls) /\ Len(outer) \in Nat
           /\ Len(Append(outer, CallOf(id))) = Len(outer) + 1
           /\ DOMAIN outer = 1..Len(outer) /\ DOMAIN Append(outer, CallOf(id)) = 1..(Len(outer) + 1)
           /\ \A i \in 1..Len(outer) : Append(outer, CallOf(id))[i] = outer[i]
           /\ Append(outer, CallOf(id))[Len(outer) + 1].id = id
           /\ Append(outer, CallOf(id))[Len(outer) + 1].next = 1
<1>1. CallOf(id) \in Calls /\ CallOf(id).id = id /\ CallOf(id).next = 1
  BY DEF CallOf, Calls
<1> HIDE DEF CallOf
<1> QED BY <1>1, AppendProperties

(* canReach goes into a dependency it has not visited, and past one it has. *)
LEMMA ReachGoesOn ==
    ASSUME links \in [Listed -> Links], Asking, From \in Listed, ReachSearch, ReachDeeper \/ ReachPast
    PROVE  ReachSearch'
<1>1. /\ UNCHANGED <<links, question>> /\ calls # <<>> /\ Top.next <= Len(DepsOf(Top.id)) /\ Dep # To
      /\ visited' = visited \cup {Dep}
      /\ calls' = Advanced \/ calls' = Append(Advanced, CallOf(Dep))
      /\ Dep \in visited => calls' = Advanced
      /\ Dep \notin visited => calls' = Append(Advanced, CallOf(Dep))
  BY DEF ReachDeeper, ReachPast, More, sortVars, askVars, To
<1>2. Graph' = Graph /\ From' = From /\ To' = To /\ \A id : DepsOf(id)' = DepsOf(id)
  BY <1>1 DEF Graph, From, To, DepsOf
<1>3. /\ calls \in Seq(Calls) /\ visited \subseteq Ids /\ From \in visited /\ To \notin visited
      /\ \A f \in visited \cap Listed : f = From \/ Reaches(Graph, From, f)
      /\ \A i \in DOMAIN calls : calls[i].id \in visited
  BY DEF ReachSearch
<1> DEFINE n == Len(calls)
           x == Top.id
<1>4. /\ n \in Nat \ {0} /\ DOMAIN calls = 1..n /\ Top = calls[n] /\ Top.next \in Nat \ {0}
      /\ Dep = DepsOf(x)[Top.next] /\ Dep \in Ids /\ x \in Listed
      /\ Dep \in Listed => Dep \in Graph[x]
  BY <1>1, <1>3, TopOf
<1>5. /\ Advanced \in Seq(Calls) /\ Len(Advanced) = n /\ DOMAIN Advanced = 1..n
      /\ \A i \in 1..n : /\ Advanced[i].id = calls[i].id
                         /\ Advanced[i].next = IF i = n THEN calls[i].next + 1 ELSE calls[i].next
  BY <1>1, <1>3, <1>4, AdvancedIs
<1> HIDE DEF n, Top, Dep, Advanced, Asking
<1>6. /\ calls' \in Seq(Calls) /\ (DOMAIN calls' = 1..n \/ DOMAIN calls' = 1..(n + 1))
      /\ \A i \in 1..n : i \in DOMAIN calls' /\ calls'[i] = Advanced[i]
      /\ n + 1 \in DOMAIN calls' => calls'[n + 1].id = Dep /\ calls'[n + 1].next = 1
      /\ Dep \notin visited => n + 1 \in DOMAIN calls'
  <2>1. CASE calls' = Advanced /\ Dep \in visited
    <3>1. n + 1 \notin DOMAIN calls'
      BY <1>4, <1>5, <2>1
    <3> QED BY <1>5, <2>1, <3>1
  <2>2. CASE calls' = Append(Advanced, CallOf(Dep)) /\ Dep \notin visited
    <3>1. /\ calls' \in Seq(Calls) /\ DOMAIN calls' = 1..(n + 1)
          /\ \A i \in 1..n : calls'[i] = Advanced[i]
          /\ calls'[n + 1].id = Dep /\ calls'[n + 1].next = 1
      BY <1>4, <1>5, <2>2, CalledIs
    <3> QED BY <1>4, <3>1
  <2> QED BY <1>1, <2>1, <2>2
<1>7. visited' \subseteq Ids /\ From \in visited' /\ To \notin visited'
  BY <1>1, <1>3, <1>4
<1>8. ASSUME NEW f \in visited' \cap Listed PROVE f = From \/ Reaches(Graph, From, f)
  <2>1. CASE f \in visited
    BY <1>3, <2>1
  <2>2. CASE f = Dep
    <3>1. Dep \in Graph[x] /\ x \in visited /\ x \in Listed /\ Graph \in [Listed -> SUBSET Listed]
      <4>1. calls[n].id \in visited
        BY <1>3, <1>4
      <4>2. x \in visited
        BY <1>4, <4>1
      <4> QED BY <1>4, <2>2, <4>2, GraphTypes
    <3>2. x = From \/ Reaches(Graph, From, x)
      BY <1>3, <3>1
    <3>3. Dep \in Graph[x] \cap DOMAIN Graph /\ x \in DOMAIN Graph
      BY <3>1
    <3> QED BY <2>2, <3>2, <3>3 DEF Reaches, Closed
  <2> QED BY <1>1, <2>1, <2>2
<1>9. ASSUME NEW i \in DOMAIN calls'
      PROVE  /\ calls'[i].id \in visited'
             /\ \A k \in 1..(calls'[i].next - 1) :
                    k \in DOMAIN DepsOf(calls'[i].id) => DepsOf(calls'[i].id)[k] \in visited'
  <2>1. CASE i = n + 1
    <3>1. calls'[i].id = Dep /\ calls'[i].next = 1
      BY <1>6, <2>1
    <3> QED BY <1>1, <3>1
  <2>2. CASE i # n + 1
    <3>1. i \in 1..n
      BY <1>4, <1>6, <2>2
    <3>2. /\ calls[i].id \in visited /\ calls[i].next \in Nat
          /\ \A k \in 1..(calls[i].next - 1) :
                 k \in DOMAIN DepsOf(calls[i].id) => DepsOf(calls[i].id)[k] \in visited
      <4>1. calls[i] \in Calls
        BY <1>3, <1>4, <3>1
      <4> QED BY <1>4, <3>1, <4>1 DEF ReachSearch, Calls
    <3>3. /\ calls'[i].id = calls[i].id
          /\ calls'[i].next = IF i = n THEN calls[i].next + 1 ELSE calls[i].next
      BY <1>5, <1>6, <3>1
    <3>4. CASE i # n
      BY <1>1, <3>2, <3>3, <3>4
    <3>5. CASE i = n
      <4>1. calls[i] = Top /\ calls'[i].id = x /\ calls'[i].next = Top.next + 1
        BY <1>4, <3>3, <3>5
      <4>2. ASSUME NEW k \in 1..Top.next, k \in DOMAIN DepsOf(x) PROVE DepsOf(x)[k] \in visited'
        <5>1. CASE k = Top.next
          BY <1>1, <1>4, <5>1
        <5>2. CASE k # Top.next
          <6>1. k \in 1..(Top.next - 1)
            BY <1>4, <5>2
          <6> QED BY <1>1, <3>2, <4>1, <4>2, <6>1
        <5> QED BY <5>1, <5>2
      <4> QED BY <1>1, <1>4, <3>2, <3>3, <4>1, <4>2
    <3> QED BY <3>4, <3>5
  <2> QED BY <2>1, <2>2
<1>10. ASSUME NEW f \in visited'
       PROVE  ToSet(DepsOf(f)) \subseteq visited' \/ \E i \in DOMAIN calls' : calls'[i].id = f
  <2>1. CASE f \in visited
    <3>1. ToSet(DepsOf(f)) \subseteq visited \/ \E i \in 1..n : calls[i].id = f
      BY <1>4, <2>1 DEF ReachSearch
    <3> QED BY <1>1, <1>5, <1>6, <3>1
  <2>2. CASE f = Dep /\ Dep \notin visited
    BY <1>6, <2>2
  <2> QED BY <1>1, <2>1, <2>2
<1> QED BY <1>2, <1>6, <1>7, <1>8, <1>9, <1>10 DEF ReachSearch

(* A call of canReach returns when it has looked at all dependencies of its id. *)
LEMMA ReachComesBack ==
    ASSUME links \in [Listed -> Links], ReachSearch, ReachReturns
    PROVE  ReachSearch'
<1>1. UNCHANGED <<links, question, visited>> /\ calls # <<>> /\ ~More /\ calls' = Front(calls)
  BY DEF ReachReturns, sortVars, askVars
<1>2. Graph' = Graph /\ From' = From /\ To' = To /\ \A id : DepsOf(id)' = DepsOf(id)
  BY <1>1 DEF Graph, From, To, DepsOf
<1>3. calls \in Seq(Calls)
  BY DEF ReachSearch
<1> DEFINE n == Len(calls)
           x == Top.id
<1>4. /\ n \in Nat \ {0} /\ DOMAIN calls = 1..n /\ Top = calls[n] /\ x \in Ids /\ Top.next \in Nat \ {0}
      /\ ~(Top.next <= Len(DepsOf(x)))
  BY <1>1, <1>3, TopOf DEF More
<1>5. calls' \in Seq(Calls) /\ DOMAIN calls' = 1..(n - 1) /\ \A i \in 1..(n - 1) : calls'[i] = calls[i]
  BY <1>1, <1>3, FrontOf
<1> HIDE DEF n, Top
<1>6. ToSet(DepsOf(x)) \subseteq visited
  <2>1. Len(DepsOf(x)) \in Nat /\ DOMAIN DepsOf(x) = 1..Len(DepsOf(x))
    BY <1>4, DepsTypes
  <2>2. \A k \in 1..(Top.next - 1) : k \in DOMAIN DepsOf(x) => DepsOf(x)[k] \in visited
    BY <1>4 DEF ReachSearch
  <2>3. \A k \in DOMAIN DepsOf(x) : k \in 1..(Top.next - 1)
    BY <1>4, <2>1
  <2> QED BY <2>2, <2>3 DEF ToSet
<1>7. ASSUME NEW f \in visited
      PROVE  ToSet(DepsOf(f)) \subseteq visited \/ \E i \in DOMAIN calls' : calls'[i].id = f
  <2>1. ToSet(DepsOf(f)) \subseteq visited \/ \E i \in DOMAIN calls : calls[i].id = f
    BY DEF ReachSearch
  <2>2. ASSUME NEW i \in 1..n, calls[i].id = f PROVE f = x \/ i \in 1..(n - 1)
    BY <1>4, <2>2
  <2> QED BY <1>4, <1>5, <1>6, <2>1, <2>2
<1>8. \A i \in DOMAIN calls' : i \in DOMAIN calls /\ calls'[i] = calls[i]
  BY <1>4, <1>5
<1>9. /\ \A i \in DOMAIN calls' :
           /\ calls'[i].id \in visited
           /\ \A k \in 1..(calls'[i].next - 1) :
                  k \in DOMAIN DepsOf(calls'[i].id) => DepsOf(calls'[i].id)[k] \in visited
  BY <1>8 DEF ReachSearch
<1> QED BY <1>1, <1>2, <1>5, <1>7, <1>9 DEF ReachSearch

(* Nothing of AskInv matters before the question. *)
LEMMA NoQuestion ==
    ASSUME question' = <<>>, sorted' => calls' = <<>>
    PROVE  AskInv'
BY DEF AskInv, Asking

(* The question, and the first call of canReach. *)
LEMMA AskStarts ==
    ASSUME links \in [Listed -> Links], AskInv, NEW from \in Listed, NEW to \in Listed, Ask(from, to)
    PROVE  AskInv'
<1>1. /\ sorted /\ ~Counting /\ question = <<>> /\ question' = <<from, to>> /\ reached' = (from = to)
      /\ UNCHANGED <<links, sorted, impact>>
  BY DEF Ask, Asking, sortVars, impactVars
<1>2. calls = <<>> /\ From' = from /\ To' = to /\ Counting' = Counting /\ Asking'
  BY <1>1 DEF AskInv, From, To, Counting, Asking
<1>3. Graph' = Graph /\ \A id : DepsOf(id)' = DepsOf(id)
  BY <1>1 DEF Graph, DepsOf
<1>4. CASE from = to
  <2>1. calls' = <<>> /\ reached'
    BY <1>1, <1>2, <1>4 DEF Ask
  <2>2. ClosesCycle(Graph, To, {From})'
    BY <1>2, <1>3, <1>4 DEF ClosesCycle
  <2> QED BY <1>1, <1>2, <2>1, <2>2 DEF AskInv
<1>5. CASE from # to
  <2>1. calls' = <<CallOf(from)>> /\ visited' = {from} /\ ~reached'
    BY <1>1, <1>5 DEF Ask
  <2>2. from \in Ids
    BY DEF Ids
  <2>3. /\ calls' \in Seq(Calls) /\ DOMAIN calls' = {1}
        /\ calls'[1].id = from /\ calls'[1].next = 1
    <3>1. CallOf(from) \in Calls /\ CallOf(from).id = from /\ CallOf(from).next = 1
      BY <2>2 DEF CallOf, Calls
    <3> HIDE DEF CallOf
    <3> QED BY <2>1, <3>1
  <2>4. ReachSearch'
    BY <1>2, <1>3, <1>5, <2>1, <2>2, <2>3 DEF ReachSearch
  <2> QED BY <1>1, <1>2, <2>1, <2>4 DEF AskInv
<1> QED BY <1>4, <1>5

(* A step of canReach; when it finds the feature, a chain of dependencies leads there. *)
LEMMA ReachSteps ==
    ASSUME links \in [Listed -> Links], AskInv, CanReach
    PROVE  AskInv'
<1>1. Asking /\ calls # <<>> /\ UNCHANGED <<links, sorted, impact, question>>
  BY DEF CanReach, ReachFinds, ReachDeeper, ReachPast, ReachReturns, More, sortVars, impactVars, askVars
<1>2. sorted /\ ~Counting /\ ~reached /\ From \in Listed /\ To \in Listed /\ ReachSearch
  BY <1>1 DEF AskInv, Asking
<1>3. /\ Counting' = Counting /\ Asking' = Asking /\ From' = From /\ To' = To /\ Graph' = Graph
  BY <1>1 DEF Counting, Asking, From, To, Graph
<1>4. CASE ReachDeeper \/ ReachPast \/ ReachReturns
  <2>1. reached' = reached
    BY <1>4 DEF ReachDeeper, ReachPast, ReachReturns, askVars
  <2>2. ReachSearch'
    BY <1>1, <1>2, <1>4, ReachGoesOn, ReachComesBack
  <2> QED BY <1>1, <1>2, <1>3, <2>1, <2>2 DEF AskInv, Asking
<1>5. CASE ReachFinds
  <2>1. Top.next <= Len(DepsOf(Top.id)) /\ Dep = To /\ reached' /\ calls' = <<>>
    BY <1>5 DEF ReachFinds, More, To
  <2>2. calls \in Seq(Calls) /\ \A f \in visited \cap Listed : f = From \/ Reaches(Graph, From, f)
    BY <1>2 DEF ReachSearch
  <2>3. Top.id \in Listed /\ To \in Graph[Top.id]
    BY <1>1, <1>2, <2>1, <2>2, TopOf
  <2>4. Top.id \in visited
    <3>1. Len(calls) \in DOMAIN calls /\ Top = calls[Len(calls)]
      BY <1>1, <2>2, TopOf
    <3> QED BY <1>2, <3>1 DEF ReachSearch
  <2>5. Top.id = From \/ Reaches(Graph, From, Top.id)
    BY <2>2, <2>3, <2>4
  <2> HIDE DEF Top
  <2>6. Reaches(Graph, From, To)
    <3>1. Graph \in [Listed -> SUBSET Listed]
      BY GraphTypes
    <3> QED BY <1>2, <2>3, <2>5, <3>1 DEF Reaches, Closed
  <2>7. ClosesCycle(Graph, To, {From})
    BY <1>2, <2>6, GraphTypes DEF ClosesCycle
  <2> QED BY <1>1, <1>2, <1>3, <2>1, <2>7 DEF AskInv, Asking
<1> QED BY <1>4, <1>5 DEF CanReach

(* When all calls have returned and the feature is not found, no chain leads there: what has *)
(* been visited is closed.                                                                       *)
LEMMA ReachedAll ==
    ASSUME links \in [Listed -> Links], ReachSearch, calls = <<>>, From \in Listed, To \in Listed
    PROVE  ~ClosesCycle(Graph, To, {From})
<1> DEFINE S == visited \cap Listed
<1>1. \A f \in visited : ToSet(DepsOf(f)) \subseteq visited
  BY DEF ReachSearch
<1>2. Graph \in [Listed -> SUBSET Listed] /\ \A f \in Listed : Graph[f] = ToSet(DepsOf(f)) \cap Listed
  BY DepsTypes
<1>3. From \in S /\ To \notin S
  BY DEF ReachSearch
<1>4. Closed(Graph, S) /\ S \in SUBSET DOMAIN Graph
  BY <1>1, <1>2 DEF Closed
<1> HIDE DEF S
<1>5. ~Reaches(Graph, From, To)
  BY <1>3, <1>4, ClosedHolds
<1> QED BY <1>3, <1>5 DEF ClosesCycle

(* The answers of canReach, from step to step. *)
LEMMA AskSteps ==
    ASSUME ResolverInv, AskInv, [ResolverNext]_resolverVars
    PROVE  AskInv'
<1>1. links \in [Listed -> Links]
  BY DEF ResolverInv, ResolverTypes
<1>2. CASE Process
  <2>1. ~sorted /\ UNCHANGED <<sorted, question>>
    BY <1>2 DEF Process, askVars, ResolverInv, Counted
  <2> QED BY <2>1, NoQuestion DEF AskInv
<1>3. CASE DetectCycles
  <2>1. ~sorted /\ UNCHANGED <<sorted, question>>
    BY <1>3 DEF DetectCycles, DfsFirst, DfsDeeper, DfsPast, DfsCycle, DfsReturns, Enter, Searching, sortVars, askVars
  <2> QED BY <2>1, NoQuestion DEF AskInv
<1>4. CASE Finish
  <2>1. ~sorted /\ calls = <<>> /\ UNCHANGED <<calls, question>>
    BY <1>4 DEF Finish, Searching, askVars
  <2> QED BY <2>1, NoQuestion DEF AskInv
<1>5. CASE Visit \/ Count
  <2>1. Counting /\ UNCHANGED <<calls, question>>
    BY <1>5 DEF Visit, Count, askVars
  <2> QED BY <2>1, NoQuestion DEF AskInv, Counting
<1>6. CASE \E from, to \in Listed : Ask(from, to)
  BY <1>1, <1>6, AskStarts
<1>7. CASE CanReach
  BY <1>1, <1>7, ReachSteps
<1>8. CASE UNCHANGED resolverVars
  <2>1. UNCHANGED <<links, sorted, impact, question, reached, calls, visited>>
    BY <1>8 DEF resolverVars, sortVars, impactVars, askVars
  <2>2. /\ Counting' = Counting /\ Asking' = Asking /\ From' = From /\ To' = To /\ Graph' = Graph
        /\ \A id : DepsOf(id)' = DepsOf(id)
    BY <2>1 DEF Counting, Asking, From, To, Graph, DepsOf
  <2>3. ReachSearch' <=> ReachSearch
    BY <2>1, <2>2 DEF ReachSearch
  <2> QED BY <2>1, <2>2, <2>3 DEF AskInv
<1> QED BY <1>2, <1>3, <1>4, <1>5, <1>6, <1>7, <1>8 DEF ResolverNext

(* A path with one more id behind it. *)
LEMMA PathAppended ==
    ASSUME NEW S, NEW p \in Seq(S), IsInjective(p), NEW e \in S, e \notin ToSet(p)
    PROVE  /\ Append(p, e) \in Seq(S) /\ IsInjective(Append(p, e)) /\ Len(Append(p, e)) = Len(p) + 1
           /\ ToSet(Append(p, e)) = ToSet(p) \cup {e} /\ Append(p, e)[Len(p) + 1] = e
           /\ \A i \in 1..Len(p) : Append(p, e)[i] = p[i]
<1>1. Append(p, e) \in Seq(S) /\ IsInjective(Append(p, e)) /\ ToSet(Append(p, e)) = ToSet(p) \cup {e}
  BY Appended
<1>2. Len(Append(p, e)) = Len(p) + 1 /\ \A i \in 1..Len(p) : Append(p, e)[i] = p[i]
  BY AppendProperties
<1>3. Append(p, e)[Len(p) + 1] = e
  BY AppendProperties
<1> QED BY <1>1, <1>2, <1>3

(* A path without its last id. *)
LEMMA PathFront ==
    ASSUME NEW S, NEW p \in Seq(S), IsInjective(p), p # <<>>
    PROVE  /\ Front(p) \in Seq(S) /\ IsInjective(Front(p)) /\ Len(Front(p)) = Len(p) - 1
           /\ ToSet(Front(p)) = ToSet(p) \ {p[Len(p)]}
           /\ \A i \in 1..(Len(p) - 1) : Front(p)[i] = p[i]
<1> DEFINE n == Len(p)
           q == Front(p)
<1>1. /\ q \in Seq(S) /\ Len(q) = n - 1 /\ n \in Nat \ {0} /\ DOMAIN p = 1..n /\ DOMAIN q = 1..(n - 1)
      /\ \A i \in 1..(n - 1) : q[i] = p[i]
  BY FrontOf
<1>2. n \in 1..n /\ (\A i \in 1..(n - 1) : i \in 1..n /\ i # n) /\ \A i \in 1..n : i = n \/ i \in 1..(n - 1)
  BY <1>1
<1> HIDE DEF n, q
<1>3. \A i, j \in 1..n : p[i] = p[j] => i = j
  BY <1>1 DEF IsInjective
<1>4. IsInjective(q)
  BY <1>1, <1>2, <1>3 DEF IsInjective
<1>5. ToSet(q) = ToSet(p) \ {p[n]}
  BY <1>1, <1>2, <1>3 DEF ToSet
<1> QED BY <1>1, <1>4, <1>5 DEF n, q

(* dfs goes into an id: the path and the calls grow together. *)
LEMMA PathGrows ==
    ASSUME PathIsStack, NEW outer, outer = <<>> \/ (calls # <<>> /\ outer = Advanced),
           NEW id \in Ids \ visited, Enter(outer, id)
    PROVE  /\ PathIsStack' /\ Len(outer) \in Nat /\ outer \in Seq(Calls)
           /\ Len(calls') = Len(outer) + 1 /\ Len(currentPath') = Len(currentPath) + 1
           /\ DOMAIN calls' = 1..(Len(outer) + 1) /\ \A i \in 1..Len(outer) : calls'[i] = outer[i]
           /\ calls'[Len(outer) + 1].id = id /\ calls'[Len(outer) + 1].next = 1
<1> DEFINE n == Len(calls)
           m == Len(currentPath)
           o == Len(outer)
<1>1. /\ calls' = Append(outer, CallOf(id)) /\ visited' = visited \cup {id}
      /\ recursionStack' = recursionStack \cup {id} /\ currentPath' = Append(currentPath, id)
      /\ cycles' = cycles
  BY DEF Enter
<1>2. /\ calls \in Seq(Calls) /\ currentPath \in Seq(Ids) /\ cycles \in Seq(Seq(Ids))
      /\ visited \subseteq Ids /\ recursionStack \subseteq visited
      /\ IsInjective(currentPath) /\ ToSet(currentPath) = recursionStack
      /\ n <= m /\ \A i \in DOMAIN calls : calls[i].id = currentPath[(m - n) + i]
  BY DEF PathIsStack
<1>3. m \in Nat /\ n \in Nat /\ DOMAIN calls = 1..n
  BY <1>2
<1>4. /\ currentPath' \in Seq(Ids) /\ IsInjective(currentPath') /\ Len(currentPath') = m + 1
      /\ ToSet(currentPath') = recursionStack' /\ currentPath'[m + 1] = id
      /\ \A i \in 1..m : currentPath'[i] = currentPath[i]
  <2>1. id \in Ids /\ id \notin ToSet(currentPath)
    BY <1>2
  <2> QED BY <1>1, <1>2, <2>1, PathAppended
<1>5. /\ outer \in Seq(Calls) /\ o \in Nat /\ o <= m
      /\ \A i \in 1..o : outer[i].id = currentPath[(m - o) + i]
  <2>1. CASE outer = <<>>
    BY <1>3, <2>1
  <2>2. CASE calls # <<>> /\ outer = Advanced
    <3>1. /\ outer \in Seq(Calls) /\ o = n
          /\ \A i \in 1..n : outer[i].id = calls[i].id
      BY <1>2, <1>3, <2>2, AdvancedIs
    <3> QED BY <1>2, <1>3, <3>1
  <2> QED BY <2>1, <2>2
<1>6. /\ calls' \in Seq(Calls) /\ Len(calls') = o + 1 /\ DOMAIN calls' = 1..(o + 1)
      /\ \A i \in 1..o : calls'[i] = outer[i]
      /\ calls'[o + 1].id = id /\ calls'[o + 1].next = 1
  BY <1>1, <1>5, CalledIs
<1> HIDE DEF n, m, o
<1>7. ASSUME NEW i \in 1..(o + 1)
      PROVE  calls'[i].id = currentPath'[((m + 1) - (o + 1)) + i]
  <2>1. CASE i = o + 1
    BY <1>3, <1>4, <1>5, <1>6, <2>1
  <2>2. CASE i # o + 1
    <3>1. i \in 1..o /\ (m - o) + i \in 1..m /\ ((m + 1) - (o + 1)) + i = (m - o) + i
      BY <1>3, <1>5, <2>2
    <3> QED BY <1>4, <1>5, <1>6, <3>1
  <2> QED BY <2>1, <2>2
<1>8. visited' \subseteq Ids /\ recursionStack' \subseteq visited' /\ o + 1 <= m + 1
  BY <1>1, <1>2, <1>3, <1>5
<1>9. PathIsStack'
  BY <1>1, <1>2, <1>4, <1>6, <1>7, <1>8 DEF PathIsStack
<1> QED BY <1>4, <1>5, <1>6, <1>9 DEF o, m

(* dfs returns from an id that leads to no cycle. *)
LEMMA PathShrinks ==
    ASSUME PathIsStack, DfsReturns
    PROVE  /\ PathIsStack' /\ Len(calls) \in Nat \ {0} /\ Len(calls') = Len(calls) - 1
           /\ Len(currentPath') = Len(currentPath) - 1
           /\ DOMAIN calls = 1..Len(calls) /\ DOMAIN calls' = 1..(Len(calls) - 1)
           /\ \A i \in 1..(Len(calls) - 1) : calls'[i] = calls[i]
           /\ Top = calls[Len(calls)] /\ Top.id \in recursionStack
<1> DEFINE n == Len(calls)
           m == Len(currentPath)
<1>1. /\ calls # <<>> /\ calls' = Front(calls) /\ currentPath' = Front(currentPath)
      /\ recursionStack' = recursionStack \ {Top.id} /\ UNCHANGED <<visited, cycles>>
  BY DEF DfsReturns
<1>2. /\ calls \in Seq(Calls) /\ currentPath \in Seq(Ids) /\ cycles \in Seq(Seq(Ids))
      /\ visited \subseteq Ids /\ recursionStack \subseteq visited
      /\ IsInjective(currentPath) /\ ToSet(currentPath) = recursionStack
      /\ n <= m /\ \A i \in DOMAIN calls : calls[i].id = currentPath[(m - n) + i]
  BY DEF PathIsStack
<1>3. /\ n \in Nat \ {0} /\ DOMAIN calls = 1..n /\ calls' \in Seq(Calls)
      /\ Len(calls') = n - 1 /\ DOMAIN calls' = 1..(n - 1) /\ \A i \in 1..(n - 1) : calls'[i] = calls[i]
  BY <1>1, <1>2, FrontOf
<1>4. m \in Nat /\ m # 0 /\ DOMAIN currentPath = 1..m
  BY <1>2, <1>3
<1>5. Top = calls[n]
  BY DEF Top
<1>6. /\ currentPath' \in Seq(Ids) /\ IsInjective(currentPath') /\ Len(currentPath') = m - 1
      /\ ToSet(currentPath') = ToSet(currentPath) \ {currentPath[m]}
      /\ \A i \in 1..(m - 1) : currentPath'[i] = currentPath[i]
  <2>1. currentPath # <<>>
    BY <1>4
  <2> QED BY <1>1, <1>2, <2>1, PathFront
<1> HIDE DEF n, m, Top
<1>7. Top.id = currentPath[m] /\ m \in DOMAIN currentPath
  <2>1. n \in DOMAIN calls /\ (m - n) + n = m
    BY <1>3, <1>4
  <2> QED BY <1>2, <1>4, <1>5, <2>1
<1>8. ToSet(currentPath') = recursionStack' /\ Top.id \in recursionStack
  BY <1>1, <1>2, <1>6, <1>7 DEF ToSet
<1>9. ASSUME NEW i \in 1..(n - 1) PROVE calls'[i].id = currentPath'[((m - 1) - (n - 1)) + i]
  <2>1. i \in 1..n /\ (m - n) + i \in 1..(m - 1) /\ ((m - 1) - (n - 1)) + i = (m - n) + i
    BY <1>2, <1>3, <1>4
  <2> QED BY <1>2, <1>3, <1>6, <2>1
<1>10. n - 1 <= m - 1
  BY <1>2, <1>3, <1>4
<1>11. PathIsStack'
  BY <1>1, <1>2, <1>3, <1>6, <1>8, <1>9, <1>10 DEF PathIsStack
<1> QED BY <1>3, <1>5, <1>6, <1>8, <1>11 DEF n, m

(* A feature reaches what those it reaches depend on. *)
LEMMA ReachesNext ==
    ASSUME NEW f \in Listed, NEW g \in Listed, f = g \/ Reaches(Graph, f, g), NEW h \in Graph[g],
           Graph \in [Listed -> SUBSET Listed]
    PROVE  Reaches(Graph, f, h)
BY DEF Reaches, Closed

(* What detectCycles knows of the calls stays true when the innermost goes on, past an explored *)
(* dependency or into one, or when the first call is made.                                        *)
LEMMA CallsGoOn ==
    ASSUME links \in [Listed -> Links], UNCHANGED links, calls \in Seq(Calls), CallsLooked,
           Explored' = Explored, calls' \in Seq(Calls), Len(currentPath') = Len(calls'),
           NEW n, n = Len(calls), Len(calls') \in {n, n + 1},
           \A i \in 1..n : /\ calls'[i].id = calls[i].id
                           /\ calls'[i].next = IF i = n THEN calls[i].next + 1 ELSE calls[i].next,
           Len(calls') = n + 1 => calls'[n + 1].next = 1 /\ calls'[n + 1].id \in Ids,
           n # 0 => More /\ IF Len(calls') = n + 1 THEN calls'[n + 1].id = Dep ELSE Dep \in Explored
    PROVE  CallsLooked'
<1> DEFINE o == Len(calls')
<1>1. n \in Nat /\ DOMAIN calls = 1..n /\ DOMAIN calls' = 1..o /\ o \in {n, n + 1}
  OBVIOUS
<1>2. Graph' = Graph /\ \A id : DepsOf(id)' = DepsOf(id)
  BY DEF Graph, DepsOf
<1>3. \A id \in Ids : Len(DepsOf(id)) \in Nat /\ DOMAIN DepsOf(id) = 1..Len(DepsOf(id))
  BY DepsTypes
<1>4. \A i \in 1..n : calls[i].id \in Ids /\ calls[i].next \in Nat \ {0}
  <2>1. \A i \in 1..n : calls[i] \in Calls
    BY <1>1
  <2> QED BY <2>1 DEF Calls
<1>5. n # 0 => /\ n \in 1..n /\ Top = calls[n] /\ Top.next <= Len(DepsOf(Top.id))
               /\ Dep = DepsOf(Top.id)[Top.next] /\ Top.id \in Listed
               /\ Dep \in Listed => Dep \in Graph[Top.id]
  <2> SUFFICES ASSUME n # 0
               PROVE  /\ n \in 1..n /\ Top = calls[n] /\ Top.next <= Len(DepsOf(Top.id))
                      /\ Dep = DepsOf(Top.id)[Top.next] /\ Top.id \in Listed
                      /\ Dep \in Listed => Dep \in Graph[Top.id]
    OBVIOUS
  <2>1. calls # <<>> /\ Top.next <= Len(DepsOf(Top.id))
    BY DEF More
  <2>2. /\ Top = calls[n] /\ Dep = DepsOf(Top.id)[Top.next] /\ Top.id \in Listed
        /\ Dep \in Listed => Dep \in Graph[Top.id]
    BY <2>1, TopOf
  <2> QED BY <1>1, <2>1, <2>2
<1> HIDE DEF o, Top, Dep, More
<1>6. ASSUME NEW i \in 1..o PROVE calls'[i].next <= Len(DepsOf(calls'[i].id)) + 1
  <2>1. CASE i = n + 1
    BY <1>1, <1>3, <2>1 DEF o
  <2>2. CASE i \in 1..n
    <3>1. calls[i].next <= Len(DepsOf(calls[i].id)) + 1
      BY <1>1, <2>2 DEF CallsLooked
    <3> QED BY <1>1, <1>3, <1>4, <1>5, <2>2, <3>1
  <2> QED BY <1>1, <2>1, <2>2
<1>7. ASSUME NEW i \in 1..o, i + 1 \in 1..o
      PROVE  calls'[i].next >= 2 /\ DepsOf(calls'[i].id)[calls'[i].next - 1] = calls'[i + 1].id
  <2>1. CASE i = n
    <3>1. o = n + 1 /\ n # 0
      BY <1>1, <1>7, <2>1
    <3>2. calls'[n + 1].id = Dep
      BY <3>1 DEF o
    <3>3. calls'[n].next = Top.next + 1 /\ calls'[n].id = Top.id /\ Top.next \in Nat \ {0}
      BY <1>4, <1>5, <3>1
    <3> QED BY <1>5, <2>1, <3>1, <3>2, <3>3
  <2>2. CASE i \in 1..n /\ i + 1 \in 1..n
    <3>1. calls[i].next >= 2 /\ DepsOf(calls[i].id)[calls[i].next - 1] = calls[i + 1].id
      BY <1>1, <2>2 DEF CallsLooked
    <3>2. i # n
      BY <1>1, <2>2
    <3> QED BY <2>2, <3>1, <3>2
  <2> QED BY <1>1, <1>7, <2>1, <2>2
<1>8. ASSUME NEW i \in 1..o, NEW k \in 1..(calls'[i].next - 1)
      PROVE  DepsOf(calls'[i].id)[k] \in Explored \/ (i < o /\ k = calls'[i].next - 1)
  <2>1. CASE i = n + 1
    <3>1. calls'[i].next = 1
      BY <1>1, <2>1 DEF o
    <3> QED BY <3>1
  <2>2. CASE i \in 1..n /\ i # n
    <3>1. calls'[i].next = calls[i].next /\ calls'[i].id = calls[i].id
      BY <2>2
    <3>2. DepsOf(calls[i].id)[k] \in Explored \/ (i < n /\ k = calls[i].next - 1)
      BY <1>1, <2>2, <3>1 DEF CallsLooked
    <3> QED BY <1>1, <2>2, <3>1, <3>2
  <2>3. CASE i = n /\ n # 0
    <3>1. calls'[i].next = Top.next + 1 /\ calls'[i].id = Top.id /\ Top.next \in Nat \ {0}
      BY <1>4, <1>5, <2>3
    <3>2. CASE k = Top.next
      <4>1. o = n => Dep \in Explored
        BY <1>1, <2>3 DEF o
      <4> QED BY <1>1, <1>5, <2>3, <3>1, <3>2, <4>1
    <3>3. CASE k # Top.next
      <4>1. k \in 1..(calls[n].next - 1)
        BY <1>5, <2>3, <3>1, <3>3
      <4>2. DepsOf(calls[n].id)[k] \in Explored
        BY <1>1, <1>5, <2>3, <4>1 DEF CallsLooked
      <4> QED BY <1>5, <2>3, <3>1, <4>2
    <3> QED BY <3>2, <3>3
  <2> QED BY <1>1, <2>1, <2>2, <2>3
<1>9. ASSUME NEW i \in 1..o, NEW j \in 1..o, i < j, calls'[j].id \in Listed
      PROVE  calls'[i].id \in Listed /\ Reaches(Graph, calls'[i].id, calls'[j].id)
  <2>1. CASE j \in 1..n
    <3>1. i \in 1..n
      BY <1>1, <1>9, <2>1
    <3>2. calls[j].id \in Listed => calls[i].id \in Listed /\ Reaches(Graph, calls[i].id, calls[j].id)
      BY <1>1, <1>9, <2>1, <3>1 DEF CallsLooked
    <3> QED BY <1>9, <2>1, <3>1, <3>2
  <2>2. CASE j = n + 1
    <3>1. i \in 1..n /\ n # 0
      BY <1>1, <1>9, <2>2
    <3>2. o = n + 1
      BY <1>1, <2>2
    <3>3. calls'[j].id = Dep
      BY <2>2, <3>1, <3>2 DEF o
    <3>4. Dep \in Graph[Top.id] /\ Top.id \in Listed /\ Top = calls[n] /\ n \in 1..n
      BY <1>5, <1>9, <3>1, <3>3
    <3>5. calls[i].id \in Listed /\ (calls[i].id = Top.id \/ Reaches(Graph, calls[i].id, Top.id))
      <4>1. CASE i = n
        BY <3>4, <4>1
      <4>2. CASE i # n
        <5>1. i < n
          BY <1>1, <3>1, <4>2
        <5>2. calls[n].id \in Listed
          BY <3>4
        <5>3. calls[i].id \in Listed /\ Reaches(Graph, calls[i].id, calls[n].id)
          BY <1>1, <3>1, <3>4, <5>1, <5>2 DEF CallsLooked
        <5> QED BY <3>4, <5>3
      <4> QED BY <4>1, <4>2
    <3>6. Reaches(Graph, calls[i].id, Dep)
      BY <3>4, <3>5, ReachesNext, GraphTypes
    <3> QED BY <3>1, <3>3, <3>5, <3>6
  <2> QED BY <1>1, <2>1, <2>2
<1> QED BY <1>1, <1>2, <1>6, <1>7, <1>8, <1>9 DEF CallsLooked, o

(* A dependency on the stack has its place on the path, and what is from there to the end is *)
(* taken for a cycle.                                                                            *)
LEMMA CycleIs ==
    ASSUME PathIsStack, NEW id \in recursionStack
    PROVE  LET k == Index(currentPath, id)
               c == SubSeq(currentPath, k, Len(currentPath))
           IN  /\ Len(currentPath) \in Nat /\ k \in 1..Len(currentPath) /\ currentPath[k] = id
               /\ c \in Seq(Ids) /\ Len(c) = Len(currentPath) - k + 1 /\ DOMAIN c = 1..Len(c)
               /\ \A i \in 1..Len(c) : c[i] = currentPath[k + i - 1]
<1> DEFINE k == Index(currentPath, id)
           m == Len(currentPath)
           c == SubSeq(currentPath, k, m)
<1>1. /\ currentPath \in Seq(Ids) /\ m \in Nat /\ DOMAIN currentPath = 1..m
      /\ id \in ToSet(currentPath)
  BY DEF PathIsStack
<1>2. k \in 1..m /\ currentPath[k] = id
  BY <1>1 DEF Index, ToSet
<1> HIDE DEF k, m
<1>3. \A i \in k..m : currentPath[i] \in Ids
  BY <1>1, <1>2
<1>4. /\ SubSeq(currentPath, k, m) \in Seq(Ids)
      /\ Len(SubSeq(currentPath, k, m)) = IF k <= m THEN m - k + 1 ELSE 0
      /\ \A i \in 1..(m - k + 1) : SubSeq(currentPath, k, m)[i] = currentPath[k + i - 1]
  BY <1>1, <1>2, <1>3, SubSeqProperties
<1>5. Len(c) = m - k + 1 /\ DOMAIN c = 1..Len(c)
  BY <1>1, <1>2, <1>4
<1> QED BY <1>1, <1>2, <1>4, <1>5 DEF k, m

(* Every step of detectCycles keeps the calls at the end of the path. *)
LEMMA PathSteps ==
    ASSUME links \in [Listed -> Links], PathIsStack, DetectCycles
    PROVE  PathIsStack'
<1>1. calls \in Seq(Calls) /\ Len(calls) \in Nat /\ DOMAIN calls = 1..Len(calls)
  BY DEF PathIsStack
<1>2. CASE DfsFirst
  <2>1. PICK f \in Left : Enter(<<>>, f)
    BY <1>2 DEF DfsFirst
  <2>2. f \in Ids \ visited
    BY DEF Left, Ids
  <2> QED BY <2>1, <2>2, PathGrows
<1>3. CASE DfsDeeper
  <2>1. calls # <<>> /\ Top.next <= Len(DepsOf(Top.id)) /\ Dep \notin visited /\ Enter(Advanced, Dep)
    BY <1>3 DEF DfsDeeper, More
  <2>2. Dep \in Ids \ visited
    BY <1>1, <2>1, TopOf
  <2> HIDE DEF Dep, Advanced
  <2> QED BY <2>1, <2>2, PathGrows
<1>4. CASE DfsPast
  <2>1. calls # <<>> /\ calls' = Advanced /\ UNCHANGED <<visited, recursionStack, currentPath, cycles>>
    BY <1>4 DEF DfsPast, More, cycleVars
  <2>2. /\ Advanced \in Seq(Calls) /\ Len(Advanced) = Len(calls) /\ DOMAIN Advanced = DOMAIN calls
        /\ \A i \in DOMAIN calls : Advanced[i].id = calls[i].id
    BY <1>1, <2>1, AdvancedIs
  <2> HIDE DEF Advanced
  <2> QED BY <2>1, <2>2 DEF PathIsStack
<1>5. CASE DfsCycle
  <2>1. /\ Dep \in recursionStack /\ calls' = <<>> /\ UNCHANGED <<visited, recursionStack, currentPath>>
        /\ cycles' = Append(cycles, SubSeq(currentPath, Index(currentPath, Dep), Len(currentPath)))
    BY <1>5 DEF DfsCycle
  <2> HIDE DEF Dep
  <2>2. SubSeq(currentPath, Index(currentPath, Dep), Len(currentPath)) \in Seq(Ids)
    BY <2>1, CycleIs
  <2>3. cycles' \in Seq(Seq(Ids))
    BY <2>1, <2>2, AppendProperties DEF PathIsStack
  <2>4. calls' \in Seq(Calls) /\ DOMAIN calls' = {} /\ Len(calls') = 0
    BY <2>1
  <2>5. 0 <= Len(currentPath)
    BY <1>1 DEF PathIsStack
  <2> QED BY <2>1, <2>3, <2>4, <2>5 DEF PathIsStack
<1>6. CASE DfsReturns
  BY <1>6, PathShrinks
<1> QED BY <1>2, <1>3, <1>4, <1>5, <1>6 DEF DetectCycles

(* As long as no cycle is found: dfs goes into an id or past one. *)
LEMMA DfsGoesOn ==
    ASSUME links \in [Listed -> Links], PathIsStack, CallsLooked, ExploredStand,
           DfsFirst \/ DfsDeeper \/ DfsPast
    PROVE  CallsLooked' /\ ExploredStand'
<1> DEFINE n == Len(calls)
<1>1. calls \in Seq(Calls) /\ n \in Nat /\ Len(currentPath) = n /\ visited \subseteq Ids
  BY DEF PathIsStack, CallsLooked
<1>2. UNCHANGED <<links, cycles>>
  BY DEF DfsFirst, DfsDeeper, DfsPast, Enter, sortVars, cycleVars
<1>3. Graph' = Graph /\ \A id : DepsOf(id)' = DepsOf(id)
  BY <1>2 DEF Graph, DepsOf
<1>4. Explored' = Explored => ExploredStand'
  BY <1>3 DEF ExploredStand
<1>5. ASSUME NEW outer, outer = <<>> \/ (calls # <<>> /\ outer = Advanced), Len(outer) = n,
             \A i \in 1..n : /\ outer[i].id = calls[i].id
                             /\ outer[i].next = IF i = n THEN calls[i].next + 1 ELSE calls[i].next,
             NEW id \in Ids \ visited, Enter(outer, id), n # 0 => More /\ id = Dep
      PROVE  CallsLooked' /\ ExploredStand'
  <2>1. /\ PathIsStack' /\ Len(calls') = n + 1 /\ Len(currentPath') = n + 1
        /\ \A i \in 1..n : calls'[i] = outer[i]
        /\ calls'[n + 1].id = id /\ calls'[n + 1].next = 1
    BY <1>1, <1>5, PathGrows
  <2>2. Explored' = Explored
    BY <1>5 DEF Enter, Explored, PathIsStack
  <2>3. calls' \in Seq(Calls)
    BY <2>1 DEF PathIsStack
  <2>4. /\ Len(calls') = n + 1 => calls'[n + 1].next = 1 /\ calls'[n + 1].id \in Ids
        /\ n # 0 => More /\ IF Len(calls') = n + 1 THEN calls'[n + 1].id = Dep ELSE Dep \in Explored
        /\ Len(calls') \in {n, n + 1} /\ Len(currentPath') = Len(calls')
    BY <1>5, <2>1
  <2>5. \A i \in 1..n : /\ calls'[i].id = calls[i].id
                        /\ calls'[i].next = IF i = n THEN calls[i].next + 1 ELSE calls[i].next
    BY <1>5, <2>1
  <2> HIDE DEF n
  <2>6. n = Len(calls)
    BY DEF n
  <2>7. CallsLooked'
    BY <1>1, <1>2, <2>2, <2>3, <2>4, <2>5, <2>6, CallsGoOn
  <2> QED BY <1>4, <2>2, <2>7
<1>6. CASE DfsFirst
  <2>1. PICK f \in Left : Enter(<<>>, f)
    BY <1>6 DEF DfsFirst
  <2>2. calls = <<>> /\ n = 0 /\ f \in Ids \ visited /\ Len(<<>>) = n
    BY <1>6 DEF DfsFirst, Left, Ids
  <2> HIDE DEF n
  <2>3. 1..n = {}
    BY <2>2
  <2> QED BY <1>5, <2>1, <2>2, <2>3
<1>7. CASE DfsDeeper
  <2>1. calls # <<>> /\ More /\ Top.next <= Len(DepsOf(Top.id)) /\ Dep \notin visited /\ Enter(Advanced, Dep)
    BY <1>7 DEF DfsDeeper, More
  <2>2. Dep \in Ids /\ DOMAIN calls = 1..n
    BY <1>1, <2>1, TopOf
  <2>3. /\ Len(Advanced) = n
        /\ \A i \in 1..n : /\ Advanced[i].id = calls[i].id
                           /\ Advanced[i].next = IF i = n THEN calls[i].next + 1 ELSE calls[i].next
    BY <1>1, <2>1, <2>2, AdvancedIs
  <2> HIDE DEF n, Advanced, Dep, More
  <2> QED BY <1>5, <2>1, <2>2, <2>3
<1>8. CASE DfsPast
  <2>1. /\ calls # <<>> /\ More /\ Dep \in Explored /\ calls' = Advanced
        /\ UNCHANGED <<visited, recursionStack, currentPath>>
    BY <1>8 DEF DfsPast, More, Explored, cycleVars
  <2>2. /\ Advanced \in Seq(Calls) /\ Len(Advanced) = n /\ DOMAIN Advanced = DOMAIN calls
        /\ \A i \in DOMAIN calls :
              /\ Advanced[i].id = calls[i].id
              /\ Advanced[i].next = IF i = n THEN calls[i].next + 1 ELSE calls[i].next
    BY <1>1, <2>1, AdvancedIs
  <2>3. DOMAIN calls = 1..n
    BY <1>1
  <2> HIDE DEF n, Advanced, Dep, More
  <2>4. /\ calls' \in Seq(Calls) /\ Len(calls') = n /\ DOMAIN calls' = 1..n
        /\ \A i \in 1..n : /\ calls'[i].id = calls[i].id
                           /\ calls'[i].next = IF i = n THEN calls[i].next + 1 ELSE calls[i].next
    BY <2>1, <2>2, <2>3
  <2>5. Explored' = Explored
    BY <2>1 DEF Explored
  <2>6. Len(calls') = n + 1 => calls'[n + 1].next = 1 /\ calls'[n + 1].id \in Ids
    BY <1>1, <2>4
  <2>7. n # 0 => More /\ IF Len(calls') = n + 1 THEN calls'[n + 1].id = Dep ELSE Dep \in Explored
    BY <1>1, <2>1, <2>4
  <2>8. n = Len(calls) /\ Len(calls') \in {n, n + 1} /\ Len(currentPath') = Len(calls')
    BY <1>1, <2>1, <2>4 DEF n
  <2>9. CallsLooked'
    BY <1>1, <1>2, <2>4, <2>5, <2>6, <2>7, <2>8, CallsGoOn
  <2> QED BY <1>4, <2>5, <2>9
<1> QED BY <1>6, <1>7, <1>8

(* As long as no cycle is found: what dfs returns from is explored, and leads only to explored *)
(* ids, so not back to itself.                                                                    *)
LEMMA DfsComesBack ==
    ASSUME links \in [Listed -> Links], PathIsStack, CallsLooked, ExploredStand, DfsReturns
    PROVE  CallsLooked' /\ ExploredStand'
<1> DEFINE n == Len(calls)
           v == Top.id
<1>1. /\ n \in Nat \ {0} /\ Len(calls') = n - 1 /\ Len(currentPath') = Len(currentPath) - 1
      /\ DOMAIN calls = 1..n /\ DOMAIN calls' = 1..(n - 1) /\ Top = calls[n]
      /\ \A i \in 1..(n - 1) : calls'[i] = calls[i]
      /\ v \in recursionStack
  BY PathShrinks
<1>2. calls \in Seq(Calls) /\ visited \subseteq Ids /\ recursionStack \subseteq visited
  BY DEF PathIsStack
<1>3. /\ UNCHANGED <<links, visited>> /\ recursionStack' = recursionStack \ {v}
      /\ ~(Top.next <= Len(DepsOf(v)))
  BY DEF DfsReturns, sortVars, More
<1>4. Graph' = Graph /\ \A id : DepsOf(id)' = DepsOf(id)
  BY <1>3 DEF Graph, DepsOf
<1>5. Explored' = Explored \cup {v} /\ v \notin Explored
  BY <1>1, <1>2, <1>3 DEF Explored
<1>6. v \in Ids /\ Top.next \in Nat \ {0} /\ Len(DepsOf(v)) \in Nat /\ DOMAIN DepsOf(v) = 1..Len(DepsOf(v))
  <2>1. calls # <<>>
    BY <1>1
  <2>2. v \in Ids /\ Top.next \in Nat \ {0}
    BY <1>2, <2>1, TopOf
  <2> QED BY <2>2, DepsTypes
<1> HIDE DEF n, Top
<1>7. ToSet(DepsOf(v)) \subseteq Explored
  <2>1. \A k \in 1..(Top.next - 1) : DepsOf(v)[k] \in Explored
    BY <1>1 DEF CallsLooked, n
  <2>2. \A k \in DOMAIN DepsOf(v) : k \in 1..(Top.next - 1)
    BY <1>3, <1>6
  <2> QED BY <2>1, <2>2 DEF ToSet
<1>8. v \in Listed => ~Reaches(Graph, v, v)
  <2> SUFFICES ASSUME v \in Listed, Reaches(Graph, v, v) PROVE FALSE
    OBVIOUS
  <2> DEFINE S == Explored \cap Listed
  <2>1. /\ Graph \in [Listed -> SUBSET Listed]
        /\ \A f \in Listed : Graph[f] = ToSet(DepsOf(f)) \cap Listed
    BY DepsTypes
  <2>2. Closed(Graph, S)
    BY <2>1 DEF Closed, ExploredStand
  <2>3. Graph[v] \cap DOMAIN Graph \subseteq S /\ S \in SUBSET DOMAIN Graph
    BY <1>7, <2>1
  <2>4. v \in S
    BY <2>2, <2>3 DEF Reaches
  <2> QED BY <1>5, <2>4
<1>9. ExploredStand'
  BY <1>4, <1>5, <1>7, <1>8 DEF ExploredStand
<1>10. \A i \in 1..(n - 1) : i \in 1..n /\ i < n /\ calls[i] \in Calls
  BY <1>1, <1>2 DEF n
<1>11. ASSUME NEW i \in 1..(n - 1), NEW k \in 1..(calls[i].next - 1)
       PROVE  DepsOf(calls[i].id)[k] \in Explored' \/ (i < n - 1 /\ k = calls[i].next - 1)
  <2>1. DepsOf(calls[i].id)[k] \in Explored \/ k = calls[i].next - 1
    BY <1>1, <1>10 DEF CallsLooked, n
  <2>2. i = n - 1 => DepsOf(calls[i].id)[calls[i].next - 1] = v
    <3> SUFFICES ASSUME i = n - 1 PROVE DepsOf(calls[i].id)[calls[i].next - 1] = v
      OBVIOUS
    <3>1. i \in DOMAIN calls /\ i + 1 \in DOMAIN calls /\ i + 1 = n
      BY <1>1, <1>10
    <3> QED BY <1>1, <3>1 DEF CallsLooked
  <2> QED BY <1>1, <1>5, <2>1, <2>2
<1>12. Len(currentPath') = Len(calls')
  BY <1>1 DEF CallsLooked, n
<1>13. \A i \in 1..(n - 1) : i + 1 \in 1..(n - 1) => i + 1 \in 1..n
  BY <1>1
<1>14. CallsLooked'
  <2>1. \A i \in DOMAIN calls' : calls'[i].next <= Len(DepsOf(calls'[i].id)) + 1
    BY <1>1, <1>10 DEF CallsLooked
  <2>2. \A i \in DOMAIN calls' : i + 1 \in DOMAIN calls' =>
            calls'[i].next >= 2 /\ DepsOf(calls'[i].id)[calls'[i].next - 1] = calls'[i + 1].id
    BY <1>1, <1>10, <1>13 DEF CallsLooked
  <2>3. \A i, j \in DOMAIN calls' : i < j /\ calls'[j].id \in Listed =>
            calls'[i].id \in Listed /\ Reaches(Graph, calls'[i].id, calls'[j].id)
    BY <1>1, <1>10 DEF CallsLooked
  <2>4. \A i \in DOMAIN calls' : \A k \in 1..(calls'[i].next - 1) :
            DepsOf(calls'[i].id)[k] \in Explored' \/ (i < Len(calls') /\ k = calls'[i].next - 1)
    BY <1>1, <1>11
  <2> QED BY <1>4, <1>12, <2>1, <2>2, <2>3, <2>4 DEF CallsLooked
<1> QED BY <1>9, <1>14

(* The first cycle that dfs names is one: each id on it has the next among its dependencies, *)
(* and so it leads back to itself.                                                               *)
LEMMA CycleFound ==
    ASSUME links \in [Listed -> Links], PathIsStack, CallsLooked, cycles = <<>>, DfsCycle
    PROVE  cycles' # <<>> /\ IsCycle(cycles[1])' /\ ~Acyclic(Graph)'
<1> DEFINE n == Len(calls)
           k == Index(currentPath, Dep)
           c == SubSeq(currentPath, k, Len(currentPath))
<1>1. /\ calls # <<>> /\ Top.next <= Len(DepsOf(Top.id)) /\ Dep \in recursionStack
      /\ cycles' = Append(<<>>, c) /\ UNCHANGED links
  BY DEF DfsCycle, More, sortVars
<1>2. calls \in Seq(Calls) /\ Len(currentPath) = n
  BY DEF PathIsStack, CallsLooked
<1>3. /\ n \in Nat \ {0} /\ DOMAIN calls = 1..n /\ Top = calls[n] /\ Top.id \in Listed
      /\ Top.next \in Nat \ {0} /\ Dep = DepsOf(Top.id)[Top.next]
      /\ Dep \in Listed => Dep \in Graph[Top.id]
  BY <1>1, <1>2, TopOf
<1>4. \A i \in 1..n : currentPath[i] = calls[i].id
  <2>1. \A i \in 1..n : (Len(currentPath) - n) + i = i
    BY <1>2, <1>3
  <2> QED BY <1>3, <2>1 DEF PathIsStack
<1> HIDE DEF Dep
<1>5. /\ k \in 1..n /\ currentPath[k] = Dep /\ c \in Seq(Ids) /\ Len(c) = n - k + 1
      /\ DOMAIN c = 1..Len(c) /\ \A i \in 1..Len(c) : c[i] = currentPath[k + i - 1]
  BY <1>1, <1>2, CycleIs
<1> HIDE DEF n, k, c, Top
<1>6. cycles' # <<>> /\ cycles'[1] = c
  BY <1>1
<1>7. \A j \in 1..n : calls[j].id \in Listed /\ (calls[j].id = Top.id \/ Reaches(Graph, calls[j].id, Top.id))
  <2> SUFFICES ASSUME NEW j \in 1..n
               PROVE  calls[j].id \in Listed /\ (calls[j].id = Top.id \/ Reaches(Graph, calls[j].id, Top.id))
    OBVIOUS
  <2>1. CASE j = n
    BY <1>3, <2>1
  <2>2. CASE j # n
    <3>1. j < n /\ n \in 1..n
      BY <1>3, <2>2
    <3>2. calls[j].id \in Listed /\ Reaches(Graph, calls[j].id, calls[n].id)
      BY <1>3, <3>1 DEF CallsLooked
    <3> QED BY <1>3, <3>2
  <2> QED BY <2>1, <2>2
<1>8. ASSUME NEW i \in 1..Len(c)
      PROVE  Contains(links[c[i]], IF i < Len(c) THEN c[i + 1] ELSE c[1])
  <2> DEFINE j == k + i - 1
  <2>1. j \in 1..n /\ (i < Len(c) <=> j < n) /\ k + (i + 1) - 1 = j + 1 /\ (i < Len(c) => i + 1 \in 1..Len(c))
    BY <1>3, <1>5
  <2> HIDE DEF j
  <2>2. c[i] = calls[j].id /\ c[i] \in Listed /\ links[c[i]] = DepsOf(calls[j].id)
    <3>1. c[i] = calls[j].id
      BY <1>4, <1>5, <2>1 DEF j
    <3>2. calls[j].id \in Listed
      BY <1>7, <2>1
    <3> QED BY <3>1, <3>2, DepsTypes
  <2>3. Len(DepsOf(calls[j].id)) \in Nat
    BY <1>7, <2>1, DepsTypes
  <2>4. CASE i < Len(c)
    <3>1. j \in 1..n /\ j + 1 \in 1..n
      BY <1>3, <2>1, <2>4
    <3>2. c[i + 1] = calls[j + 1].id
      BY <1>4, <1>5, <2>1, <2>4, <3>1
    <3>3. /\ calls[j].next >= 2 /\ DepsOf(calls[j].id)[calls[j].next - 1] = calls[j + 1].id
          /\ calls[j].next <= Len(DepsOf(calls[j].id)) + 1
      BY <1>3, <3>1 DEF CallsLooked
    <3>4. calls[j].next \in Nat
      <4>1. calls[j] \in Calls
        BY <1>2, <1>3, <3>1
      <4> QED BY <4>1 DEF Calls
    <3>5. calls[j].next - 1 \in 1..Len(DepsOf(calls[j].id))
      BY <2>3, <3>3, <3>4
    <3> QED BY <2>2, <2>4, <3>2, <3>3, <3>5 DEF Contains
  <2>5. CASE ~(i < Len(c))
    <3>1. j = n
      BY <1>3, <2>1, <2>5
    <3>2. c[1] = Dep
      <4>1. 1 \in 1..Len(c) /\ k + 1 - 1 = k
        BY <1>3, <1>5
      <4> QED BY <1>5, <4>1
    <3>3. DepsOf(calls[j].id)[Top.next] = Dep /\ Top.next \in 1..Len(DepsOf(calls[j].id))
      BY <1>1, <1>3, <2>3, <3>1
    <3> QED BY <2>2, <2>5, <3>2, <3>3 DEF Contains
  <2> QED BY <2>4, <2>5
<1>9. IsCycle(cycles[1])'
  <2>1. c # <<>>
    BY <1>3, <1>5
  <2> QED BY <1>1, <1>5, <1>6, <1>8, <2>1 DEF IsCycle
<1>10. ~Acyclic(Graph)
  <2>1. Dep = calls[k].id
    BY <1>4, <1>5
  <2>2. Dep \in Listed /\ (Dep = Top.id \/ Reaches(Graph, Dep, Top.id))
    BY <1>5, <1>7, <2>1
  <2>3. Graph \in [Listed -> SUBSET Listed]
    BY GraphTypes
  <2>4. Reaches(Graph, Dep, Dep)
    BY <1>3, <2>2, <2>3, ReachesNext
  <2> QED BY <2>2, <2>3, <2>4 DEF Acyclic
<1>11. Graph' = Graph
  BY <1>1 DEF Graph
<1> QED BY <1>6, <1>9, <1>10, <1>11

(* When no cycle is found there is none: what Kahn's algorithm has placed comes after all it *)
(* reaches, and the search has explored the rest.                                                *)
LEMMA NoneFound ==
    ASSUME links \in [Listed -> Links], OrderInv, PathIsStack, CallsLooked, ExploredStand, Finish
    PROVE  Acyclic(Graph)
<1>1. calls = <<>> /\ ~sorted /\ Left = {}
  BY DEF Finish, Searching
<1>2. recursionStack = {}
  <2>1. currentPath \in Seq(Ids) /\ Len(currentPath) = 0
    BY <1>1 DEF PathIsStack, CallsLooked
  <2>2. DOMAIN currentPath = {}
    BY <2>1
  <2> QED BY <2>2 DEF PathIsStack, ToSet
<1>3. \A f \in Listed : f \in ToSet(ordered) \/ f \in Explored
  BY <1>1, <1>2 DEF Left, Explored
<1>4. ASSUME NEW f \in ToSet(ordered), f \in Listed, Reaches(Graph, f, f) PROVE FALSE
  <2>1. PICK i \in DOMAIN ordered : ordered[i] = f
    BY DEF ToSet
  <2>2. PICK j \in DOMAIN ordered : j < i /\ ordered[j] = f
    BY <1>1, <1>4, <2>1, ReachedBefore DEF OrderInv
  <2>3. i = j
    BY <2>1, <2>2 DEF OrderInv, OrderTypes, IsInjective
  <2>4. i \in Nat
    BY DEF OrderInv, OrderTypes
  <2> QED BY <2>2, <2>3, <2>4
<1>5. \A f \in Listed : ~Reaches(Graph, f, f)
  BY <1>3, <1>4 DEF ExploredStand
<1> QED BY <1>5, GraphTypes DEF Acyclic

(* What detectCycles has found, from step to step. *)
LEMMA DfsSteps ==
    ASSUME ResolverInv, OrderInv, AskInv, DfsInv, [ResolverNext]_resolverVars
    PROVE  DfsInv'
<1>1. links \in [Listed -> Links]
  BY DEF ResolverInv, ResolverTypes
<1>2. UNCHANGED links /\ Graph' = Graph
  <2>1. UNCHANGED links
    BY SearchesLeave DEF ResolverNext, Process, Finish, sortVars
  <2> QED BY <2>1 DEF Graph
<1>3. CASE UNCHANGED <<sorted, calls, visited, cycleVars>>
  <2>1. UNCHANGED <<sorted, calls, visited, recursionStack, currentPath, cycles>>
    BY <1>3 DEF cycleVars
  <2>2. \A id : DepsOf(id)' = DepsOf(id)
    BY <1>2 DEF DepsOf
  <2>3. (PathIsStack' <=> PathIsStack) /\ Explored' = Explored
    BY <2>1 DEF PathIsStack, Explored
  <2>4. (CallsLooked' <=> CallsLooked) /\ (ExploredStand' <=> ExploredStand)
    BY <1>2, <2>1, <2>2, <2>3 DEF CallsLooked, ExploredStand
  <2>5. IsCycle(cycles[1])' <=> IsCycle(cycles[1])
    BY <1>2, <2>1 DEF IsCycle
  <2> QED BY <1>2, <2>1, <2>3, <2>4, <2>5 DEF DfsInv
<1>4. CASE sorted
  <2>1. sorted' = sorted /\ cycles' = cycles
    <3>1. ~Process /\ ~DetectCycles /\ ~Finish
      BY <1>4 DEF Process, DetectCycles, DfsFirst, DfsDeeper, DfsPast, DfsCycle, DfsReturns, Finish,
                  Searching, ResolverInv, Counted
    <3>2. CASE Visit \/ Count \/ CanReach
      BY <3>2 DEF Visit, Count, CanReach, ReachFinds, ReachDeeper, ReachPast, ReachReturns, sortVars, cycleVars
    <3>3. CASE \E from, to \in Listed : Ask(from, to)
      BY <3>3 DEF Ask, sortVars, cycleVars
    <3>4. CASE UNCHANGED resolverVars
      BY <3>4 DEF resolverVars, sortVars, cycleVars
    <3> QED BY <3>1, <3>2, <3>3, <3>4 DEF ResolverNext
  <2>2. IsCycle(cycles[1])' <=> IsCycle(cycles[1])
    BY <1>2, <2>1 DEF IsCycle
  <2> QED BY <1>2, <1>4, <2>1, <2>2 DEF DfsInv
<1>5. CASE ~sorted /\ DetectCycles
  <2>1. PathIsStack /\ PathIsStack' /\ sorted' = sorted
    <3>1. sorted' = sorted
      BY <1>5 DEF DetectCycles, DfsFirst, DfsDeeper, DfsPast, DfsCycle, DfsReturns, Enter, sortVars
    <3> QED BY <1>1, <1>5, <3>1, PathSteps DEF DfsInv
  <2>2. CASE cycles # <<>>
    <3>1. cycles' # <<>> /\ cycles'[1] = cycles[1]
      <4>1. CASE DfsCycle
        <5>1. PICK c : cycles' = Append(cycles, c)
          BY <4>1 DEF DfsCycle
        <5>2. cycles \in Seq(Seq(Ids)) /\ cycles' \in Seq(Seq(Ids))
          BY <2>1 DEF PathIsStack
        <5>3. Len(cycles) \in Nat \ {0}
          BY <2>2, <5>2
        <5>4. Len(cycles') = Len(cycles) + 1 /\ cycles'[1] = cycles[1]
          BY <5>1, <5>2, <5>3
        <5> QED BY <5>2, <5>3, <5>4
      <4>2. CASE cycles' = cycles
        BY <2>2, <4>2
      <4> QED BY <1>5, <4>1, <4>2
              DEF DetectCycles, DfsFirst, DfsDeeper, DfsPast, DfsReturns, Enter, cycleVars
    <3>2. IsCycle(cycles[1])'
      BY <1>2, <2>2, <3>1 DEF DfsInv, IsCycle
    <3> QED BY <1>2, <1>5, <2>1, <2>2, <3>1, <3>2 DEF DfsInv
  <2>3. CASE cycles = <<>> /\ DfsCycle
    <3>1. CallsLooked
      BY <1>5, <2>3 DEF DfsInv
    <3>2. cycles' # <<>> /\ IsCycle(cycles[1])' /\ ~Acyclic(Graph)'
      BY <1>1, <2>1, <2>3, <3>1, CycleFound
    <3> QED BY <1>5, <2>1, <3>2 DEF DfsInv
  <2>4. CASE cycles = <<>> /\ ~DfsCycle
    <3>1. CallsLooked /\ ExploredStand
      BY <1>5, <2>4 DEF DfsInv
    <3>2. CallsLooked' /\ ExploredStand'
      BY <1>1, <1>5, <2>1, <2>4, <3>1, DfsGoesOn, DfsComesBack DEF DetectCycles
    <3>3. cycles' = <<>>
      BY <1>5, <2>4 DEF DetectCycles, DfsFirst, DfsDeeper, DfsPast, DfsReturns, Enter, cycleVars
    <3> QED BY <1>5, <2>1, <3>2, <3>3 DEF DfsInv
  <2> QED BY <2>2, <2>3, <2>4
<1>6. CASE ~sorted /\ Finish
  <2>1. sorted' = TRUE /\ cycles' = cycles
    BY <1>6 DEF Finish
  <2>2. CASE cycles = <<>>
    <3>1. Acyclic(Graph)
      BY <1>1, <1>6, <2>2, NoneFound DEF DfsInv
    <3> QED BY <1>2, <2>1, <2>2, <3>1 DEF DfsInv
  <2>3. CASE cycles # <<>>
    <3>1. IsCycle(cycles[1])'
      BY <1>2, <2>1, <2>3 DEF DfsInv, IsCycle
    <3> QED BY <1>2, <2>1, <2>3, <3>1 DEF DfsInv
  <2> QED BY <2>2, <2>3
<1>7. CASE ~sorted /\ ~DetectCycles /\ ~Finish
  <2>1. ~CanReach /\ ~Visit /\ ~Count /\ ~\E from, to \in Listed : Ask(from, to)
    BY <1>7 DEF AskInv, CanReach, ReachFinds, ReachDeeper, ReachPast, ReachReturns, Asking, Visit, Count,
                Counting, Ask
  <2>2. CASE Process
    BY <1>3, <2>2 DEF Process
  <2>3. CASE UNCHANGED resolverVars
    BY <1>3, <2>3 DEF resolverVars, sortVars
  <2> QED BY <1>7, <2>1, <2>2, <2>3 DEF ResolverNext
<1> QED BY <1>4, <1>5, <1>6, <1>7

(* The searches, before the first step. *)
LEMMA SearchesStart ==
    ASSUME ResolverInit
    PROVE  CountInv /\ AskInv /\ DfsInv
<1>1. /\ sorted = FALSE /\ calls = <<>> /\ visited = {} /\ recursionStack = {} /\ currentPath = <<>>
      /\ cycles = <<>> /\ impact = <<>> /\ question = <<>>
  BY DEF ResolverInit
<1>2. Len(<<>>) = 0 /\ DOMAIN <<>> = {} /\ \A S : <<>> \in Seq(S)
  OBVIOUS
<1>3. CountInv
  BY <1>1, <1>2, ArrayOf DEF CountInv, Counting
<1>4. AskInv
  BY <1>1 DEF AskInv, Asking
<1>5. PathIsStack
  BY <1>1, <1>2 DEF PathIsStack, IsInjective, ToSet
<1>6. CallsLooked /\ ExploredStand
  BY <1>1, <1>2 DEF CallsLooked, ExploredStand, Explored
<1> QED BY <1>1, <1>3, <1>4, <1>5, <1>6 DEF DfsInv

(* The searches, in every state. *)
LEMMA SearchesHold == ResolverSpec => [](CountInv /\ AskInv /\ DfsInv)
<1>1. CountInv /\ AskInv /\ DfsInv /\ ResolverInv /\ OrderInv /\ [ResolverNext]_resolverVars
        => (CountInv /\ AskInv /\ DfsInv)'
  BY CountSteps, AskSteps, DfsSteps
<1>2. ResolverSpec => []OrderInv
  BY ResolverSorts, OrderHolds, PTL DEF SortsInOrder
<1> QED BY <1>1, <1>2, SearchesStart, ResolverHolds, PTL DEF ResolverSpec

(* For any array and any links, also to ids that no feature has: detectCycles, one call of dfs  *)
(* after another over what Kahn's algorithm has left, names no cycle exactly if there is none,    *)
(* and the first it names is one, although calls that return early leave the path as it was.      *)
THEOREM CyclesFound == ResolverSpec => []CyclesAreFound
<1>1. DfsInv => CyclesAreFound
  BY DEF DfsInv, CyclesAreFound
<1> QED BY <1>1, SearchesHold, PTL

(* Likewise: the counts of downstreamImpact and the answer of canReach, each step by step with the *)
(* set of what it has visited, are what the graph says.                                              *)
THEOREM SearchesFindAll == ResolverSpec => []SearchesAreExact
<1>1. ASSUME ResolverInv, CountInv, AskInv PROVE SearchesAreExact
  <2>1. \A i \in DOMAIN impact : impact[i] = Impact(Graph, Order[i])
    BY <1>1 DEF CountInv
  <2>2. ASSUME Asking, calls = <<>> PROVE reached <=> ClosesCycle(Graph, question[2], {question[1]})
    <3>1. links \in [Listed -> Links]
      BY <1>1 DEF ResolverInv, ResolverTypes
    <3>2. From \in Listed /\ To \in Listed
      BY <1>1, <2>2 DEF AskInv
    <3>3. CASE reached
      BY <1>1, <2>2, <3>3 DEF AskInv, From, To
    <3>4. CASE ~reached
      <4>1. ReachSearch
        BY <1>1, <2>2, <3>4 DEF AskInv
      <4>2. ~ClosesCycle(Graph, To, {From})
        BY <2>2, <3>1, <3>2, <4>1, ReachedAll
      <4> QED BY <3>4, <4>2 DEF From, To
    <3> QED BY <3>3, <3>4
  <2> QED BY <2>1, <2>2 DEF SearchesAreExact
<1>2. ResolverInv /\ CountInv /\ AskInv => SearchesAreExact
  BY <1>1
<1> QED BY <1>2, SearchesHold, ResolverHolds, PTL

--------------------------------------------------------------------------------
(* What the callers of the resolver take from it *)

(* Without a reported cycle everything comes after what it depends on. *)
OrderIsTopological ==
    sorted /\ cycles = <<>> => \A f \in Listed : \A g \in Graph[f] : Place(g) < Place(f)

(* The features if from were among the dependencies of to. *)
WithDependency(from, to) == [Graph EXCEPT ![to] = @ \cup {from}]
AnswersForesee ==
    Asking /\ calls = <<>> /\ Acyclic(Graph)
        => (reached <=> ~Acyclic(WithDependency(question[1], question[2])))

(* A dependency that closes a cycle does. *)
LEMMA ClosingCloses ==
    ASSUME NEW N, NEW M, NEW f \in DOMAIN N, NEW id \in DOMAIN N, DOMAIN M = DOMAIN N,
           \A g \in DOMAIN N : N[g] \subseteq M[g], id \in M[f], ClosesCycle(N, f, {id})
    PROVE  ~Acyclic(M)
<1>1. id = f \/ Reaches(N, id, f)
  BY DEF ClosesCycle
<1>2. ASSUME NEW S \in SUBSET DOMAIN M, M[f] \cap DOMAIN M \subseteq S, Closed(M, S) PROVE f \in S
  <2>1. id \in S
    BY <1>2
  <2>2. Closed(N, S) /\ S \in SUBSET DOMAIN N
    BY <1>2 DEF Closed
  <2> QED BY <1>1, <2>1, <2>2, ClosedHolds
<1>3. Reaches(M, f, f)
  BY <1>2 DEF Reaches
<1> QED BY <1>3 DEF Acyclic

(* A dependency that closes none closes none together with those that were there. *)
LEMMA OpenStaysOpen ==
    ASSUME NEW N, NEW M, NEW f \in DOMAIN N, NEW id, DOMAIN M = DOMAIN N, M[f] = N[f] \cup {id},
           \A g \in DOMAIN N : g # f => M[g] = N[g], Acyclic(N), ~ClosesCycle(N, f, {id})
    PROVE  Acyclic(M)
<1>1. \A d \in N[f] \cap DOMAIN N : d # f /\ ~Reaches(N, d, f)
  <2>1. ~Reaches(N, f, f) /\ N[f] \cap DOMAIN N \subseteq Below(N, f)
    BY BelowClosed DEF Acyclic
  <2>2. f \notin N[f] \cap DOMAIN N
    BY <2>1 DEF Below
  <2> QED BY <2>1, <2>2, ReachesOn
<1>2. ~ClosesCycle(N, f, N[f] \cup {id})
  BY <1>1 DEF ClosesCycle
<1>3. \A ds : M[f] = ds /\ ~ClosesCycle(N, f, ds) => Acyclic(M)
  BY NewNeeds
<1> QED BY <1>2, <1>3

(* Of any features, with any links, also to ids that no feature has: when resolveDependencies      *)
(* reports no circular dependency, its order has each feature after all it depends on.                *)
THEOREM NoCycleMeansOrder == ResolverSpec => []OrderIsTopological
<1>1. ASSUME ResolverInv, DfsInv, OrderRespectsDependencies PROVE OrderIsTopological
  <2> SUFFICES ASSUME sorted, cycles = <<>>, NEW f \in Listed, NEW g \in Graph[f] PROVE Place(g) < Place(f)
    BY DEF OrderIsTopological
  <2>1. Graph \in [Listed -> SUBSET Listed]
    BY <1>1, GraphTypes DEF ResolverInv, ResolverTypes
  <2>2. Acyclic(Graph)
    BY <1>1 DEF DfsInv
  <2>3. OnCycle = {}
    BY <2>1, <2>2 DEF OnCycle, Acyclic
  <2>4. f \in Sortable /\ g \in Listed
    BY <2>1, <2>3 DEF Sortable
  <2>5. Reaches(Graph, f, g)
    BY <2>1, BelowClosed DEF Below
  <2> QED BY <1>1, <2>4, <2>5 DEF OrderRespectsDependencies
<1>2. ResolverInv /\ DfsInv /\ OrderRespectsDependencies => OrderIsTopological
  BY <1>1
<1> QED BY <1>2, SearchesHold, ResolverHolds, DependenciesFirst, PTL

(* What wouldCreateCircularDependency is for: on features without a cycle it says yes exactly when  *)
(* the features with the new dependency would have one.                                                *)
THEOREM AnswersAreRight == ResolverSpec => []AnswersForesee
<1>1. ASSUME ResolverInv, AskInv, SearchesAreExact PROVE AnswersForesee
  <2> SUFFICES ASSUME Asking, calls = <<>>, Acyclic(Graph)
               PROVE  reached <=> ~Acyclic(WithDependency(question[1], question[2]))
    BY DEF AnswersForesee
  <2> DEFINE M == WithDependency(From, To)
  <2>1. From \in Listed /\ To \in Listed /\ (reached <=> ClosesCycle(Graph, To, {From}))
    BY <1>1 DEF AskInv, SearchesAreExact, From, To
  <2>2. Graph \in [Listed -> SUBSET Listed]
    BY <1>1, GraphTypes DEF ResolverInv, ResolverTypes
  <2>3. /\ DOMAIN M = DOMAIN Graph /\ M[To] = Graph[To] \cup {From}
        /\ \A g \in DOMAIN Graph : g # To => M[g] = Graph[g]
    BY <2>1, <2>2 DEF WithDependency
  <2> HIDE DEF M
  <2>4. ~reached => Acyclic(M)
    BY <2>1, <2>2, <2>3, OpenStaysOpen
  <2>5. ASSUME reached PROVE ~Acyclic(M)
    <3>1. \A g \in DOMAIN Graph : Graph[g] \subseteq M[g]
      BY <2>3
    <3>2. ClosesCycle(Graph, To, {From}) /\ From \in DOMAIN Graph /\ To \in DOMAIN Graph /\ From \in M[To]
      BY <2>1, <2>2, <2>3, <2>5
    <3> QED BY <2>3, <3>1, <3>2, ClosingCloses
  <2> QED BY <2>4, <2>5 DEF M, From, To
<1>2. ResolverInv /\ AskInv /\ SearchesAreExact => AnswersForesee
  BY <1>1
<1> QED BY <1>2, SearchesHold, ResolverHolds, SearchesFindAll, PTL

================================================================================
