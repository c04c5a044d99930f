----------------------- MODULE FeatureStateMachineProofs -----------------------
(***************************************************************************)
(* Theorems about FeatureStateMachine, for any workflows, budgets, backlog *)
(* and number of calls and crashes.                                        *)
(*                                                                         *)
(* Common is what holds of every call and its queue of saves.  Passed adds *)
(* that whatever is in a phase past the exit gate, a call, a queued save   *)
(* or a file, carries the mark of the gate.  Serial and Kept add what the  *)
(* saves of calls that follow each other are about to write.               *)
(***************************************************************************)
EXTENDS FeatureStateMachine, SequenceTheorems, TLAPS

Shipped == {"REVIEW", "MERGE", "DEPLOY"}
CallAts == {"uncalled", "loading", "validating", "starting", "working", "overBudget", "deleting",
            "ended", "refused", "crashed"}

LEMMA Constants ==
    /\ Workflows \subseteq SUBSET Phases
    /\ MaxTransitions \in Nat /\ MaxTransitions > 0 /\ MaxSameState \in Nat /\ MaxSameState > 0
    /\ MaxBacklog \in Nat /\ MaxCalls \in Nat /\ MaxCrashes \in Nat
BY WorkflowsAssumption, BudgetsAssumption

--------------------------------------------------------------------------------
(* Records of a call, a field at a time. *)

LEMMA Fields ==
    ASSUME NEW m \in CallStates
    PROVE  /\ m.at \in CallAts /\ m.state \in States /\ m.gated \in BOOLEAN
           /\ m.phases \subseteq Phases /\ m.described \in BOOLEAN
           /\ m.transitions \in 0..MaxTransitions /\ m.sameState \in 0..MaxSameState
           /\ m.escalations \in Nat
BY DEF CallStates, CallAts, Final

(* What most changes of a call leave alone. *)
Keeps(n, m) == n.gated = m.gated /\ n.escalations = m.escalations

LEMMA AtSet ==
    ASSUME NEW m \in CallStates, NEW at \in CallAts
    PROVE  LET n == [m EXCEPT !.at = at] IN
           /\ n \in CallStates /\ n.at = at /\ n.state = m.state /\ n.gated = m.gated
           /\ n.phases = m.phases /\ n.described = m.described /\ n.transitions = m.transitions
           /\ n.sameState = m.sameState /\ n.escalations = m.escalations
BY DEF CallStates, CallAts, Final

LEMMA StateSet ==
    ASSUME NEW m \in CallStates, NEW s \in States
    PROVE  LET n == [m EXCEPT !.state = s] IN
           /\ n \in CallStates /\ n.at = m.at /\ n.state = s /\ n.gated = m.gated
           /\ n.phases = m.phases /\ n.described = m.described /\ n.transitions = m.transitions
           /\ n.sameState = m.sameState /\ n.escalations = m.escalations
BY DEF CallStates

LEMMA GatedSet ==
    ASSUME NEW m \in CallStates, NEW b \in BOOLEAN
    PROVE  LET n == [m EXCEPT !.gated = b] IN
           /\ n \in CallStates /\ n.at = m.at /\ n.state = m.state /\ n.gated = b
           /\ n.phases = m.phases /\ n.described = m.described /\ n.transitions = m.transitions
           /\ n.sameState = m.sameState /\ n.escalations = m.escalations
BY DEF CallStates

LEMMA TransitionsSet ==
    ASSUME NEW m \in CallStates, NEW i \in 0..MaxTransitions
    PROVE  LET n == [m EXCEPT !.transitions = i] IN
           /\ n \in CallStates /\ n.at = m.at /\ n.state = m.state /\ n.gated = m.gated
           /\ n.phases = m.phases /\ n.described = m.described /\ n.transitions = i
           /\ n.sameState = m.sameState /\ n.escalations = m.escalations
BY DEF CallStates

LEMMA SameStateSet ==
    ASSUME NEW m \in CallStates, NEW i \in 0..MaxSameState
    PROVE  LET n == [m EXCEPT !.sameState = i] IN
           /\ n \in CallStates /\ n.at = m.at /\ n.state = m.state /\ n.gated = m.gated
           /\ n.phases = m.phases /\ n.described = m.described /\ n.transitions = m.transitions
           /\ n.sameState = i /\ n.escalations = m.escalations
BY DEF CallStates

LEMMA EscalationsSet ==
    ASSUME NEW m \in CallStates, NEW i \in Nat
    PROVE  LET n == [m EXCEPT !.escalations = i] IN
           /\ n \in CallStates /\ n.at = m.at /\ n.state = m.state /\ n.gated = m.gated
           /\ n.phases = m.phases /\ n.described = m.described /\ n.transitions = m.transitions
           /\ n.sameState = m.sameState /\ n.escalations = i
BY DEF CallStates

LEMMA PhasesSet ==
    ASSUME NEW m \in CallStates, NEW w \in SUBSET Phases
    PROVE  LET n == [m EXCEPT !.phases = w] IN
           /\ n \in CallStates /\ n.at = m.at /\ n.state = m.state /\ n.gated = m.gated
           /\ n.phases = w /\ n.described = m.described /\ n.transitions = m.transitions
           /\ n.sameState = m.sameState /\ n.escalations = m.escalations
BY DEF CallStates

LEMMA DescribedSet ==
    ASSUME NEW m \in CallStates, NEW b \in BOOLEAN
    PROVE  LET n == [m EXCEPT !.described = b] IN
           /\ n \in CallStates /\ n.at = m.at /\ n.state = m.state /\ n.gated = m.gated
           /\ n.phases = m.phases /\ n.described = b /\ n.transitions = m.transitions
           /\ n.sameState = m.sameState /\ n.escalations = m.escalations
BY DEF CallStates

LEMMA UncalledFacts ==
    /\ Uncalled \in CallStates /\ Uncalled.at = "uncalled" /\ Uncalled.state = "INTAKE"
    /\ ~Uncalled.gated /\ Uncalled.escalations = 0
BY Constants DEF Uncalled, CallStates, States, Phases

--------------------------------------------------------------------------------
(* resolveNextState *)

LEMMA LeastExists ==
    ASSUME NEW S \in SUBSET (1..6), S # {}
    PROVE  \E i \in S : \A j \in S : i <= j
<1>1. CASE 1 \in S BY <1>1
<1>2. CASE 1 \notin S /\ 2 \in S BY <1>2
<1>3. CASE 1 \notin S /\ 2 \notin S /\ 3 \in S BY <1>3
<1>4. CASE 1 \notin S /\ 2 \notin S /\ 3 \notin S /\ 4 \in S BY <1>4
<1>5. CASE 1 \notin S /\ 2 \notin S /\ 3 \notin S /\ 4 \notin S /\ 5 \in S BY <1>5
<1>6. CASE 1 \notin S /\ 2 \notin S /\ 3 \notin S /\ 4 \notin S /\ 5 \notin S
  <2>1. S \subseteq {6}
    BY <1>6
  <2>2. PICK x \in S : TRUE
    OBVIOUS
  <2>3. \A y \in S : y = x
    BY <2>1
  <2>4. x \in 1..6
    BY <2>2
  <2> QED BY <2>2, <2>3, <2>4
<1> QED BY <1>1, <1>2, <1>3, <1>4, <1>5, <1>6

LEMMA ResolveFacts ==
    ASSUME NEW s \in States \cup {"none"}, NEW w \in SUBSET Phases
    PROVE  /\ Resolve(s, w) \in States \cup {"none"}
           /\ Resolve(s, w) \in w \cup {"none", "DONE", "ESCALATE"}
           /\ Resolve(s, w) = "none" <=> s = "none"
           /\ s \in w \cup {"none", "DONE", "ESCALATE"} => Resolve(s, w) = s
           /\ s \notin Shipped /\ "EXECUTE" \in w /\ s # "EXECUTE" => Resolve(s, w) \notin Shipped
<1>1. CASE s \in w \cup {"none", "DONE", "ESCALATE"}
  BY <1>1 DEF Resolve, Shipped, States, Phases
<1>2. CASE s \notin w \cup {"none", "DONE", "ESCALATE"}
  <2> DEFINE at == CHOOSE i \in DOMAIN PhaseOrder : PhaseOrder[i] = s
             later == {i \in DOMAIN PhaseOrder : i > at /\ PhaseOrder[i] \in w}
             least == CHOOSE i \in later : \A j \in later : i <= j
  <2>1. s \in Phases /\ DOMAIN PhaseOrder = 1..6
    BY <1>2 DEF States, PhaseOrder
  <2>2. at \in 1..6 /\ PhaseOrder[at] = s
    <3>1. \E i \in 1..6 : PhaseOrder[i] = s
      BY <2>1 DEF Phases, PhaseOrder
    <3> QED BY <2>1, <3>1
  <2>3. later \subseteq 1..6
    BY <2>1
  <2>4. Resolve(s, w) = IF later = {} THEN "DONE" ELSE PhaseOrder[least]
    BY <1>2 DEF Resolve
  <2>5. CASE later = {}
    BY <1>2, <2>1, <2>4, <2>5 DEF States, Shipped
  <2>6. CASE later # {}
    <3>1. least \in later /\ \A j \in later : least <= j
      <4>1. \E i \in later : \A j \in later : i <= j
        BY <2>3, <2>6, LeastExists
      <4> HIDE DEF later
      <4> QED BY <4>1
    <3>2. least \in 1..6 /\ PhaseOrder[least] \in w
      BY <2>3, <3>1
    <3>3. ASSUME s \notin Shipped, "EXECUTE" \in w, s # "EXECUTE"
          PROVE  PhaseOrder[least] \notin Shipped
      <4>1. at \in {1, 2}
        BY <2>1, <2>2, <3>3 DEF PhaseOrder, Phases, Shipped
      <4>2. 3 \in later
        <5>1. PhaseOrder[3] = "EXECUTE"
          BY DEF PhaseOrder
        <5> HIDE DEF at
        <5> QED BY <2>1, <3>3, <4>1, <5>1
      <4>3. least <= 3
        BY <3>1, <4>2
      <4> HIDE DEF least
      <4> QED BY <3>2, <4>3 DEF PhaseOrder, Shipped
    <3> HIDE DEF least, later
    <3> QED BY <1>2, <2>1, <2>4, <2>6, <3>2, <3>3 DEF States, Phases
  <2> QED BY <2>5, <2>6
<1> QED BY <1>1, <1>2

--------------------------------------------------------------------------------
(* The loop of processFeature.  At work: within the budgets, and in a state *)
(* that has a processor.                                                     *)

Working(n) ==
    /\ n.at = "working" => n.state # "DONE" /\ n.transitions < MaxTransitions /\ n.sameState < MaxSameState
    /\ n.at = "overBudget" => n.state = "ESCALATE"
    /\ n.at = "deleting" => n.state \in Terminal

LEMMA OverBudgetFacts ==
    ASSUME NEW m \in CallStates
    PROVE  ~OverBudget(m) <=> m.transitions < MaxTransitions /\ m.sameState < MaxSameState
BY Fields, Constants DEF OverBudget

LEMMA LoopFacts ==
    ASSUME NEW m \in CallStates
    PROVE  /\ Loop(m) \in CallStates /\ Working(Loop(m)) /\ Keeps(Loop(m), m)
           /\ Loop(m).phases = m.phases
           /\ Loop(m).at \in {"working", "overBudget"}
           /\ Loop(m).state \in {m.state, "ESCALATE"}
<1> DEFINE x == [m EXCEPT !.state = "ESCALATE"]
           y == [x EXCEPT !.transitions = @ + 1]
           n == IF OverBudget(m) \/ ~Redirected(m) THEN m ELSE y
           u == [n EXCEPT !.at = "overBudget"]
           v == [u EXCEPT !.state = "ESCALATE"]
           w == [n EXCEPT !.at = "working"]
<1>1. Loop(m) = IF OverBudget(n) THEN v ELSE w
  BY DEF Loop
<1>2. /\ x \in CallStates /\ x.state = "ESCALATE" /\ Keeps(x, m) /\ x.phases = m.phases
      /\ x.transitions = m.transitions
  BY StateSet DEF States, Keeps
<1> HIDE DEF x
<1>3. ASSUME ~OverBudget(m)
      PROVE  y \in CallStates /\ y.state = "ESCALATE" /\ Keeps(y, m) /\ y.phases = m.phases
  <2>1. x.transitions + 1 \in 0..MaxTransitions
    BY <1>2, <1>3, OverBudgetFacts, Fields, Constants
  <2> QED BY <1>2, <2>1, TransitionsSet DEF Keeps
<1> HIDE DEF y
<1>4. /\ n \in CallStates /\ Keeps(n, m) /\ n.phases = m.phases /\ n.state \in {m.state, "ESCALATE"}
      /\ ~OverBudget(n) => n.state # "DONE"
  <2>1. CASE OverBudget(m) \/ ~Redirected(m)
    BY <2>1 DEF Keeps, Redirected
  <2>2. CASE ~OverBudget(m) /\ Redirected(m)
    BY <1>3, <2>2
  <2> QED BY <2>1, <2>2
<1> HIDE DEF n
<1>5. /\ u \in CallStates /\ Keeps(u, m) /\ u.phases = m.phases /\ u.at = "overBudget"
  BY <1>4, AtSet DEF CallAts, Keeps
<1> HIDE DEF u
<1>6. /\ v \in CallStates /\ Keeps(v, m) /\ v.phases = m.phases /\ v.at = "overBudget"
      /\ v.state = "ESCALATE"
  BY <1>5, StateSet DEF States, Keeps
<1>7. /\ w \in CallStates /\ Keeps(w, m) /\ w.phases = m.phases /\ w.at = "working" /\ w.state = n.state
      /\ w.transitions = n.transitions /\ w.sameState = n.sameState
  BY <1>4, AtSet DEF CallAts, Keeps
<1> HIDE DEF v, w
<1>8. CASE OverBudget(n)
  BY <1>1, <1>6, <1>8 DEF Working
<1>9. CASE ~OverBudget(n)
  BY <1>1, <1>4, <1>7, <1>9, OverBudgetFacts DEF Working
<1> QED BY <1>8, <1>9

LEMMA LeaveFacts ==
    ASSUME NEW m \in CallStates
    PROVE  /\ Leave(m) \in CallStates /\ Working(Leave(m)) /\ Keeps(Leave(m), m)
           /\ Leave(m).at = IF m.state \in Terminal THEN "deleting" ELSE "ended"
           /\ Leave(m).state = m.state
<1> DEFINE at == IF m.state \in Terminal THEN "deleting" ELSE "ended"
           a == [m EXCEPT !.at = at]
           b == [a EXCEPT !.phases = {}]
           c == [b EXCEPT !.described = FALSE]
           d == [c EXCEPT !.transitions = 0]
           e == [d EXCEPT !.sameState = 0]
<1>1. Leave(m) = e
  BY DEF Leave
<1>2. a \in CallStates /\ Keeps(a, m) /\ a.at = at /\ a.state = m.state
  <2>1. at \in CallAts
    BY DEF CallAts
  <2> HIDE DEF at
  <2> QED BY <2>1, AtSet DEF Keeps
<1> HIDE DEF a
<1>3. b \in CallStates /\ Keeps(b, m) /\ b.at = at /\ b.state = m.state
  BY <1>2, PhasesSet DEF Keeps
<1> HIDE DEF b, c
<1>4. c \in CallStates /\ Keeps(c, m) /\ c.at = at /\ c.state = m.state
  BY <1>3 DEF CallStates, Keeps, c
<1>5. d \in CallStates /\ Keeps(d, m) /\ d.at = at /\ d.state = m.state
  BY <1>4, TransitionsSet, Constants DEF Keeps
<1> HIDE DEF d
<1>6. e \in CallStates /\ Keeps(e, m) /\ e.at = at /\ e.state = m.state
  BY <1>5, SameStateSet, Constants DEF Keeps
<1> HIDE DEF e
<1> QED BY <1>1, <1>6 DEF Working

(* What a processor may return. *)
Outcomes == [next : States \cup {"none"}, continue : BOOLEAN]

LEMMA FollowFacts ==
    ASSUME NEW m \in CallStates, m.at = "working", Working(m), NEW r \in Outcomes
    PROVE  LET n == Follow(m, r)
               next == Resolve(r.next, m.phases) IN
           /\ n \in CallStates /\ Working(n) /\ Keeps(n, m)
           /\ n.at \in {"working", "overBudget", "deleting", "ended"}
           /\ n.at \in {"working", "overBudget"} => n.phases = m.phases
           /\ n.state \in {m.state, next, "ESCALATE"} \ {"none"}
           /\ n.state = next \/ n.state = "ESCALATE" \/ next \in {"none", "ESCALATE"}
           /\ next = "none" => n.state = m.state /\ n.at \in {"deleting", "ended"}
           /\ n.at = "ended" => n.state \notin Terminal /\ (n.state = next \/ next = "none")
<1> DEFINE next == Resolve(r.next, m.phases)
           to == [m EXCEPT !.state = next]
           again == [m EXCEPT !.sameState = @ + 1]
           fresh == [to EXCEPT !.sameState = 0]
           on == [fresh EXCEPT !.transitions = @ + 1]
<1>1. next \in States \cup {"none"} /\ (m.state \in States \ {"DONE"})
  <2>1. r.next \in States \cup {"none"} /\ m.phases \in SUBSET Phases
    BY Fields DEF Outcomes
  <2> QED BY <2>1, ResolveFacts, Fields DEF Working
<1>2. Follow(m, r) =
        IF r.continue /\ next = m.state /\ next \in Suspendable THEN Leave(m)
        ELSE IF next = "none" THEN Leave(m)
        ELSE IF next = "DONE" \/ ~r.continue THEN Leave(to)
        ELSE IF next = m.state THEN Loop(again)
        ELSE Loop(on)
  BY DEF Follow
<1> HIDE DEF next
<1>3. ASSUME next # "none"
      PROVE  to \in CallStates /\ to.state = next /\ Keeps(to, m) /\ to.phases = m.phases
             /\ to.transitions = m.transitions
  BY <1>1, <1>3, StateSet DEF Keeps
<1> HIDE DEF to
<1>4. again \in CallStates /\ again.state = m.state /\ Keeps(again, m) /\ again.phases = m.phases
  <2>1. m.sameState + 1 \in 0..MaxSameState
    BY Fields, Constants DEF Working
  <2> QED BY <2>1, SameStateSet DEF Keeps
<1> HIDE DEF again
<1>5. ASSUME next # "none"
      PROVE  on \in CallStates /\ on.state = next /\ Keeps(on, m) /\ on.phases = m.phases
  <2>1. /\ fresh \in CallStates /\ fresh.state = next /\ Keeps(fresh, m) /\ fresh.phases = m.phases
        /\ fresh.transitions = m.transitions
    BY <1>3, <1>5, SameStateSet, Constants DEF Keeps
  <2> HIDE DEF fresh
  <2>2. fresh.transitions + 1 \in 0..MaxTransitions
    BY <2>1, Fields, Constants DEF Working
  <2> QED BY <2>1, <2>2, TransitionsSet DEF Keeps
<1> HIDE DEF on
<1>6. CASE next = "none" \/ (r.continue /\ next = m.state /\ next \in Suspendable)
  <2>1. Follow(m, r) = Leave(m)
    BY <1>2, <1>6
  <2> QED BY <1>1, <1>6, <2>1, LeaveFacts DEF next, Terminal, States, Phases
<1>7. CASE next # "none" /\ ~(r.continue /\ next = m.state /\ next \in Suspendable)
           /\ (next = "DONE" \/ ~r.continue)
  <2>1. Follow(m, r) = Leave(to)
    BY <1>2, <1>7
  <2> QED BY <1>1, <1>3, <1>7, <2>1, LeaveFacts DEF next, Keeps, Terminal
<1>8. CASE next # "none" /\ ~(r.continue /\ next = m.state /\ next \in Suspendable)
           /\ ~(next = "DONE" \/ ~r.continue) /\ next = m.state
  <2>1. Follow(m, r) = Loop(again)
    BY <1>2, <1>8
  <2> QED BY <1>1, <1>4, <1>8, <2>1, LoopFacts DEF next, Keeps
<1>9. CASE next # "none" /\ ~(next = "DONE" \/ ~r.continue) /\ next # m.state
  <2>1. Follow(m, r) = Loop(on)
    BY <1>2, <1>9
  <2> QED BY <1>1, <1>5, <1>9, <2>1, LoopFacts DEF next, Keeps
<1> QED BY <1>6, <1>7, <1>8, <1>9

LEMMA AdvanceFacts ==
    ASSUME NEW m \in CallStates, m.at = "working", Working(m), NEW r \in Outcomes, NEW pr \in BOOLEAN
    PROVE  LET n == Advance(m, r, pr)
               next == Resolve(r.next, m.phases)
               closes == ExitGateCloses(m, next, pr) IN
           /\ n \in CallStates /\ Working(n) /\ n.escalations = m.escalations
           /\ n.at \in {"working", "overBudget", "deleting", "ended"}
           /\ n.at \in {"working", "overBudget"} => n.phases = m.phases
           /\ m.gated => n.gated
           /\ ~closes /\ m.state = "EXECUTE" /\ pr => n.gated
           /\ n.state \in {m.state, next, "ESCALATE"} \ {"none"}
           /\ closes => n.state \in {m.state, "ESCALATE"} /\ n.at \in {"working", "overBudget"}
           /\ ~closes /\ next = "none" => n.state = m.state /\ n.at \in {"deleting", "ended"}
           /\ n.at = "ended" => n.state \notin Terminal /\ (n.state = next \/ next = "none")
<1> DEFINE next == Resolve(r.next, m.phases)
<1>1. next \in States \cup {"none"} /\ m.state \in States
  <2>1. r.next \in States \cup {"none"} /\ m.phases \in SUBSET Phases
    BY Fields DEF Outcomes
  <2> QED BY <2>1, ResolveFacts, Fields
<1> HIDE DEF next
<1>2. CASE ExitGateCloses(m, next, pr)
  <2> DEFINE x == [m EXCEPT !.transitions = @ + 1]
  <2>1. Advance(m, r, pr) = Loop(x)
    BY <1>2 DEF Advance, next
  <2>2. m.transitions + 1 \in 0..MaxTransitions
    BY Fields, Constants DEF Working
  <2>3. x \in CallStates /\ x.state = m.state /\ Keeps(x, m) /\ x.phases = m.phases
    BY <2>2, TransitionsSet DEF Keeps
  <2> HIDE DEF x
  <2> QED BY <1>1, <1>2, <2>1, <2>3, LoopFacts DEF next, Keeps, States, Phases
<1>3. CASE ~ExitGateCloses(m, next, pr)
  <2> DEFINE b == m.gated \/ (m.state = "EXECUTE" /\ pr)
             x == [m EXCEPT !.gated = b]
  <2>1. Advance(m, r, pr) = Follow(x, r)
    BY <1>3 DEF Advance, next
  <2>2. b \in BOOLEAN
    OBVIOUS
  <2>3. /\ x \in CallStates /\ x.at = m.at /\ x.state = m.state /\ x.gated = b /\ x.phases = m.phases
        /\ x.transitions = m.transitions /\ x.sameState = m.sameState /\ x.escalations = m.escalations
    <3> HIDE DEF b
    <3> QED BY <2>2, GatedSet
  <2>4. Working(x) /\ x.at = "working"
    BY <2>3 DEF Working
  <2> HIDE DEF x
  <2>5. LET n == Follow(x, r) IN
        /\ n \in CallStates /\ Working(n) /\ Keeps(n, x)
        /\ n.at \in {"working", "overBudget", "deleting", "ended"}
        /\ n.at \in {"working", "overBudget"} => n.phases = x.phases
        /\ n.state \in {x.state, next, "ESCALATE"} \ {"none"}
        /\ next = "none" => n.state = x.state /\ n.at \in {"deleting", "ended"}
        /\ n.at = "ended" => n.state \notin Terminal /\ (n.state = next \/ next = "none")
    BY <2>3, <2>4, FollowFacts DEF next
  <2> QED BY <1>1, <1>3, <2>1, <2>3, <2>5 DEF next, Keeps
<1> QED BY <1>2, <1>3

LEMMA ResultFacts ==
    ASSUME NEW m \in CallStates, m.state # "DONE", NEW r, NEW pr \in BOOLEAN, Result(m, r, pr)
    PROVE  /\ r \in Outcomes
           /\ m.state = "ESCALATE" => r.next = "none"
           /\ m.state \in {"INTAKE", "PLAN"} => r.next \in {"PLAN", "EXECUTE", "ESCALATE"}
<1>1. \A s \in States \ {"DONE"} : Returns(s) \subseteq Outcomes
  <2>1. /\ IntakeResults \subseteq Outcomes /\ PlanResults \subseteq Outcomes
        /\ EscalateResults \subseteq Outcomes /\ DeployResults \subseteq Outcomes
    BY DEF IntakeResults, PlanResults, EscalateResults, DeployResults, Go, Stop, Outcomes, States, Phases
  <2>2. ExecuteResults \subseteq Outcomes
    BY DEF ExecuteResults, Go, Stop, Outcomes, States, Phases
  <2>3. ReviewResults \subseteq Outcomes /\ MergeResults \subseteq Outcomes
    BY DEF ReviewResults, MergeResults, Go, Stop, Outcomes, States, Phases
  <2> QED BY <2>1, <2>2, <2>3 DEF Returns, States, Phases
<1>2. m.state \in States \ {"DONE"}
  BY Fields
<1>3. CASE m.state # "EXECUTE"
  <2>1. r \in Returns(m.state)
    BY <1>3 DEF Result
  <2>2. r \in Outcomes
    BY <1>1, <1>2, <2>1
  <2>3. CASE m.state = "ESCALATE"
    <3>1. r \in EscalateResults
      BY <2>1, <2>3 DEF Returns
    <3> QED BY <2>2, <2>3, <3>1 DEF EscalateResults, Stop
  <2>4. CASE m.state = "INTAKE"
    <3>1. r \in IntakeResults
      BY <2>1, <2>4 DEF Returns
    <3> QED BY <2>2, <2>4, <3>1 DEF IntakeResults, Go
  <2>5. CASE m.state = "PLAN"
    <3>1. r \in PlanResults
      BY <2>1, <2>5 DEF Returns
    <3> QED BY <2>2, <2>5, <3>1 DEF PlanResults, Go
  <2> QED BY <2>2, <2>3, <2>4, <2>5
<1>4. CASE m.state = "EXECUTE"
  <2>1. \E s \in Phases : r \in Returns(s)
    BY <1>4 DEF Result, Phases
  <2> QED BY <1>1, <1>4, <2>1 DEF Phases, States
<1> QED BY <1>3, <1>4

--------------------------------------------------------------------------------
(* The queue of saves.  Beyond its type, only its elements and its last one matter. *)

In(x, q) == \E i \in 1..Len(q) : q[i] = x
LastOf(q) == q[Len(q)]

LEMMA WrittenFacts ==
    ASSUME NEW m \in CallStates, NEW x \in Saves
    PROVE  /\ Written(x, m) \in Snapshots /\ Written(x, m) # None
           /\ Written(x, m).gated = m.gated
           /\ Written(x, m).state = IF x = "current" THEN m.state ELSE x
BY Fields DEF Written, Saves, Snapshots, States, Phases, None

LEMMA TailFacts ==
    ASSUME NEW q \in Seq(Saves), q # <<>>
    PROVE  /\ Head(q) \in Saves /\ In(Head(q), q) /\ Tail(q) \in Seq(Saves)
           /\ \A x : In(x, Tail(q)) => In(x, q)
           /\ Tail(q) # <<>> => LastOf(Tail(q)) = LastOf(q)
           /\ Tail(q) = <<>> => LastOf(q) = Head(q)
<1>1. Len(q) \in Nat /\ Len(q) > 0 /\ Tail(q) \in Seq(Saves) /\ Len(Tail(q)) = Len(q) - 1 /\ Head(q) = q[1]
  BY HeadTailProperties, EmptySeq, LenProperties
<1>2. \A i \in 1..(Len(q) - 1) : Tail(q)[i] = q[i + 1]
  BY HeadTailProperties
<1>3. Tail(q) # <<>> => Len(Tail(q)) > 0
  BY <1>1, EmptySeq
<1>4. Head(q) \in Saves
  BY HeadTailProperties
<1>5. \A x : In(x, Tail(q)) => In(x, q)
  <2> SUFFICES ASSUME NEW x, NEW i \in 1..Len(Tail(q)), Tail(q)[i] = x
               PROVE  In(x, q)
    BY DEF In
  <2>1. i + 1 \in 1..Len(q) /\ q[i + 1] = x
    BY <1>1, <1>2
  <2> QED BY <2>1 DEF In
<1>6. Tail(q) # <<>> => LastOf(Tail(q)) = LastOf(q)
  BY <1>1, <1>2, <1>3 DEF LastOf
<1>7. Tail(q) = <<>> => LastOf(q) = Head(q)
  BY <1>1, EmptySeq DEF LastOf
<1>8. In(Head(q), q)
  BY <1>1 DEF In
<1> QED BY <1>1, <1>4, <1>5, <1>6, <1>7, <1>8

LEMMA AppendedFacts ==
    ASSUME NEW q \in Seq(Saves), NEW saves \in Seq(Saves)
    PROVE  /\ q \o saves \in Seq(Saves)
           /\ \A x : In(x, q \o saves) => In(x, q) \/ In(x, saves)
           /\ saves # <<>> => q \o saves # <<>> /\ LastOf(q \o saves) = LastOf(saves)
           /\ saves = <<>> => q \o saves = q
<1>1. /\ q \o saves \in Seq(Saves) /\ Len(q \o saves) = Len(q) + Len(saves)
      /\ \A i \in 1..(Len(q) + Len(saves)) :
            (q \o saves)[i] = IF i <= Len(q) THEN q[i] ELSE saves[i - Len(q)]
  BY ConcatProperties
<1>2. Len(q) \in Nat /\ Len(saves) \in Nat /\ (saves # <<>> => Len(saves) > 0)
  BY LenProperties, EmptySeq
<1>3. \A x : In(x, q \o saves) => In(x, q) \/ In(x, saves)
  <2> SUFFICES ASSUME NEW i \in 1..(Len(q) + Len(saves))
               PROVE  In((q \o saves)[i], q) \/ In((q \o saves)[i], saves)
    BY <1>1 DEF In
  <2>1. CASE i <= Len(q)
    BY <1>1, <1>2, <2>1 DEF In
  <2>2. CASE i > Len(q)
    <3>1. i - Len(q) \in 1..Len(saves) /\ (q \o saves)[i] = saves[i - Len(q)]
      BY <1>1, <1>2, <2>2
    <3> QED BY <3>1 DEF In
  <2> QED BY <1>2, <2>1, <2>2
<1>4. saves # <<>> => q \o saves # <<>> /\ LastOf(q \o saves) = LastOf(saves)
  <2> SUFFICES ASSUME saves # <<>>
               PROVE  q \o saves # <<>> /\ LastOf(q \o saves) = LastOf(saves)
    OBVIOUS
  <2>1. Len(q) + Len(saves) > 0 /\ Len(q) + Len(saves) > Len(q)
    BY <1>2
  <2>2. q \o saves # <<>>
    BY <1>1, <2>1, EmptySeq
  <2>3. Len(q) + Len(saves) \in 1..(Len(q) + Len(saves)) /\ (Len(q) + Len(saves)) - Len(q) = Len(saves)
    BY <1>2, <2>1
  <2> QED BY <1>1, <1>2, <2>1, <2>2, <2>3 DEF LastOf
<1>5. saves = <<>> => q \o saves = q
  BY ConcatEmptySeq
<1> QED BY <1>1, <1>3, <1>4, <1>5

--------------------------------------------------------------------------------
(* What every call and its queue satisfy. *)

Early == {"uncalled", "loading", "validating", "starting", "refused", "crashed"}

Idle == \A c \in Calls : call[c].at \in Early => queue[c] = <<>> /\ flight[c] = None
Drained == \A c \in Calls : flight[c] = None => queue[c] = <<>>
AtWork == \A c \in Calls : Working(call[c]) /\ (call[c].at = "working" => call[c].phases \in Workflows)
Once ==
    \A c \in Calls : /\ call[c].escalations \in {0, 1}
                     /\ call[c].at \notin {"deleting", "ended"} => call[c].escalations = 0

(* TypeOK without threw, which nothing depends on. *)
Typed ==
    /\ call \in [Calls -> CallStates]
    /\ queue \in [Calls -> Seq(Saves)]
    /\ flight \in [Calls -> Snapshots \cup {None}]
    /\ checkpoint \in Snapshots \cup {None}
    /\ temps \subseteq Temps
    /\ crashes \in 0..MaxCrashes

Common == Typed /\ Idle /\ Drained /\ AtWork /\ Once

(* A call n that may take the place of m. *)
Good(n) ==
    /\ n \in CallStates /\ Working(n) /\ (n.at = "working" => n.phases \in Workflows)
    /\ n.escalations \in {0, 1} /\ (n.at \notin {"deleting", "ended"} => n.escalations = 0)

FilesTyped ==
    checkpoint' \in Snapshots \cup {None} /\ temps' \subseteq Temps /\ crashes' \in 0..MaxCrashes

LEMMA FilesUnchanged ==
    ASSUME Common, UNCHANGED <<checkpoint, temps, crashes>>
    PROVE  FilesTyped
BY DEF Common, Typed, FilesTyped

LEMMA AboutCall ==
    ASSUME Common, NEW c \in Calls
    PROVE  /\ call \in [Calls -> CallStates] /\ call[c] \in CallStates /\ Good(call[c])
           /\ queue \in [Calls -> Seq(Saves)] /\ queue[c] \in Seq(Saves)
           /\ flight \in [Calls -> Snapshots \cup {None}] /\ flight[c] \in Snapshots \cup {None}
           /\ checkpoint \in Snapshots \cup {None}
           /\ flight[c] = None => queue[c] = <<>>
           /\ call[c].at \in Early => queue[c] = <<>> /\ flight[c] = None
BY DEF Common, Typed, Idle, Drained, AtWork, Once, Good

LEMMA SetKeeps ==
    ASSUME Common, NEW c \in Calls, NEW n, Good(n), Set(c, n),
           n.at \in Early => call[c].at \in Early,
           UNCHANGED <<queue, flight>>, FilesTyped
    PROVE  Common'
<1>1. n \in CallStates /\ call \in [Calls -> CallStates]
  BY DEF Good, Common, Typed
<1>2. call' \in [Calls -> CallStates] /\ call'[c] = n /\ \A d \in Calls \ {c} : call'[d] = call[d]
  BY <1>1 DEF Set
<1>3. Typed'
  BY <1>2 DEF Common, Typed, FilesTyped
<1>4. Idle' /\ Drained'
  BY <1>2 DEF Common, Idle, Drained
<1>5. AtWork'
  BY <1>2 DEF Common, AtWork, Good
<1>6. Once'
  BY <1>2 DEF Common, Once, Good
<1> QED BY <1>3, <1>4, <1>5, <1>6 DEF Common

LEMMA EnqueueFacts ==
    ASSUME Common, NEW c \in Calls, NEW saves \in Seq(Saves), NEW n \in CallStates, Enqueue(c, saves, n)
    PROVE  /\ queue' \in [Calls -> Seq(Saves)] /\ flight' \in [Calls -> Snapshots \cup {None}]
           /\ \A d \in Calls \ {c} : queue'[d] = queue[d] /\ flight'[d] = flight[d]
           /\ flight'[c] = None => queue'[c] = <<>>
           /\ \A x : In(x, queue'[c]) => In(x, queue[c]) \/ In(x, saves)
           /\ \/ flight'[c] = flight[c]
              \/ \E x \in Saves : In(x, saves) /\ flight'[c] = Written(x, n)
           /\ saves = <<>> => queue' = queue /\ flight' = flight
           /\ saves # <<>> => /\ flight'[c] # None
                              /\ queue'[c] # <<>> => LastOf(queue'[c]) = LastOf(saves)
                              /\ queue'[c] = <<>> => flight'[c] = Written(LastOf(saves), n)
<1>1. /\ queue \in [Calls -> Seq(Saves)] /\ queue[c] \in Seq(Saves)
      /\ flight \in [Calls -> Snapshots \cup {None}] /\ (flight[c] = None => queue[c] = <<>>)
  BY AboutCall
<1>2. CASE flight[c] # None
  <2> DEFINE q == queue[c] \o saves
  <2>1. queue' = [queue EXCEPT ![c] = q] /\ flight' = flight
    BY <1>2 DEF Enqueue
  <2>2. /\ q \in Seq(Saves) /\ (\A x : In(x, q) => In(x, queue[c]) \/ In(x, saves))
        /\ saves # <<>> => q # <<>> /\ LastOf(q) = LastOf(saves)
        /\ saves = <<>> => q = queue[c]
    BY <1>1, AppendedFacts
  <2> HIDE DEF q
  <2>3. queue'[c] = q /\ queue' \in [Calls -> Seq(Saves)] /\ \A d \in Calls \ {c} : queue'[d] = queue[d]
    BY <1>1, <2>1, <2>2
  <2>4. saves = <<>> => queue' = queue
    BY <1>1, <2>1, <2>2
  <2> QED BY <1>1, <1>2, <2>1, <2>2, <2>3, <2>4
<1>3. CASE flight[c] = None /\ saves = <<>>
  BY <1>1, <1>3 DEF Enqueue
<1>4. CASE flight[c] = None /\ saves # <<>>
  <2> DEFINE h == Head(saves)
             t == Tail(saves)
             fl == Written(h, n)
  <2>1. flight' = [flight EXCEPT ![c] = fl] /\ queue' = [queue EXCEPT ![c] = t]
    BY <1>4 DEF Enqueue
  <2>2. /\ h \in Saves /\ In(h, saves) /\ t \in Seq(Saves)
        /\ \A x : In(x, t) => In(x, saves)
        /\ t # <<>> => LastOf(t) = LastOf(saves)
        /\ t = <<>> => LastOf(saves) = h
    BY <1>4, TailFacts
  <2> HIDE DEF h, t
  <2>3. fl \in Snapshots /\ fl # None
    BY <2>2, WrittenFacts
  <2>4. flight' \in [Calls -> Snapshots \cup {None}] /\ flight'[c] = fl
        /\ \A d \in Calls \ {c} : flight'[d] = flight[d]
    BY <1>1, <2>1, <2>3
  <2>5. queue' \in [Calls -> Seq(Saves)] /\ queue'[c] = t
        /\ \A d \in Calls \ {c} : queue'[d] = queue[d]
    BY <1>1, <2>1, <2>2
  <2> QED BY <1>4, <2>2, <2>3, <2>4, <2>5
<1> QED BY <1>2, <1>3, <1>4

LEMMA EnqueueKeeps ==
    ASSUME Common, NEW c \in Calls, NEW saves \in Seq(Saves), NEW n, Good(n), n.at \notin Early,
           Set(c, n), Enqueue(c, saves, n), FilesTyped
    PROVE  Common'
<1>1. n \in CallStates /\ call \in [Calls -> CallStates]
  BY DEF Good, Common, Typed
<1>2. call' \in [Calls -> CallStates] /\ call'[c] = n /\ \A d \in Calls \ {c} : call'[d] = call[d]
  BY <1>1 DEF Set
<1>3. /\ queue' \in [Calls -> Seq(Saves)] /\ flight' \in [Calls -> Snapshots \cup {None}]
      /\ \A d \in Calls \ {c} : queue'[d] = queue[d] /\ flight'[d] = flight[d]
      /\ flight'[c] = None => queue'[c] = <<>>
  BY <1>1, EnqueueFacts
<1>4. Typed'
  BY <1>2, <1>3 DEF Typed, FilesTyped
<1>5. Idle' /\ Drained'
  BY <1>2, <1>3 DEF Common, Idle, Drained
<1>6. AtWork'
  BY <1>2 DEF Common, AtWork, Good
<1>7. Once'
  BY <1>2 DEF Common, Once, Good
<1> QED BY <1>4, <1>5, <1>6, <1>7 DEF Common

--------------------------------------------------------------------------------
(* What each action makes of its call: Good, and what else is asked of it. *)

LEMMA AtMoves ==
    ASSUME Common, NEW c \in Calls, NEW at \in CallAts,
           \/ call[c].at \in Early /\ at \in Early
           \/ call[c].at = "deleting" /\ at = "ended"
    PROVE  LET n == [call[c] EXCEPT !.at = at] IN
           /\ Good(n) /\ n.at = at /\ n.state = call[c].state /\ n.gated = call[c].gated
<1> DEFINE n == [call[c] EXCEPT !.at = at]
<1>1. call[c] \in CallStates /\ Good(call[c])
  BY AboutCall
<1>2. /\ n \in CallStates /\ n.at = at /\ n.state = call[c].state /\ n.gated = call[c].gated
      /\ n.escalations = call[c].escalations
  BY <1>1, AtSet
<1> HIDE DEF n
<1> QED BY <1>1, <1>2 DEF Good, Working, Early, n

(* The call as Load leaves it when it finds t. *)
Loaded(c, at, t) == [call[c] EXCEPT !.at = at, !.state = t.state, !.gated = t.gated]

LEMMA LoadedFacts ==
    ASSUME Common, NEW c \in Calls, call[c].at \in Early, NEW at \in Early, NEW t \in Snapshots
    PROVE  LET n == Loaded(c, at, t) IN
           Good(n) /\ n.at = at /\ n.state = t.state /\ n.gated = t.gated
<1> DEFINE x == [call[c] EXCEPT !.at = at]
           y == [x EXCEPT !.state = t.state]
           z == [y EXCEPT !.gated = t.gated]
<1>1. call[c] \in CallStates /\ Good(call[c]) /\ t.state \in States /\ t.gated \in BOOLEAN /\ at \in CallAts
  BY AboutCall DEF Snapshots, Early, CallAts
<1>2. x \in CallStates /\ x.at = at /\ x.escalations = call[c].escalations
  BY <1>1, AtSet
<1> HIDE DEF x
<1>3. y \in CallStates /\ y.at = at /\ y.escalations = call[c].escalations /\ y.state = t.state
  BY <1>1, <1>2, StateSet
<1> HIDE DEF y
<1>4. z \in CallStates /\ z.at = at /\ z.escalations = call[c].escalations /\ z.state = t.state /\ z.gated = t.gated
  BY <1>1, <1>3, GatedSet
<1>5. Loaded(c, at, t) = z
  BY DEF x, y, Loaded
<1> HIDE DEF z
<1>6. Good(z)
  BY <1>1, <1>4 DEF Good, Working, Early
<1> QED BY <1>4, <1>5, <1>6

LEMMA StartFacts ==
    ASSUME Common, NEW c \in Calls, call[c].at = "starting", NEW w \in Workflows, NEW described \in BOOLEAN
    PROVE  LET n == Loop([call[c] EXCEPT !.phases = w, !.described = described, !.state = Resolve(@, w)]) IN
           /\ Good(n) /\ n.at \in {"working", "overBudget"} /\ n.gated = call[c].gated
           /\ n.state \in {Resolve(call[c].state, w), "ESCALATE"}
<1> DEFINE x == [call[c] EXCEPT !.phases = w]
           y == [x EXCEPT !.described = described]
           z == [y EXCEPT !.state = Resolve(call[c].state, w)]
<1>1. call[c] \in CallStates /\ Good(call[c]) /\ w \in SUBSET Phases
  BY AboutCall, Constants
<1>2. Resolve(call[c].state, w) \in States
  BY <1>1, Fields, ResolveFacts DEF States, Phases
<1>3. x \in CallStates /\ Keeps(x, call[c]) /\ x.phases = w /\ x.state = call[c].state
  BY <1>1, PhasesSet DEF Keeps
<1> HIDE DEF x
<1>4. y \in CallStates /\ Keeps(y, call[c]) /\ y.phases = w /\ y.state = call[c].state
  BY <1>3, DescribedSet DEF Keeps
<1> HIDE DEF y
<1>5. z \in CallStates /\ Keeps(z, call[c]) /\ z.phases = w /\ z.state = Resolve(call[c].state, w)
  BY <1>2, <1>4, StateSet DEF Keeps
<1>6. [call[c] EXCEPT !.phases = w, !.described = described, !.state = Resolve(@, w)] = z
  BY <1>3, <1>4 DEF x, y
<1> HIDE DEF z
<1>7. /\ Loop(z) \in CallStates /\ Working(Loop(z)) /\ Keeps(Loop(z), z) /\ Loop(z).phases = w
      /\ Loop(z).at \in {"working", "overBudget"} /\ Loop(z).state \in {z.state, "ESCALATE"}
  BY <1>5, LoopFacts
<1>8. Good(Loop(z))
  BY <1>1, <1>5, <1>7 DEF Good, Keeps, Early
<1> QED BY <1>5, <1>6, <1>7, <1>8 DEF Keeps

(* The call as Process passes it to Advance. *)
Counted(c) == [call[c] EXCEPT !.escalations = IF call[c].state = "ESCALATE" THEN @ + 1 ELSE @]

LEMMA CountedFacts ==
    ASSUME Common, NEW c \in Calls, call[c].at = "working"
    PROVE  /\ Counted(c) \in CallStates /\ Counted(c).at = "working" /\ Working(Counted(c))
           /\ Counted(c).state = call[c].state /\ Counted(c).gated = call[c].gated
           /\ Counted(c).phases = call[c].phases /\ call[c].phases \in Workflows
           /\ Counted(c).escalations = IF call[c].state = "ESCALATE" THEN 1 ELSE 0
           /\ call[c].state \in States \ {"DONE"}
<1> DEFINE i == IF call[c].state = "ESCALATE" THEN call[c].escalations + 1 ELSE call[c].escalations
<1>1. call[c] \in CallStates /\ Good(call[c])
  BY AboutCall
<1>2. call[c].escalations = 0
  BY <1>1 DEF Good
<1>3. Counted(c) = [call[c] EXCEPT !.escalations = i]
  BY DEF Counted
<1>4. i \in Nat /\ i = IF call[c].state = "ESCALATE" THEN 1 ELSE 0
  BY <1>2
<1> HIDE DEF i
<1>5. /\ Counted(c) \in CallStates /\ Counted(c).at = call[c].at /\ Counted(c).state = call[c].state
      /\ Counted(c).gated = call[c].gated /\ Counted(c).phases = call[c].phases
      /\ Counted(c).transitions = call[c].transitions /\ Counted(c).sameState = call[c].sameState
      /\ Counted(c).escalations = i
  BY <1>1, <1>3, <1>4, EscalationsSet
<1> QED BY <1>1, <1>4, <1>5, Fields DEF Good, Working

LEMMA ProcessFacts ==
    ASSUME Common, NEW c \in Calls, NEW r, NEW pr \in BOOLEAN, call[c].at = "working", Result(call[c], r, pr)
    PROVE  LET n == Advance(Counted(c), r, pr)
               next == Resolve(r.next, call[c].phases)
               closes == ExitGateCloses(Counted(c), next, pr) IN
           /\ Good(n) /\ n.at \notin Early /\ r \in Outcomes
           /\ next \in call[c].phases \cup {"none", "DONE", "ESCALATE"}
           /\ call[c].gated => n.gated
           /\ ~closes /\ call[c].state = "EXECUTE" /\ pr => n.gated
           /\ n.state \in {call[c].state, next, "ESCALATE"} \ {"none"}
           /\ closes => n.state \in {call[c].state, "ESCALATE"} /\ n.at \in {"working", "overBudget"}
           /\ ~closes /\ next = "none" => n.state = call[c].state /\ n.at \in {"deleting", "ended"}
           /\ n.at = "ended" => n.state \notin Terminal /\ (n.state = next \/ next = "none")
           /\ call[c].state \in {"INTAKE", "PLAN"} => r.next \in {"PLAN", "EXECUTE", "ESCALATE"}
           /\ call[c].state = "ESCALATE" => next = "none"
<1> DEFINE m == Counted(c)
           n == Advance(m, r, pr)
           next == Resolve(r.next, call[c].phases)
<1>1. /\ m \in CallStates /\ m.at = "working" /\ Working(m)
      /\ m.state = call[c].state /\ m.gated = call[c].gated
      /\ m.phases = call[c].phases /\ call[c].phases \in Workflows
      /\ m.escalations = IF call[c].state = "ESCALATE" THEN 1 ELSE 0
      /\ call[c].state \in States \ {"DONE"}
  BY CountedFacts
<1>2. /\ r \in Outcomes
      /\ call[c].state = "ESCALATE" => r.next = "none"
      /\ call[c].state \in {"INTAKE", "PLAN"} => r.next \in {"PLAN", "EXECUTE", "ESCALATE"}
  BY <1>1, AboutCall, ResultFacts
<1>3. r.next \in States \cup {"none"} /\ call[c].phases \in SUBSET Phases
  BY <1>1, <1>2, Constants DEF Outcomes
<1>4. next \in call[c].phases \cup {"none", "DONE", "ESCALATE"} /\ (next = "none" <=> r.next = "none")
  BY <1>3, ResolveFacts
<1>5. /\ n \in CallStates /\ Working(n) /\ n.escalations = m.escalations
      /\ n.at \in {"working", "overBudget", "deleting", "ended"}
      /\ n.at \in {"working", "overBudget"} => n.phases = m.phases
      /\ m.gated => n.gated
      /\ ~ExitGateCloses(m, next, pr) /\ m.state = "EXECUTE" /\ pr => n.gated
      /\ n.state \in {m.state, next, "ESCALATE"} \ {"none"}
      /\ ExitGateCloses(m, next, pr) => n.state \in {m.state, "ESCALATE"} /\ n.at \in {"working", "overBudget"}
      /\ ~ExitGateCloses(m, next, pr) /\ next = "none" => n.state = m.state /\ n.at \in {"deleting", "ended"}
      /\ n.at = "ended" => n.state \notin Terminal /\ (n.state = next \/ next = "none")
  <2>1. Resolve(r.next, m.phases) = next
    BY <1>1
  <2> HIDE DEF m
  <2> QED BY <1>1, <1>2, <2>1, AdvanceFacts
<1>6. call[c].state = "ESCALATE" => ~ExitGateCloses(m, next, pr)
  BY <1>1 DEF ExitGateCloses
<1> HIDE DEF m, n, next
<1>7. Good(n)
  BY <1>1, <1>2, <1>4, <1>5, <1>6 DEF Good
<1> QED BY <1>1, <1>2, <1>4, <1>5, <1>7 DEF m, n, next, Early

(* The saves of a step of Process, in the order they are queued. *)
Saved(c, r, pr) == ExitSave(Counted(c), r, pr) \o EntrySave(Advance(Counted(c), r, pr))

LEMMA SingleFacts ==
    ASSUME NEW x \in Saves
    PROVE  /\ <<x>> \in Seq(Saves) /\ <<x>> # <<>> /\ LastOf(<<x>>) = x
           /\ \A y : In(y, <<x>>) => y = x
BY DEF In, LastOf

LEMMA EmptyFacts == <<>> \in Seq(Saves) /\ \A y : ~In(y, <<>>)
BY DEF In

LEMMA SavedFacts ==
    ASSUME Common, NEW c \in Calls, NEW r, NEW pr \in BOOLEAN, call[c].at = "working", Result(call[c], r, pr)
    PROVE  LET n == Advance(Counted(c), r, pr)
               next == Resolve(r.next, call[c].phases)
               exit == ~ExitGateCloses(Counted(c), next, pr) /\ next \notin Terminal \cup {"none"}
               entry == n.at = "working" /\ n.state \notin Terminal
               saves == Saved(c, r, pr) IN
           /\ saves \in Seq(Saves)
           /\ \A x : In(x, saves) => x = "current" \/ (exit /\ x = next)
           /\ entry => saves # <<>> /\ LastOf(saves) = "current"
           /\ ~entry /\ exit => saves # <<>> /\ LastOf(saves) = next
           /\ ~entry /\ ~exit => saves = <<>>
<1> DEFINE m == Counted(c)
           n == Advance(m, r, pr)
           next == Resolve(r.next, call[c].phases)
           exit == ~ExitGateCloses(m, next, pr) /\ next \notin Terminal \cup {"none"}
           entry == n.at = "working" /\ n.state \notin Terminal
           first == ExitSave(m, r, pr)
           second == EntrySave(n)
<1>1. m.phases = call[c].phases
  BY CountedFacts
<1>2. first = IF exit THEN <<next>> ELSE <<>>
  BY <1>1 DEF ExitSave
<1>3. second = IF entry THEN <<"current">> ELSE <<>>
  BY DEF EntrySave
<1>4. exit => next \in Saves
  <2>1. next \in call[c].phases \cup {"none", "DONE", "ESCALATE"} /\ call[c].phases \subseteq Phases
    BY ProcessFacts, AboutCall, Fields
  <2> HIDE DEF next
  <2> QED BY <2>1 DEF Saves, Terminal
<1>5. "current" \in Saves /\ <<>> \in Seq(Saves)
  BY DEF Saves
<1>6. Saved(c, r, pr) = first \o second
  BY DEF Saved
<1> HIDE DEF first, second, exit, entry, n, next, m
<1>7. first \in Seq(Saves) /\ (\A x : In(x, first) => exit /\ x = next)
  BY <1>2, <1>4, EmptyFacts, SingleFacts
<1>8. /\ second \in Seq(Saves) /\ (\A x : In(x, second) => x = "current")
      /\ entry => second # <<>> /\ LastOf(second) = "current"
  BY <1>3, <1>5, EmptyFacts, SingleFacts
<1>9. /\ first \o second \in Seq(Saves)
      /\ \A x : In(x, first \o second) => In(x, first) \/ In(x, second)
      /\ second # <<>> => first \o second # <<>> /\ LastOf(first \o second) = LastOf(second)
      /\ second = <<>> => first \o second = first
  BY <1>7, <1>8, AppendedFacts
<1>10. ~entry => second = <<>>
  BY <1>3
<1>11. exit => first # <<>> /\ LastOf(first) = next
  BY <1>2, <1>4, SingleFacts
<1>12. ~exit => first = <<>>
  BY <1>2
<1> QED BY <1>6, <1>7, <1>8, <1>9, <1>10, <1>11, <1>12 DEF exit, entry, n, next, m

--------------------------------------------------------------------------------
(* Every step keeps Common. *)

LEMMA InitCommon ==
    ASSUME Init
    PROVE  Common
<1>1. Typed
  BY UncalledFacts, Constants DEF Init, Typed, None
<1>2. Idle /\ Drained /\ AtWork /\ Once
  BY UncalledFacts DEF Init, Idle, Drained, AtWork, Once, Working
<1> QED BY <1>1, <1>2 DEF Common

LEMMA CallProcessCommon ==
    ASSUME Common, NEW c \in Calls, CallProcess(c)
    PROVE  Common'
<1> DEFINE n == [call[c] EXCEPT !.at = "loading"]
<1>1. call[c].at \in Early /\ "loading" \in CallAts /\ "loading" \in Early /\ Set(c, n)
      /\ UNCHANGED <<queue, flight>> /\ UNCHANGED <<checkpoint, temps, crashes>>
  BY DEF CallProcess, Early, CallAts
<1>2. Good(n)
  BY <1>1, AtMoves
<1> HIDE DEF n
<1> QED BY <1>1, <1>2, SetKeeps, FilesUnchanged

LEMMA RefuseCommon ==
    ASSUME Common, NEW c \in Calls, Refuse(c)
    PROVE  Common'
<1> DEFINE n == [call[c] EXCEPT !.at = "refused"]
<1>1. call[c].at \in Early /\ "refused" \in CallAts /\ "refused" \in Early /\ Set(c, n)
      /\ UNCHANGED <<queue, flight>> /\ UNCHANGED <<checkpoint, temps, crashes>>
  BY DEF Refuse, Early, CallAts
<1>2. Good(n)
  BY <1>1, AtMoves
<1> HIDE DEF n
<1> QED BY <1>1, <1>2, SetKeeps, FilesUnchanged

LEMMA ResumeCommon ==
    ASSUME Common, NEW c \in Calls, Resume(c)
    PROVE  Common'
<1> DEFINE n == [call[c] EXCEPT !.at = "starting"]
<1>1. call[c].at \in Early /\ "starting" \in CallAts /\ "starting" \in Early /\ Set(c, n)
      /\ UNCHANGED <<queue, flight>> /\ UNCHANGED <<checkpoint, temps, crashes>>
  BY DEF Resume, Early, CallAts
<1>2. Good(n)
  BY <1>1, AtMoves
<1> HIDE DEF n
<1> QED BY <1>1, <1>2, SetKeeps, FilesUnchanged

LEMMA FoundFacts ==
    ASSUME Common, NEW t \in Snapshots \cup {None}, Found(t)
    PROVE  /\ checkpoint' \in {t, checkpoint} /\ temps' \subseteq temps
           /\ \/ t = None
              \/ t = checkpoint
              \/ \E d \in Calls : t = flight[d]
              \/ \E f \in temps : t = f.snapshot
<1>1. CASE checkpoint # None
  BY <1>1 DEF Found
<1>2. CASE checkpoint = None
  <2>1. ASSUME t \in {flight[d] : d \in Calls} \ {None}, checkpoint' = t, UNCHANGED temps
        PROVE  checkpoint' \in {t, checkpoint} /\ temps' \subseteq temps /\ \E d \in Calls : t = flight[d]
    BY <2>1
  <2>2. ASSUME NEW f \in Newest(temps), t = f.snapshot, checkpoint' = t, temps' = temps \ {f}
        PROVE  checkpoint' \in {t, checkpoint} /\ temps' \subseteq temps /\ \E g \in temps : t = g.snapshot
    BY <2>2 DEF Newest
  <2>3. ASSUME t = None, UNCHANGED <<checkpoint, temps>>
        PROVE  checkpoint' \in {t, checkpoint} /\ temps' \subseteq temps
    BY <2>3
  <2> QED BY <1>2, <2>1, <2>2, <2>3 DEF Found
<1> QED BY <1>1, <1>2

LEMMA LoadCommon ==
    ASSUME Common, NEW c \in Calls, Load(c)
    PROVE  Common'
<1>1. PICK t \in Snapshots \cup {None} :
        /\ Found(t)
        /\ Set(c, IF t = None
                  THEN [call[c] EXCEPT !.at = "starting"]
                  ELSE Loaded(c, "validating", t))
  BY DEF Load, Loaded
<1>2. call[c].at \in Early /\ {"starting", "validating"} \subseteq CallAts \cap Early
      /\ UNCHANGED <<queue, flight>> /\ crashes' = crashes
  BY DEF Load, Early, CallAts
<1>3. FilesTyped
  BY <1>1, <1>2, FoundFacts DEF Common, Typed, FilesTyped
<1>4. CASE t = None
  <2> DEFINE n == [call[c] EXCEPT !.at = "starting"]
  <2>1. Set(c, n) /\ Good(n)
    BY <1>1, <1>2, <1>4, AtMoves
  <2> HIDE DEF n
  <2> QED BY <1>2, <1>3, <2>1, SetKeeps
<1>5. CASE t # None
  <2> DEFINE n == Loaded(c, "validating", t)
  <2>1. Set(c, n) /\ Good(n)
    BY <1>1, <1>2, <1>5, LoadedFacts
  <2> HIDE DEF n
  <2> QED BY <1>2, <1>3, <2>1, SetKeeps
<1> QED BY <1>4, <1>5

(* The call as Invalidate leaves it. *)
Anew(c, at) == [call[c] EXCEPT !.at = at, !.state = "INTAKE", !.gated = FALSE]

LEMMA AnewFacts ==
    ASSUME Common, NEW c \in Calls, call[c].at = "validating", NEW at \in {"starting", "refused"}
    PROVE  Good(Anew(c, at)) /\ Anew(c, at).at = at /\ Anew(c, at).state = "INTAKE" /\ ~Anew(c, at).gated
<1>1. PICK t \in Snapshots : t.state = "INTAKE" /\ t.gated = FALSE
  <2>1. [state |-> "INTAKE", gated |-> FALSE] \in Snapshots
    BY DEF Snapshots, States, Phases
  <2> QED BY <2>1
<1>2. call[c].at \in Early /\ at \in Early
  BY DEF Early
<1>3. Anew(c, at) = Loaded(c, at, t)
  BY <1>1 DEF Anew, Loaded
<1> QED BY <1>1, <1>2, <1>3, LoadedFacts

LEMMA InvalidateCommon ==
    ASSUME Common, NEW c \in Calls, Invalidate(c)
    PROVE  Common'
<1>1. PICK at \in {"starting", "refused"} : Set(c, Anew(c, at))
  BY DEF Invalidate, Anew
<1>2. call[c].at = "validating" /\ call[c].at \in Early /\ UNCHANGED <<queue, flight>>
  BY DEF Invalidate, Early
<1>3. FilesTyped
  BY DEF Invalidate, Unlink, Common, Typed, FilesTyped
<1> QED BY <1>1, <1>2, <1>3, AnewFacts, SetKeeps

LEMMA EntrySaveTyped ==
    ASSUME NEW n
    PROVE  EntrySave(n) \in Seq(Saves)
BY SingleFacts, EmptyFacts DEF EntrySave, Saves

LEMMA StartCommon ==
    ASSUME Common, NEW c \in Calls, Start(c)
    PROVE  Common'
<1>1. PICK w \in Workflows, described \in BOOLEAN :
        LET n == Loop([call[c] EXCEPT !.phases = w, !.described = described, !.state = Resolve(@, w)])
        IN  Set(c, n) /\ Enqueue(c, EntrySave(n), n)
  BY DEF Start
<1> DEFINE n == Loop([call[c] EXCEPT !.phases = w, !.described = described, !.state = Resolve(@, w)])
<1>2. Good(n) /\ n.at \in {"working", "overBudget"} /\ Set(c, n) /\ Enqueue(c, EntrySave(n), n)
  BY <1>1, StartFacts DEF Start
<1> HIDE DEF n
<1>3. FilesTyped
  BY FilesUnchanged DEF Start
<1> QED BY <1>2, <1>3, EntrySaveTyped, EnqueueKeeps DEF Early

LEMMA ProcessCommon ==
    ASSUME Common, NEW c \in Calls, NEW r, NEW pr \in BOOLEAN, Process(c, r, pr)
    PROVE  Common'
<1> DEFINE n == Advance(Counted(c), r, pr)
<1>1. /\ call[c].at = "working" /\ Result(call[c], r, pr)
      /\ Set(c, n) /\ Enqueue(c, Saved(c, r, pr), n) /\ UNCHANGED <<checkpoint, temps, crashes>>
  BY DEF Process, Saved, Counted
<1>2. Good(n) /\ n.at \notin Early
  BY <1>1, ProcessFacts
<1>3. Saved(c, r, pr) \in Seq(Saves)
  BY <1>1, SavedFacts
<1> HIDE DEF n
<1> QED BY <1>1, <1>2, <1>3, EnqueueKeeps, FilesUnchanged

(* The call as Throw leaves it. *)
Thrown(c) == Loop([call[c] EXCEPT !.state = "ESCALATE"])

LEMMA ThrownFacts ==
    ASSUME Common, NEW c \in Calls, call[c].at = "working"
    PROVE  Good(Thrown(c)) /\ Thrown(c).at \in {"working", "overBudget"} /\ Thrown(c).state = "ESCALATE"
<1> DEFINE x == [call[c] EXCEPT !.state = "ESCALATE"]
<1>1. call[c] \in CallStates /\ Good(call[c])
  BY AboutCall
<1>2. x \in CallStates /\ x.state = "ESCALATE" /\ Keeps(x, call[c]) /\ x.phases = call[c].phases
  BY <1>1, StateSet DEF States, Keeps
<1> HIDE DEF x
<1>3. /\ Loop(x) \in CallStates /\ Working(Loop(x)) /\ Keeps(Loop(x), x) /\ Loop(x).phases = x.phases
      /\ Loop(x).at \in {"working", "overBudget"} /\ Loop(x).state = "ESCALATE"
  BY <1>2, LoopFacts
<1>4. Good(Loop(x))
  BY <1>1, <1>2, <1>3 DEF Good, Keeps
<1> QED BY <1>3, <1>4 DEF Thrown, x

LEMMA ThrowCommon ==
    ASSUME Common, NEW c \in Calls, Throw(c)
    PROVE  Common'
<1>1. call[c].at = "working" /\ Set(c, Thrown(c)) /\ UNCHANGED <<queue, flight>> /\ FilesTyped
  BY FilesUnchanged DEF Throw, Thrown
<1> QED BY <1>1, ThrownFacts, SetKeeps DEF Early

(* The call as EscalateOverBudget leaves it. *)
GivenUp(c) == Leave([call[c] EXCEPT !.escalations = @ + 1])

LEMMA GivenUpFacts ==
    ASSUME Common, NEW c \in Calls, call[c].at = "overBudget"
    PROVE  Good(GivenUp(c)) /\ GivenUp(c).at = "deleting" /\ GivenUp(c).state = "ESCALATE"
<1> DEFINE x == [call[c] EXCEPT !.escalations = call[c].escalations + 1]
<1>1. call[c] \in CallStates /\ call[c].state = "ESCALATE" /\ call[c].escalations = 0
  BY AboutCall DEF Good, Working
<1>2. x \in CallStates /\ x.state = "ESCALATE" /\ x.escalations = 1
  BY <1>1, EscalationsSet
<1> HIDE DEF x
<1>3. /\ Leave(x) \in CallStates /\ Working(Leave(x)) /\ Leave(x).escalations = 1
      /\ Leave(x).at = "deleting" /\ Leave(x).state = "ESCALATE"
  BY <1>2, LeaveFacts DEF Keeps, Terminal
<1> QED BY <1>3 DEF Good, GivenUp, x

LEMMA EscalateOverBudgetCommon ==
    ASSUME Common, NEW c \in Calls, EscalateOverBudget(c)
    PROVE  Common'
<1>1. call[c].at = "overBudget" /\ Set(c, GivenUp(c)) /\ UNCHANGED <<queue, flight>> /\ FilesTyped
  BY FilesUnchanged DEF EscalateOverBudget, GivenUp
<1> QED BY <1>1, GivenUpFacts, SetKeeps DEF Early

LEMMA DeleteCheckpointCommon ==
    ASSUME Common, NEW c \in Calls, DeleteCheckpoint(c)
    PROVE  Common'
<1> DEFINE n == [call[c] EXCEPT !.at = "ended"]
<1>1. call[c].at = "deleting" /\ Set(c, n) /\ UNCHANGED <<queue, flight>> /\ "ended" \in CallAts
  BY DEF DeleteCheckpoint, CallAts
<1>2. FilesTyped
  BY DEF DeleteCheckpoint, Unlink, Common, Typed, FilesTyped
<1>3. Good(n) /\ n.at = "ended"
  BY <1>1, AtMoves
<1> HIDE DEF n
<1> QED BY <1>1, <1>2, <1>3, SetKeeps DEF Early

(* SaveEnds: the queue and the save under way, by the two cases of the queue. *)
LEMMA SaveEndsFacts ==
    ASSUME Common, NEW c \in Calls, SaveEnds(c)
    PROVE  /\ flight[c] # None /\ call[c].at \notin Early /\ UNCHANGED <<call, temps, crashes>>
           /\ checkpoint' \in {flight[c], checkpoint} /\ (~SavesFail => checkpoint' = flight[c])
           /\ queue' \in [Calls -> Seq(Saves)] /\ flight' \in [Calls -> Snapshots \cup {None}]
           /\ \A d \in Calls \ {c} : queue'[d] = queue[d] /\ flight'[d] = flight[d]
           /\ \A x : In(x, queue'[c]) => In(x, queue[c])
           /\ queue[c] = <<>> => queue'[c] = <<>> /\ flight'[c] = None
           /\ queue[c] # <<>> => /\ \E x \in Saves : In(x, queue[c]) /\ flight'[c] = Written(x, call[c])
                                 /\ flight'[c] # None
                                 /\ queue'[c] # <<>> => LastOf(queue'[c]) = LastOf(queue[c])
                                 /\ queue'[c] = <<>> => flight'[c] = Written(LastOf(queue[c]), call[c])
<1>1. /\ queue \in [Calls -> Seq(Saves)] /\ queue[c] \in Seq(Saves) /\ call[c] \in CallStates
      /\ flight \in [Calls -> Snapshots \cup {None}] /\ (call[c].at \in Early => flight[c] = None)
  BY AboutCall
<1>2. /\ flight[c] # None /\ UNCHANGED <<call, temps, crashes>>
      /\ checkpoint' \in {flight[c], checkpoint} /\ (~SavesFail => checkpoint' = flight[c])
  BY DEF SaveEnds
<1>3. CASE queue[c] = <<>>
  <2>1. flight' = [flight EXCEPT ![c] = None] /\ queue' = queue
    BY <1>3 DEF SaveEnds
  <2>2. /\ flight' \in [Calls -> Snapshots \cup {None}] /\ flight'[c] = None
        /\ \A d \in Calls \ {c} : flight'[d] = flight[d]
    BY <1>1, <2>1
  <2> QED BY <1>1, <1>2, <1>3, <2>1, <2>2
<1>4. CASE queue[c] # <<>>
  <2> DEFINE h == Head(queue[c])
             t == Tail(queue[c])
             fl == Written(h, call[c])
  <2>1. flight' = [flight EXCEPT ![c] = fl] /\ queue' = [queue EXCEPT ![c] = t]
    BY <1>4 DEF SaveEnds
  <2>2. /\ h \in Saves /\ In(h, queue[c]) /\ t \in Seq(Saves)
        /\ \A x : In(x, t) => In(x, queue[c])
        /\ t # <<>> => LastOf(t) = LastOf(queue[c])
        /\ t = <<>> => LastOf(queue[c]) = h
    BY <1>1, <1>4, TailFacts
  <2> HIDE DEF h, t
  <2>3. fl \in Snapshots /\ fl # None
    BY <1>1, <2>2, WrittenFacts
  <2>4. /\ flight' \in [Calls -> Snapshots \cup {None}] /\ flight'[c] = fl
        /\ \A d \in Calls \ {c} : flight'[d] = flight[d]
    BY <1>1, <2>1, <2>3
  <2>5. /\ queue' \in [Calls -> Seq(Saves)] /\ queue'[c] = t
        /\ \A d \in Calls \ {c} : queue'[d] = queue[d]
    BY <1>1, <2>1, <2>2
  <2> QED BY <1>1, <1>2, <1>4, <2>2, <2>3, <2>4, <2>5
<1> QED BY <1>3, <1>4

LEMMA SaveEndsCommon ==
    ASSUME Common, NEW c \in Calls, SaveEnds(c)
    PROVE  Common'
<1>1. /\ flight[c] # None /\ call[c].at \notin Early /\ UNCHANGED <<call, temps, crashes>>
      /\ checkpoint' \in {flight[c], checkpoint}
      /\ queue' \in [Calls -> Seq(Saves)] /\ flight' \in [Calls -> Snapshots \cup {None}]
      /\ \A d \in Calls \ {c} : queue'[d] = queue[d] /\ flight'[d] = flight[d]
      /\ flight'[c] = None => queue'[c] = <<>>
  BY SaveEndsFacts
<1>2. Typed'
  BY <1>1 DEF Common, Typed
<1>3. Idle' /\ Drained' /\ AtWork' /\ Once'
  BY <1>1 DEF Common, Idle, Drained, AtWork, Once
<1> QED BY <1>2, <1>3 DEF Common

LEMMA CrashFacts ==
    ASSUME Common, Crash
    PROVE  /\ \A c \in Calls : call'[c] = IF call[c].at = "uncalled" \/ Quiet(c) THEN call[c]
                                          ELSE [Uncalled EXCEPT !.at = "crashed"]
           /\ call' \in [Calls -> CallStates]
           /\ queue' = [c \in Calls |-> <<>>] /\ flight' = [c \in Calls |-> None]
           /\ checkpoint' = checkpoint \/ \E c \in Calls : flight[c] # None /\ checkpoint' = flight[c]
           /\ \A t \in temps' : t \in temps \/ \E c \in Calls : flight[c] # None /\ t.snapshot = flight[c]
           /\ FilesTyped
<1> DEFINE gone == [Uncalled EXCEPT !.at = "crashed"]
<1>1. gone \in CallStates
  BY UncalledFacts, AtSet DEF CallAts
<1>2. /\ call' = [c \in Calls |-> IF call[c].at = "uncalled" \/ Quiet(c) THEN call[c] ELSE gone]
      /\ queue' = [c \in Calls |-> <<>>] /\ flight' = [c \in Calls |-> None]
      /\ crashes < MaxCrashes /\ crashes' = crashes + 1
  BY DEF Crash
<1> HIDE DEF gone
<1>3. call' \in [Calls -> CallStates]
  BY <1>1, <1>2, AboutCall
<1> DEFINE saving == {c \in Calls : flight[c] # None}
<1>4. PICK left \in SUBSET saving :
        /\ temps' = temps \cup {[snapshot |-> flight[c], crash |-> crashes'] : c \in left}
        /\ checkpoint' \in {checkpoint} \cup {flight[c] : c \in saving \ left}
  BY DEF Crash
<1>5. checkpoint' = checkpoint \/ \E c \in Calls : flight[c] # None /\ checkpoint' = flight[c]
  BY <1>4
<1>6. \A t \in temps' : t \in temps \/ \E c \in Calls : flight[c] # None /\ t = [snapshot |-> flight[c], crash |-> crashes']
  BY <1>4
<1>7. crashes' \in 0..MaxCrashes /\ crashes' \in 1..MaxCrashes
  BY <1>2, Constants DEF Common, Typed
<1>8. \A t \in temps' : t \in Temps
  BY <1>6, <1>7 DEF Common, Typed, Temps
<1>9. checkpoint' \in Snapshots \cup {None}
  BY <1>5 DEF Common, Typed
<1>10. FilesTyped
  BY <1>7, <1>8, <1>9 DEF FilesTyped
<1>11. \A t \in temps' : t \in temps \/ \E c \in Calls : flight[c] # None /\ t.snapshot = flight[c]
  BY <1>6
<1> QED BY <1>2, <1>3, <1>5, <1>10, <1>11 DEF gone

LEMMA GoneFacts ==
    LET gone == [Uncalled EXCEPT !.at = "crashed"]
    IN  Good(gone) /\ gone.at = "crashed" /\ gone.state = "INTAKE"
<1>1. Uncalled \in CallStates /\ "crashed" \in CallAts
  BY UncalledFacts DEF CallAts
<1> QED BY <1>1, UncalledFacts, AtSet DEF Good, Working

LEMMA CrashCommon ==
    ASSUME Common, Crash
    PROVE  Common'
<1> DEFINE gone == [Uncalled EXCEPT !.at = "crashed"]
<1>1. /\ \A c \in Calls : call'[c] \in {call[c], gone}
      /\ call' \in [Calls -> CallStates]
      /\ queue' = [c \in Calls |-> <<>>] /\ flight' = [c \in Calls |-> None]
      /\ FilesTyped
  BY CrashFacts
<1>2. Good(gone)
  BY GoneFacts
<1> HIDE DEF gone
<1>3. \A c \in Calls : Good(call'[c])
  BY <1>1, <1>2, AboutCall
<1>4. Typed'
  BY <1>1 DEF Typed, FilesTyped
<1>5. Idle' /\ Drained'
  BY <1>1 DEF Idle, Drained
<1>6. AtWork' /\ Once'
  BY <1>3 DEF AtWork, Once, Good
<1> QED BY <1>4, <1>5, <1>6 DEF Common

LEMMA StutterCommon ==
    ASSUME Common, UNCHANGED vars
    PROVE  Common'
BY DEF Common, Typed, Idle, Drained, AtWork, Once, vars

LEMMA NextCommon ==
    ASSUME Common, [Next]_vars
    PROVE  Common'
<1>1. ASSUME NEW c \in Calls, NEW s, NEW pr \in BOOLEAN, Process(c, Go(s), pr) \/ Process(c, Stop(s), pr)
      PROVE  Common'
  BY <1>1, ProcessCommon
<1>2. ASSUME NEW c \in Calls, Step(c)
      PROVE  Common'
  BY <1>1, <1>2, RefuseCommon, LoadCommon, ResumeCommon, InvalidateCommon, StartCommon, ThrowCommon,
     EscalateOverBudgetCommon, DeleteCheckpointCommon DEF Step
<1> QED BY <1>2, CallProcessCommon, SaveEndsCommon, CrashCommon, StutterCommon DEF Next

ThrewTyped == threw \in [Calls -> BOOLEAN]

LEMMA NextThrew ==
    ASSUME ThrewTyped, [Next]_vars
    PROVE  ThrewTyped'
<1>1. ASSUME NEW c \in Calls, CallProcess(c) \/ Step(c) \/ SaveEnds(c)
      PROVE  threw' = threw \/ \E b \in BOOLEAN : threw' = [threw EXCEPT ![c] = b]
  BY <1>1 DEF CallProcess, Step, Refuse, Load, Resume, Invalidate, Start, Process, Throw, EscalateOverBudget,
     DeleteCheckpoint, SaveEnds
<1>2. Crash => threw' = [c \in Calls |-> FALSE]
  BY DEF Crash
<1> QED BY <1>1, <1>2 DEF Next, ThrewTyped, vars

(* The types hold: budgets stay within their limits. *)
THEOREM TypeCorrect == Spec => []TypeOK
<1>1. Common /\ ThrewTyped => TypeOK
  BY DEF Common, Typed, ThrewTyped, TypeOK
<1>2. Init => ThrewTyped
  BY DEF Init, ThrewTyped
<1> QED BY <1>1, <1>2, InitCommon, NextCommon, NextThrew, PTL DEF Spec

(* A call escalates a feature once, however the processors, the budgets, the  *)
(* other calls and crashes behave.                                            *)
THEOREM OneEscalation == Spec => []EscalatesOnce
<1>1. Common => EscalatesOnce
  BY DEF Common, Once, EscalatesOnce
<1> QED BY <1>1, InitCommon, NextCommon, PTL DEF Spec

--------------------------------------------------------------------------------
(* The goal gate.  A feature passes it at the exit of EXECUTE alone, so every *)
(* workflow that ships has to go through EXECUTE, and has to have a phase     *)
(* with which the gates are on.                                               *)

ShippingWorkflows ==
    \A w \in Workflows : w \cap Shipped # {} => "EXECUTE" \in w /\ w \cap Suspendable # {}

Proper(t) == t.state \in Shipped => t.gated

CallsPassed == \A c \in Calls : Proper(call[c])
SavesPassed == \A c \in Calls, p \in Shipped : In(p, queue[c]) => call[c].gated
FilesPassed == Proper(checkpoint) /\ \A t \in temps : Proper(t.snapshot)

Passed == CallsPassed /\ SavesPassed /\ (\A c \in Calls : Proper(flight[c])) /\ FilesPassed

LEMMA SetPassed ==
    ASSUME Common, Passed, NEW c \in Calls, NEW n, Proper(n), Set(c, n),
           (call[c].gated => n.gated) \/ call[c].at \in Early,
           UNCHANGED <<queue, flight>>, FilesPassed'
    PROVE  Passed'
<1>1. call' = [call EXCEPT ![c] = n] /\ call \in [Calls -> CallStates]
  BY AboutCall DEF Set
<1>2. call'[c] = n /\ \A d \in Calls \ {c} : call'[d] = call[d]
  BY <1>1
<1>3. CallsPassed'
  BY <1>2 DEF Passed, CallsPassed
<1>4. SavesPassed'
  <2> SUFFICES ASSUME NEW d \in Calls, NEW p \in Shipped, In(p, queue[d])
               PROVE  call'[d].gated
    BY DEF SavesPassed
  <2>1. call[d].gated
    BY DEF Passed, SavesPassed
  <2>2. CASE d # c
    BY <1>2, <2>1, <2>2
  <2>3. CASE d = c
    <3>1. queue[c] # <<>>
      BY <2>3, EmptyFacts
    <3>2. call[c].at \notin Early
      BY <3>1, AboutCall
    <3> QED BY <1>2, <2>1, <2>3, <3>2
  <2> QED BY <2>2, <2>3
<1> QED BY <1>3, <1>4 DEF Passed

LEMMA EnqueuePassed ==
    ASSUME Common, Passed, NEW c \in Calls, NEW saves \in Seq(Saves), NEW n \in CallStates,
           Proper(n), call[c].gated => n.gated, \A p \in Shipped : In(p, saves) => n.gated,
           Set(c, n), Enqueue(c, saves, n), UNCHANGED <<checkpoint, temps>>
    PROVE  Passed'
<1>1. call' = [call EXCEPT ![c] = n] /\ call \in [Calls -> CallStates]
  BY AboutCall DEF Set
<1>2. call'[c] = n /\ \A d \in Calls \ {c} : call'[d] = call[d]
  BY <1>1
<1>3. /\ \A d \in Calls \ {c} : queue'[d] = queue[d] /\ flight'[d] = flight[d]
      /\ \A x : In(x, queue'[c]) => In(x, queue[c]) \/ In(x, saves)
      /\ \/ flight'[c] = flight[c]
         \/ \E x \in Saves : In(x, saves) /\ flight'[c] = Written(x, n)
  BY EnqueueFacts
<1>4. CallsPassed'
  BY <1>2 DEF Passed, CallsPassed
<1>5. SavesPassed'
  BY <1>2, <1>3 DEF Passed, SavesPassed
<1>6. ASSUME NEW x \in Saves, In(x, saves)
      PROVE  Proper(Written(x, n))
  BY <1>6, WrittenFacts DEF Proper
<1>7. Proper(flight'[c])
  BY <1>3, <1>6 DEF Passed
<1>8. \A d \in Calls : Proper(flight'[d])
  BY <1>3, <1>7 DEF Passed
<1> QED BY <1>4, <1>5, <1>8 DEF Passed, FilesPassed

LEMMA FilesStayPassed ==
    ASSUME Passed, checkpoint' \in {None, checkpoint}, temps' = temps
    PROVE  FilesPassed'
BY DEF Passed, FilesPassed, Proper, None, Shipped

LEMMA InitPassed ==
    ASSUME Init
    PROVE  Passed
BY UncalledFacts, EmptyFacts DEF Init, Passed, CallsPassed, SavesPassed, FilesPassed, Proper, None, Shipped

LEMMA MovesPassed ==
    ASSUME Common, Passed, NEW c \in Calls, CallProcess(c) \/ Refuse(c) \/ Resume(c) \/ DeleteCheckpoint(c)
    PROVE  Passed'
<1>1. PICK at \in CallAts :
        /\ Set(c, [call[c] EXCEPT !.at = at])
        /\ \/ call[c].at \in Early /\ at \in Early
           \/ call[c].at = "deleting" /\ at = "ended"
  BY DEF CallProcess, Refuse, Resume, DeleteCheckpoint, Early, CallAts
<1> DEFINE n == [call[c] EXCEPT !.at = at]
<1>2. n.state = call[c].state /\ n.gated = call[c].gated
  BY <1>1, AtMoves
<1>3. Set(c, n)
  BY <1>1
<1> HIDE DEF n
<1>4. Proper(n) /\ (call[c].gated => n.gated)
  BY <1>2 DEF Passed, CallsPassed, Proper
<1>5. UNCHANGED <<queue, flight>> /\ checkpoint' \in {None, checkpoint} /\ temps' = temps
  BY DEF CallProcess, Refuse, Resume, DeleteCheckpoint, Unlink
<1> QED BY <1>3, <1>4, <1>5, SetPassed, FilesStayPassed

LEMMA LoadPassed ==
    ASSUME Common, Passed, NEW c \in Calls, Load(c)
    PROVE  Passed'
<1>1. PICK t \in Snapshots \cup {None} :
        /\ Found(t)
        /\ Set(c, IF t = None
                  THEN [call[c] EXCEPT !.at = "starting"]
                  ELSE Loaded(c, "validating", t))
  BY DEF Load, Loaded
<1>2. call[c].at \in Early /\ "starting" \in CallAts /\ {"starting", "validating"} \subseteq Early
      /\ UNCHANGED <<queue, flight>>
  BY DEF Load, Early, CallAts
<1>3. Proper(t)
  BY <1>1, FoundFacts DEF Passed, FilesPassed, Proper, None, Shipped
<1>4. FilesPassed'
  BY <1>1, <1>3, FoundFacts DEF Passed, FilesPassed
<1>5. CASE t = None
  <2> DEFINE n == [call[c] EXCEPT !.at = "starting"]
  <2>1. Set(c, n) /\ n.state = call[c].state /\ n.gated = call[c].gated
    BY <1>1, <1>2, <1>5, AtMoves
  <2> HIDE DEF n
  <2>2. Proper(n)
    BY <2>1 DEF Passed, CallsPassed, Proper
  <2> QED BY <1>2, <1>4, <2>1, <2>2, SetPassed
<1>6. CASE t # None
  <2> DEFINE n == Loaded(c, "validating", t)
  <2>1. Set(c, n) /\ n.state = t.state /\ n.gated = t.gated
    BY <1>1, <1>2, <1>6, LoadedFacts
  <2> HIDE DEF n
  <2>2. Proper(n)
    BY <1>3, <2>1 DEF Proper
  <2> QED BY <1>2, <1>4, <2>1, <2>2, SetPassed
<1> QED BY <1>5, <1>6

LEMMA InvalidatePassed ==
    ASSUME Common, Passed, NEW c \in Calls, Invalidate(c)
    PROVE  Passed'
<1>1. PICK at \in {"starting", "refused"} : Set(c, Anew(c, at))
  BY DEF Invalidate, Anew
<1>2. call[c].at = "validating" /\ call[c].at \in Early /\ UNCHANGED <<queue, flight>>
      /\ checkpoint' \in {None, checkpoint} /\ temps' = temps
  BY DEF Invalidate, Early, Unlink
<1>3. Proper(Anew(c, at))
  BY <1>2, AnewFacts DEF Proper, Shipped
<1> QED BY <1>1, <1>2, <1>3, SetPassed, FilesStayPassed

LEMMA StartPassed ==
    ASSUME ShippingWorkflows, Common, Passed, NEW c \in Calls, Start(c)
    PROVE  Passed'
<1>1. PICK w \in Workflows, described \in BOOLEAN :
        LET n == Loop([call[c] EXCEPT !.phases = w, !.described = described, !.state = Resolve(@, w)])
        IN  Set(c, n) /\ Enqueue(c, EntrySave(n), n)
  BY DEF Start
<1> DEFINE n == Loop([call[c] EXCEPT !.phases = w, !.described = described, !.state = Resolve(@, w)])
<1>2. /\ Good(n) /\ Set(c, n) /\ Enqueue(c, EntrySave(n), n) /\ n.gated = call[c].gated
      /\ n.state \in {Resolve(call[c].state, w), "ESCALATE"}
  BY <1>1, StartFacts DEF Start
<1> HIDE DEF n
<1>3. ASSUME Resolve(call[c].state, w) \in Shipped
      PROVE  call[c].gated
  <2>1. call[c].state \in States /\ w \in SUBSET Phases
    BY AboutCall, Fields, Constants
  <2>2. Resolve(call[c].state, w) \in w
    BY <1>3, <2>1, ResolveFacts DEF Shipped
  <2>3. "EXECUTE" \in w
    BY <1>3, <2>2 DEF ShippingWorkflows
  <2>4. call[c].state \in Shipped
    BY <1>3, <2>1, <2>3, ResolveFacts DEF Shipped
  <2> QED BY <2>4 DEF Passed, CallsPassed, Proper
<1>4. Proper(n)
  BY <1>2, <1>3 DEF Proper, Shipped
<1>5. \A p \in Shipped : ~In(p, EntrySave(n))
  BY SingleFacts, EmptyFacts DEF EntrySave, Saves, Shipped
<1>6. n \in CallStates /\ UNCHANGED <<checkpoint, temps>>
  BY <1>2 DEF Good, Start
<1> QED BY <1>2, <1>4, <1>5, <1>6, EntrySaveTyped, EnqueuePassed

LEMMA ProcessPassed ==
    ASSUME GoalGates, ShippingWorkflows, Common, Passed,
           NEW c \in Calls, NEW r, NEW pr \in BOOLEAN, Process(c, r, pr)
    PROVE  Passed'
<1> DEFINE m == Counted(c)
           n == Advance(m, r, pr)
           next == Resolve(r.next, call[c].phases)
           closes == ExitGateCloses(m, next, pr)
<1>1. /\ call[c].at = "working" /\ Result(call[c], r, pr)
      /\ Set(c, n) /\ Enqueue(c, Saved(c, r, pr), n) /\ UNCHANGED <<checkpoint, temps>>
  BY DEF Process, Saved, Counted
<1>2. /\ Good(n) /\ r \in Outcomes
      /\ next \in call[c].phases \cup {"none", "DONE", "ESCALATE"}
      /\ call[c].gated => n.gated
      /\ ~closes /\ call[c].state = "EXECUTE" /\ pr => n.gated
      /\ n.state \in {call[c].state, next, "ESCALATE"} \ {"none"}
      /\ closes => n.state \in {call[c].state, "ESCALATE"}
      /\ call[c].state \in {"INTAKE", "PLAN"} => r.next \in {"PLAN", "EXECUTE", "ESCALATE"}
      /\ call[c].state = "ESCALATE" => next = "none"
  BY <1>1, ProcessFacts
<1>3. /\ Saved(c, r, pr) \in Seq(Saves)
      /\ \A x : In(x, Saved(c, r, pr)) => x = "current" \/ (~closes /\ x = next)
  BY <1>1, SavedFacts
<1>4. m.state = call[c].state /\ m.phases = call[c].phases /\ call[c].phases \in Workflows
      /\ call[c].phases \in SUBSET Phases /\ call[c].state \in States \ {"DONE"}
  BY <1>1, CountedFacts, Constants
<1>5. ASSUME next \in Shipped, ~closes
      PROVE  n.gated
  <2>1. next \in call[c].phases
    BY <1>2, <1>5 DEF Shipped
  <2>2. "EXECUTE" \in call[c].phases /\ call[c].phases \cap Suspendable # {}
    BY <1>4, <1>5, <2>1 DEF ShippingWorkflows
  <2>3. CASE call[c].state \in Shipped
    <3>1. call[c].gated
      BY <2>3 DEF Passed, CallsPassed, Proper
    <3> QED BY <1>2, <3>1
  <2>4. CASE call[c].state = "EXECUTE"
    <3>1. Gated(m)
      BY <1>4, <2>2 DEF Gated
    <3>2. pr
      BY <1>4, <1>5, <2>4, <3>1 DEF ExitGateCloses, Shipped
    <3> HIDE DEF closes, n
    <3> QED BY <1>2, <1>5, <2>4, <3>2
  <2>5. CASE call[c].state \in {"INTAKE", "PLAN"}
    <3>1. r.next \in {"PLAN", "EXECUTE", "ESCALATE"}
      BY <1>2, <2>5
    <3>2. r.next \in States \cup {"none"} /\ r.next \notin Shipped
      BY <3>1 DEF States, Phases, Shipped
    <3>3. r.next = "EXECUTE" => next = "EXECUTE"
      BY <1>4, <2>2, <3>2, ResolveFacts
    <3>4. next \notin Shipped
      BY <1>4, <2>2, <3>2, <3>3, ResolveFacts DEF Shipped
    <3> QED BY <1>5, <3>4
  <2>6. CASE call[c].state = "ESCALATE"
    BY <1>2, <1>5, <2>6 DEF Shipped
  <2> QED BY <1>4, <2>3, <2>4, <2>5, <2>6 DEF States, Phases, Shipped
<1>6. Proper(n)
  <2>1. CASE n.state = call[c].state
    BY <1>2, <2>1 DEF Passed, CallsPassed, Proper
  <2>2. CASE n.state = "ESCALATE"
    BY <2>2 DEF Proper, Shipped
  <2>3. CASE n.state = next /\ ~closes
    BY <1>5, <2>3 DEF Proper
  <2> HIDE DEF n, next, closes
  <2> QED BY <1>2, <2>1, <2>2, <2>3
<1>7. \A p \in Shipped : In(p, Saved(c, r, pr)) => n.gated
  <2> HIDE DEF n, next, closes
  <2> QED BY <1>3, <1>5 DEF Shipped
<1>8. n \in CallStates
  BY <1>2 DEF Good
<1> HIDE DEF n, closes, next, m
<1> QED BY <1>1, <1>2, <1>3, <1>6, <1>7, <1>8, EnqueuePassed

LEMMA ThrowPassed ==
    ASSUME Common, Passed, NEW c \in Calls, Throw(c)
    PROVE  Passed'
<1>1. call[c].at = "working" /\ Set(c, Thrown(c)) /\ UNCHANGED <<queue, flight, checkpoint, temps>>
  BY DEF Throw, Thrown
<1>2. Thrown(c).gated = call[c].gated
  <2> DEFINE x == [call[c] EXCEPT !.state = "ESCALATE"]
  <2>1. x \in CallStates /\ x.gated = call[c].gated
    BY AboutCall, StateSet DEF States
  <2> HIDE DEF x
  <2> QED BY <2>1, LoopFacts DEF Thrown, Keeps, x
<1>3. Proper(Thrown(c))
  BY <1>1, ThrownFacts DEF Proper, Shipped
<1> QED BY <1>1, <1>2, <1>3, SetPassed, FilesStayPassed

LEMMA EscalateOverBudgetPassed ==
    ASSUME Common, Passed, NEW c \in Calls, EscalateOverBudget(c)
    PROVE  Passed'
<1>1. call[c].at = "overBudget" /\ Set(c, GivenUp(c)) /\ UNCHANGED <<queue, flight, checkpoint, temps>>
  BY DEF EscalateOverBudget, GivenUp
<1>2. GivenUp(c).gated = call[c].gated
  <2> DEFINE x == [call[c] EXCEPT !.escalations = call[c].escalations + 1]
  <2>1. x \in CallStates /\ x.gated = call[c].gated
    <3>1. call[c] \in CallStates /\ call[c].escalations + 1 \in Nat
      BY AboutCall, Fields
    <3> QED BY <3>1, EscalationsSet
  <2> HIDE DEF x
  <2> QED BY <2>1, LeaveFacts DEF GivenUp, Keeps, x
<1>3. Proper(GivenUp(c))
  BY <1>1, GivenUpFacts DEF Proper, Shipped
<1> QED BY <1>1, <1>2, <1>3, SetPassed, FilesStayPassed

LEMMA SaveEndsPassed ==
    ASSUME Common, Passed, NEW c \in Calls, SaveEnds(c)
    PROVE  Passed'
<1>1. /\ UNCHANGED <<call, temps>> /\ checkpoint' \in {flight[c], checkpoint}
      /\ \A d \in Calls \ {c} : queue'[d] = queue[d] /\ flight'[d] = flight[d]
      /\ \A x : In(x, queue'[c]) => In(x, queue[c])
      /\ \/ flight'[c] = None
         \/ \E x \in Saves : In(x, queue[c]) /\ flight'[c] = Written(x, call[c])
  BY SaveEndsFacts
<1>2. CallsPassed'
  BY <1>1 DEF Passed, CallsPassed
<1>3. SavesPassed'
  BY <1>1 DEF Passed, SavesPassed
<1>4. ASSUME NEW x \in Saves, In(x, queue[c])
      PROVE  Proper(Written(x, call[c]))
  BY <1>4, AboutCall, WrittenFacts DEF Passed, CallsPassed, SavesPassed, Proper
<1>5. Proper(flight'[c])
  BY <1>1, <1>4 DEF Proper, None, Shipped
<1>6. FilesPassed'
  BY <1>1 DEF Passed, FilesPassed
<1> QED BY <1>1, <1>2, <1>3, <1>5, <1>6 DEF Passed

LEMMA CrashPassed ==
    ASSUME Common, Passed, Crash
    PROVE  Passed'
<1> DEFINE gone == [Uncalled EXCEPT !.at = "crashed"]
<1>1. /\ \A c \in Calls : call'[c] \in {call[c], gone}
      /\ queue' = [c \in Calls |-> <<>>] /\ flight' = [c \in Calls |-> None]
      /\ checkpoint' = checkpoint \/ \E c \in Calls : checkpoint' = flight[c]
      /\ \A t \in temps' : t \in temps \/ \E c \in Calls : t.snapshot = flight[c]
  BY CrashFacts
<1>2. Proper(gone)
  BY GoneFacts DEF Proper, Shipped
<1> HIDE DEF gone
<1>3. CallsPassed'
  BY <1>1, <1>2 DEF Passed, CallsPassed
<1>4. SavesPassed'
  BY <1>1, EmptyFacts DEF SavesPassed
<1>5. \A c \in Calls : Proper(flight'[c])
  BY <1>1 DEF Proper, None, Shipped
<1>6. FilesPassed'
  BY <1>1 DEF Passed, FilesPassed
<1> QED BY <1>3, <1>4, <1>5, <1>6 DEF Passed

LEMMA NextPassed ==
    ASSUME GoalGates, ShippingWorkflows, Common, Passed, [Next]_vars
    PROVE  Passed'
<1>1. ASSUME NEW c \in Calls, Step(c)
      PROVE  Passed'
  BY <1>1, MovesPassed, LoadPassed, InvalidatePassed, StartPassed, ProcessPassed, ThrowPassed,
     EscalateOverBudgetPassed DEF Step
<1>2. UNCHANGED vars => Passed'
  BY DEF Passed, CallsPassed, SavesPassed, FilesPassed, vars
<1> QED BY <1>1, <1>2, MovesPassed, SaveEndsPassed, CrashPassed DEF Next

(* The goal gate cannot be evaded, with any number of calls at once, crashes  *)
(* and saves that fail, in workflows that ship by way of EXECUTE.             *)
THEOREM ShippedHasPr == ShippingWorkflows => (Spec => []ReviewHasPr)
<1> SUFFICES ASSUME ShippingWorkflows
             PROVE  Spec => []ReviewHasPr
  OBVIOUS
<1>1. CASE GoalGates
  <2>1. Common /\ Passed => ReviewHasPr
    BY DEF Passed, CallsPassed, Proper, ReviewHasPr, Shipped
  <2>2. Common /\ Passed /\ [Next]_vars => Passed'
    BY <1>1, NextPassed
  <2> QED BY <2>1, <2>2, InitCommon, NextCommon, InitPassed, PTL DEF Spec
<1>2. CASE ~GoalGates
  <2>1. ReviewHasPr
    BY <1>2 DEF ReviewHasPr
  <2> QED BY <2>1, PTL
<1> QED BY <1>1, <1>2

--------------------------------------------------------------------------------
(* The checkpoint.  Calls one after the other: a call begins when those       *)
(* before it have ended and their queues are drained.  What the latest call   *)
(* owes: its last save, queued or under way, will write the phase it is in.   *)

Serial == \A c, d \in Calls : (d < c /\ call[c].at # "uncalled") => Quiet(d)

Owing(m) == m.at \in {"working", "ended"} /\ m.state \notin Terminal

KeptAt(c) ==
    Owing(call[c]) =>
        /\ queue[c] # <<>> => LastOf(queue[c]) \in {"current", call[c].state}
        /\ (queue[c] = <<>> /\ flight[c] # None) => flight[c].state = call[c].state
        /\ (Last(c) /\ flight[c] = None) => checkpoint.state = call[c].state

Kept == \A c \in Calls : KeptAt(c)

(* A step of call c alone: the others are over, or have not begun. *)
LEMMA OthersKept ==
    ASSUME Common, Serial, Kept, NEW c \in Calls, call[c].at # "uncalled", ~Quiet(c),
           \A d \in Calls \ {c} : call'[d] = call[d] /\ queue'[d] = queue[d] /\ flight'[d] = flight[d],
           call'[c].at # "uncalled", KeptAt(c)'
    PROVE  Serial' /\ Kept'
<1>1. \A d \in Calls : d > c => call[d].at = "uncalled"
  BY DEF Serial
<1>2. \A d \in Calls : d \in Nat
  BY DEF Calls
<1>3. Serial'
  BY <1>1, <1>2 DEF Serial, Quiet
<1>4. ASSUME NEW d \in Calls, d # c
      PROVE  KeptAt(d)'
  <2>1. CASE d > c
    <3>1. call'[d].at = "uncalled"
      BY <1>1, <1>4, <2>1
    <3> QED BY <3>1 DEF KeptAt, Owing
  <2>2. CASE d < c
    <3>1. ~Last(d)'
      BY <2>2 DEF Last
    <3>2. ~Last(d)
      BY <2>2 DEF Last
    <3>3. KeptAt(d)
      BY DEF Kept
    <3> QED BY <1>4, <3>1, <3>2, <3>3 DEF KeptAt
  <2> QED BY <1>2, <1>4, <2>1, <2>2
<1> QED BY <1>3, <1>4 DEF Kept

LEMMA SetKept ==
    ASSUME Common, Serial, Kept, NEW c \in Calls, NEW n, Set(c, n), UNCHANGED <<queue, flight>>,
           call[c].at \notin Final \cup {"uncalled"}, n.at # "uncalled", ~Owing(n)
    PROVE  Serial' /\ Kept'
<1>1. call' = [call EXCEPT ![c] = n] /\ call \in [Calls -> CallStates]
  BY AboutCall DEF Set
<1>2. call'[c] = n /\ \A d \in Calls \ {c} : call'[d] = call[d]
  BY <1>1
<1>3. KeptAt(c)'
  BY <1>2 DEF KeptAt
<1> QED BY <1>2, <1>3, OthersKept DEF Quiet

LEMMA InitKept ==
    ASSUME Init
    PROVE  Serial /\ Kept
BY UncalledFacts DEF Init, Serial, Kept, KeptAt, Owing

LEMMA CallProcessKept ==
    ASSUME ~SavesFail, Common, Serial, Kept, NEW c \in Calls, CallProcess(c)
    PROVE  Serial' /\ Kept'
<1> DEFINE n == [call[c] EXCEPT !.at = "loading"]
<1>1. /\ call[c].at = "uncalled" /\ Set(c, n) /\ UNCHANGED <<queue, flight, checkpoint>>
      /\ \A d \in 1..(c - 1) : Quiet(d)
  BY StealingAssumption DEF CallProcess
<1>2. n.at = "loading"
  BY <1>1, AtMoves DEF Early, CallAts
<1> HIDE DEF n
<1>3. call' = [call EXCEPT ![c] = n] /\ call \in [Calls -> CallStates]
  BY <1>1, AboutCall DEF Set
<1>4. call'[c] = n /\ \A d \in Calls \ {c} : call'[d] = call[d]
  BY <1>3
<1>5. \A d \in Calls : d \in Nat /\ d > 0
  BY DEF Calls
<1>6. \A d \in Calls : d < c => Quiet(d)
  BY <1>1, <1>5
<1>7. \A d \in Calls : d > c => call[d].at = "uncalled"
  BY <1>1 DEF Serial, Quiet, Final
<1>8. Serial'
  <2> SUFFICES ASSUME NEW e \in Calls, NEW d \in Calls, d < e, call'[e].at # "uncalled"
               PROVE  Quiet(d)'
    BY DEF Serial
  <2>1. e <= c
    BY <1>4, <1>5, <1>7
  <2>2. d < c /\ d # c
    BY <1>5, <2>1
  <2> QED BY <1>1, <1>4, <1>6, <2>2 DEF Quiet
<1>9. ASSUME NEW d \in Calls
      PROVE  KeptAt(d)'
  <2>1. CASE d = c
    BY <1>2, <1>4, <2>1 DEF KeptAt, Owing
  <2>2. CASE d # c
    <3>1. Last(d)' => Last(d)
      BY <1>1, <1>4 DEF Last
    <3>2. KeptAt(d)
      BY DEF Kept
    <3> QED BY <1>1, <1>4, <2>2, <3>1, <3>2 DEF KeptAt
  <2> QED BY <2>1, <2>2
<1> QED BY <1>8, <1>9 DEF Kept

(* Steps after which call c is not at a phase whose checkpoint it owes. *)
LEMMA MovesKept ==
    ASSUME Common, Serial, Kept, NEW c \in Calls,
           \/ Refuse(c) \/ Load(c) \/ Resume(c) \/ Invalidate(c)
           \/ Throw(c) \/ EscalateOverBudget(c) \/ DeleteCheckpoint(c)
    PROVE  Serial' /\ Kept'
<1>1. CASE Refuse(c) \/ Resume(c)
  <2>1. PICK at \in {"refused", "starting"} : Set(c, [call[c] EXCEPT !.at = at])
    BY <1>1 DEF Refuse, Resume
  <2> DEFINE n == [call[c] EXCEPT !.at = at]
  <2>2. call[c].at \in {"loading", "validating"} /\ UNCHANGED <<queue, flight>>
    BY <1>1 DEF Refuse, Resume
  <2>3. n.at = at
    BY <2>2, AtMoves DEF Early, CallAts
  <2>4. Set(c, n)
    BY <2>1
  <2> HIDE DEF n
  <2> QED BY <2>2, <2>3, <2>4, SetKept DEF Owing, Final
<1>2. CASE Load(c)
  <2>1. PICK t \in Snapshots \cup {None} :
            Set(c, IF t = None
                   THEN [call[c] EXCEPT !.at = "starting"]
                   ELSE Loaded(c, "validating", t))
    BY <1>2 DEF Load, Loaded
  <2>2. call[c].at = "loading" /\ call[c].at \in Early /\ UNCHANGED <<queue, flight>>
    BY <1>2 DEF Load, Early
  <2>3. CASE t = None
    <3> DEFINE n == [call[c] EXCEPT !.at = "starting"]
    <3>1. Set(c, n) /\ n.at = "starting"
      BY <2>1, <2>2, <2>3, AtMoves DEF Early, CallAts
    <3> HIDE DEF n
    <3> QED BY <2>2, <3>1, SetKept DEF Owing, Final
  <2>4. CASE t # None
    <3> DEFINE n == Loaded(c, "validating", t)
    <3>1. Set(c, n) /\ n.at = "validating"
      BY <2>1, <2>2, <2>4, LoadedFacts DEF Early
    <3> HIDE DEF n
    <3> QED BY <2>2, <3>1, SetKept DEF Owing, Final
  <2> QED BY <2>3, <2>4
<1>3. CASE Invalidate(c)
  <2>1. PICK at \in {"starting", "refused"} : Set(c, Anew(c, at))
    BY <1>3 DEF Invalidate, Anew
  <2>2. call[c].at = "validating" /\ UNCHANGED <<queue, flight>>
    BY <1>3 DEF Invalidate
  <2> QED BY <2>1, <2>2, AnewFacts, SetKept DEF Owing, Final
<1>4. CASE Throw(c)
  <2>1. call[c].at = "working" /\ Set(c, Thrown(c)) /\ UNCHANGED <<queue, flight>>
    BY <1>4 DEF Throw, Thrown
  <2> QED BY <2>1, ThrownFacts, SetKept DEF Owing, Terminal, Final
<1>5. CASE EscalateOverBudget(c)
  <2>1. call[c].at = "overBudget" /\ Set(c, GivenUp(c)) /\ UNCHANGED <<queue, flight>>
    BY <1>5 DEF EscalateOverBudget, GivenUp
  <2> QED BY <2>1, GivenUpFacts, SetKept DEF Owing, Final
<1>6. CASE DeleteCheckpoint(c)
  <2> DEFINE n == [call[c] EXCEPT !.at = "ended"]
  <2>1. call[c].at = "deleting" /\ Set(c, n) /\ UNCHANGED <<queue, flight>>
    BY <1>6 DEF DeleteCheckpoint
  <2>2. n.at = "ended" /\ n.state = call[c].state
    BY <2>1, AtMoves DEF CallAts
  <2> HIDE DEF n
  <2>3. call[c].state \in Terminal
    BY <2>1, AboutCall DEF Good, Working
  <2> QED BY <2>1, <2>2, <2>3, SetKept DEF Owing, Final
<1> QED BY <1>1, <1>2, <1>3, <1>4, <1>5, <1>6

LEMMA StartKept ==
    ASSUME Common, Serial, Kept, NEW c \in Calls, Start(c)
    PROVE  Serial' /\ Kept'
<1>1. PICK w \in Workflows, described \in BOOLEAN :
        LET n == Loop([call[c] EXCEPT !.phases = w, !.described = described, !.state = Resolve(@, w)])
        IN  Set(c, n) /\ Enqueue(c, EntrySave(n), n)
  BY DEF Start
<1> DEFINE n == Loop([call[c] EXCEPT !.phases = w, !.described = described, !.state = Resolve(@, w)])
<1>2. /\ call[c].at = "starting" /\ Set(c, n) /\ Enqueue(c, EntrySave(n), n)
      /\ Good(n) /\ n.at \in {"working", "overBudget"}
  BY <1>1, StartFacts DEF Start
<1> HIDE DEF n
<1>3. call' = [call EXCEPT ![c] = n] /\ call \in [Calls -> CallStates]
  BY <1>2, AboutCall DEF Set
<1>4. call'[c] = n /\ \A d \in Calls \ {c} : call'[d] = call[d]
  BY <1>3
<1>5. ASSUME Owing(n)
      PROVE  EntrySave(n) # <<>> /\ LastOf(EntrySave(n)) = "current"
  <2>1. EntrySave(n) = <<"current">>
    BY <1>2, <1>5 DEF EntrySave, Owing
  <2> QED BY <2>1, SingleFacts DEF Saves
<1>6. /\ \A d \in Calls \ {c} : queue'[d] = queue[d] /\ flight'[d] = flight[d]
      /\ EntrySave(n) # <<>> => /\ flight'[c] # None
                                /\ queue'[c] # <<>> => LastOf(queue'[c]) = LastOf(EntrySave(n))
                                /\ queue'[c] = <<>> => flight'[c] = Written(LastOf(EntrySave(n)), n)
  BY <1>2, EntrySaveTyped, EnqueueFacts DEF Good
<1>7. Written("current", n).state = n.state
  BY DEF Written
<1>8. KeptAt(c)'
  BY <1>4, <1>5, <1>6, <1>7 DEF KeptAt
<1> QED BY <1>2, <1>4, <1>6, <1>8, OthersKept DEF Quiet, Final

LEMMA ProcessKept ==
    ASSUME Common, Serial, Kept, NEW c \in Calls, NEW r, NEW pr \in BOOLEAN, Process(c, r, pr)
    PROVE  Serial' /\ Kept'
<1> DEFINE m == Counted(c)
           n == Advance(m, r, pr)
           next == Resolve(r.next, call[c].phases)
           closes == ExitGateCloses(m, next, pr)
           entry == n.at = "working" /\ n.state \notin Terminal
           exit == ~closes /\ next \notin Terminal \cup {"none"}
           saves == Saved(c, r, pr)
<1>1. /\ call[c].at = "working" /\ Result(call[c], r, pr) /\ UNCHANGED checkpoint
      /\ Set(c, n) /\ Enqueue(c, saves, n)
  BY DEF Process, Saved, Counted
<1>2. /\ Good(n) /\ n.at \notin Early
      /\ next \in call[c].phases \cup {"none", "DONE", "ESCALATE"}
      /\ closes => n.at \in {"working", "overBudget"}
      /\ (~closes /\ next = "none") => n.state = call[c].state
      /\ n.at = "ended" => n.state \notin Terminal /\ (n.state = next \/ next = "none")
  BY <1>1, ProcessFacts
<1>3. /\ saves \in Seq(Saves)
      /\ entry => saves # <<>> /\ LastOf(saves) = "current"
      /\ ~entry /\ exit => saves # <<>> /\ LastOf(saves) = next
      /\ ~entry /\ ~exit => saves = <<>>
  BY <1>1, SavedFacts
<1>4. call[c].phases \subseteq Phases
  BY AboutCall, Fields
<1>5. n \in CallStates
  BY <1>2 DEF Good
<1> HIDE DEF saves, n, m, next, closes
<1>6. call' = [call EXCEPT ![c] = n] /\ call \in [Calls -> CallStates]
  BY <1>1, AboutCall DEF Set
<1>7. call'[c] = n /\ \A d \in Calls \ {c} : call'[d] = call[d]
  BY <1>6
<1>8. /\ \A d \in Calls \ {c} : queue'[d] = queue[d] /\ flight'[d] = flight[d]
      /\ saves = <<>> => queue' = queue /\ flight' = flight
      /\ saves # <<>> => /\ flight'[c] # None
                         /\ queue'[c] # <<>> => LastOf(queue'[c]) = LastOf(saves)
                         /\ queue'[c] = <<>> => flight'[c] = Written(LastOf(saves), n)
  BY <1>1, <1>3, <1>5, EnqueueFacts
<1>9. Written("current", n).state = n.state /\ (next # "current" => Written(next, n).state = next)
  BY DEF Written
<1>10. CASE entry
  <2>1. KeptAt(c)'
    BY <1>3, <1>7, <1>8, <1>9, <1>10 DEF KeptAt
  <2> QED BY <1>1, <1>2, <1>7, <1>8, <2>1, OthersKept DEF Quiet, Final, Early
<1>11. CASE ~entry /\ ~Owing(n)
  <2>1. KeptAt(c)'
    BY <1>7, <1>11 DEF KeptAt
  <2> QED BY <1>1, <1>2, <1>7, <1>8, <2>1, OthersKept DEF Quiet, Final, Early
<1>12. CASE ~entry /\ Owing(n)
  <2>1. n.at = "ended" /\ n.state \notin Terminal /\ ~closes
    BY <1>2, <1>12 DEF Owing
  <2>2. CASE next = "none"
    <3>1. saves = <<>> /\ n.state = call[c].state
      BY <1>2, <1>3, <1>12, <2>1, <2>2
    <3>2. KeptAt(c) /\ Owing(call[c])
      BY <1>1, <2>1, <3>1 DEF Kept, Owing
    <3>3. Last(c)' => Last(c)
      BY <1>7 DEF Last, Calls
    <3>4. KeptAt(c)'
      BY <1>1, <1>7, <1>8, <3>1, <3>2, <3>3 DEF KeptAt
    <3> QED BY <1>1, <1>2, <1>7, <1>8, <3>4, OthersKept DEF Quiet, Final, Early
  <2>3. CASE next # "none"
    <3>1. n.state = next /\ exit /\ next # "current"
      BY <1>2, <1>4, <2>1, <2>3 DEF Phases
    <3>2. saves # <<>> /\ LastOf(saves) = next
      BY <1>3, <1>12, <3>1
    <3>3. KeptAt(c)'
      BY <1>7, <1>8, <1>9, <3>1, <3>2 DEF KeptAt
    <3> QED BY <1>1, <1>2, <1>7, <1>8, <3>3, OthersKept DEF Quiet, Final, Early
  <2> QED BY <2>2, <2>3
<1> QED BY <1>10, <1>11, <1>12

LEMMA SaveEndsKept ==
    ASSUME ~SavesFail, Common, Serial, Kept, NEW c \in Calls, SaveEnds(c)
    PROVE  Serial' /\ Kept'
<1>1. /\ flight[c] # None /\ call[c].at \notin Early /\ UNCHANGED call /\ checkpoint' = flight[c]
      /\ \A d \in Calls \ {c} : queue'[d] = queue[d] /\ flight'[d] = flight[d]
      /\ queue[c] = <<>> => queue'[c] = <<>> /\ flight'[c] = None
      /\ queue[c] # <<>> => /\ flight'[c] # None
                            /\ queue'[c] # <<>> => LastOf(queue'[c]) = LastOf(queue[c])
                            /\ queue'[c] = <<>> => flight'[c] = Written(LastOf(queue[c]), call[c])
  BY SaveEndsFacts
<1>2. KeptAt(c) /\ ~Quiet(c) /\ call[c].at # "uncalled"
  BY <1>1 DEF Kept, Quiet, Early
<1>3. ASSUME LastOf(queue[c]) \in {"current", call[c].state}
      PROVE  Written(LastOf(queue[c]), call[c]).state = call[c].state
  BY <1>3 DEF Written
<1>4. KeptAt(c)'
  BY <1>1, <1>2, <1>3 DEF KeptAt
<1> QED BY <1>1, <1>2, <1>4, OthersKept

LEMMA CrashKept ==
    ASSUME Common, Serial, Kept, Crash
    PROVE  Serial' /\ Kept'
<1> DEFINE gone == [Uncalled EXCEPT !.at = "crashed"]
<1>1. /\ \A c \in Calls : call'[c] = IF call[c].at = "uncalled" \/ Quiet(c) THEN call[c] ELSE gone
      /\ queue' = [c \in Calls |-> <<>>] /\ flight' = [c \in Calls |-> None]
      /\ checkpoint' = checkpoint \/ \E c \in Calls : flight[c] # None /\ checkpoint' = flight[c]
  BY CrashFacts
<1>2. gone.at = "crashed"
  BY GoneFacts
<1> HIDE DEF gone
<1>3. \A c \in Calls : (call'[c].at = "uncalled") <=> (call[c].at = "uncalled")
  BY <1>1, <1>2 DEF Quiet, Final
<1>4. \A c \in Calls : call[c].at # "uncalled" => Quiet(c)'
  BY <1>1, <1>2 DEF Quiet, Final
<1>5. \A c \in Calls : Quiet(c) => Quiet(c)'
  BY <1>4 DEF Quiet, Final
<1>6. Serial'
  BY <1>3, <1>5 DEF Serial
<1>7. ASSUME NEW c \in Calls, Owing(call'[c])
      PROVE  KeptAt(c)'
  <2>1. call'[c] = call[c] /\ Quiet(c) /\ Owing(call[c]) /\ call[c].at # "uncalled"
    BY <1>1, <1>2, <1>7 DEF Owing
  <2>2. KeptAt(c) /\ flight[c] = None /\ (Last(c)' => Last(c))
    BY <1>3, <2>1 DEF Kept, Quiet, Last, Calls
  <2>3. ASSUME Last(c)
        PROVE  checkpoint' = checkpoint
    <3>1. ASSUME NEW d \in Calls
          PROVE  flight[d] = None
      <4>1. CASE d > c
        <5>1. call[d].at \in Early
          BY <2>3, <4>1 DEF Last, Early
        <5> QED BY <5>1, AboutCall
      <4>2. CASE d < c
        BY <2>1, <4>2 DEF Serial, Quiet
      <4>3. CASE d = c
        BY <2>2, <4>3
      <4> QED BY <4>1, <4>2, <4>3 DEF Calls
    <3> QED BY <1>1, <3>1
  <2>4. queue'[c] = <<>> /\ flight'[c] = None
    BY <1>1
  <2> QED BY <2>1, <2>2, <2>3, <2>4 DEF KeptAt
<1>8. \A c \in Calls : KeptAt(c)'
  BY <1>7 DEF KeptAt
<1> QED BY <1>6, <1>8 DEF Kept

LEMMA NextKept ==
    ASSUME ~SavesFail, Common, Serial, Kept, [Next]_vars
    PROVE  Serial' /\ Kept'
<1>1. ASSUME NEW c \in Calls, Step(c)
      PROVE  Serial' /\ Kept'
  BY <1>1, MovesKept, StartKept, ProcessKept DEF Step
<1>2. UNCHANGED vars => Serial' /\ Kept'
  BY DEF Serial, Kept, KeptAt, Last, Quiet, vars
<1> QED BY <1>1, <1>2, CallProcessKept, SaveEndsKept, CrashKept DEF Next

(* When saves succeed and calls follow each other, the checkpoint is the      *)
(* phase of the latest call as soon as its queue is drained, by the order of  *)
(* the saves alone and whatever crashes came before.                          *)
THEOREM CheckpointFollows == ~SavesFail => (Spec => []CheckpointIsCurrent)
<1> SUFFICES ASSUME ~SavesFail
             PROVE  Spec => []CheckpointIsCurrent
  OBVIOUS
<1>1. Common /\ Serial /\ Kept => CheckpointIsCurrent
  <2> SUFFICES ASSUME Common, Kept, NEW c \in Calls, Last(c), Owing(call[c]), flight[c] = None
               PROVE  checkpoint.state = call[c].state
    BY DEF CheckpointIsCurrent, Owing
  <2> QED BY DEF Kept, KeptAt
<1>2. Common /\ Serial /\ Kept /\ [Next]_vars => Serial' /\ Kept'
  BY NextKept
<1> QED BY <1>1, <1>2, InitCommon, NextCommon, InitKept, PTL DEF Spec

================================================================================
