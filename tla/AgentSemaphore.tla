----------------------------- MODULE AgentSemaphore -----------------------------
(***************************************************************************)
(* GlobalAgentSemaphore: the process-wide cap on agents that run at once.  *)
(*                                                                         *)
(* Every call of runAgent acquires one slot and releases it in a finally.  *)
(* The cap is not a field of the semaphore: acquire and drain both read it *)
(* from the settings (`await this.readCap`) and decide in a continuation,  *)
(* so settings, releases and other callers move between the read and the   *)
(* decision.  Code between two awaits is one action.                       *)
(***************************************************************************)
EXTENDS Integers, Sequences, FiniteSets

CONSTANTS
    Launches,    \* the calls of runAgent, each made once
    MaxAgents,   \* MAX_SYSTEM_CONCURRENCY, the ceiling set by the environment
    Settings     \* the values systemMaxConcurrency takes; 0 is "not set" or unreadable

ASSUME MaxAgentsAssumption == MaxAgents \in Nat \ {0}
ASSUME SettingsAssumption == Settings \subseteq Nat /\ Settings # {}

VARIABLES
    systemMaxConcurrency,  \* the setting, which an administrator changes at any time
    activeCount,           \* slots counted as taken
    queue,                 \* FIFO of the callers suspended in acquire
    phase,                 \* where each launch stands in acquire and after it
    drain,                 \* the drain that the release of each launch started
    cap,                   \* what readCap returned to the acquire or drain of a launch
    decided                \* history: the cap by which a caller was last queued or the queue last drained

vars == <<systemMaxConcurrency, activeCount, queue, phase, drain, cap, decided>>

Phases == {"idle", "reading", "deciding", "queued", "holding", "released"}
Drains == {"none", "reading", "granting"}

In(p) == {l \in Launches : phase[l] = p}

(* The admin's cap when there is one, never above the hard ceiling. *)
EffectiveCap(s) == IF s > 0 /\ s < MaxAgents THEN s ELSE MaxAgents

Init ==
    /\ systemMaxConcurrency \in Settings
    /\ activeCount = 0
    /\ queue = <<>>
    /\ phase = [l \in Launches |-> "idle"]
    /\ drain = [l \in Launches |-> "none"]
    /\ cap = [l \in Launches |-> MaxAgents]
    /\ decided = MaxAgents

ChangeSetting(s) ==
    /\ s # systemMaxConcurrency
    /\ systemMaxConcurrency' = s
    /\ UNCHANGED <<activeCount, queue, phase, drain, cap, decided>>

(* acquire is called and suspends at its first await. *)
CallAcquire(l) ==
    /\ phase[l] = "idle"
    /\ phase' = [phase EXCEPT ![l] = "reading"]
    /\ UNCHANGED <<systemMaxConcurrency, activeCount, queue, drain, cap, decided>>

AcquireReadsCap(l) ==
    /\ phase[l] = "reading"
    /\ cap' = [cap EXCEPT ![l] = EffectiveCap(systemMaxConcurrency)]
    /\ phase' = [phase EXCEPT ![l] = "deciding"]
    /\ UNCHANGED <<systemMaxConcurrency, activeCount, queue, drain, decided>>

(* Mutant of TakeSlot: the comparison with the cap is off by one. *)
TakeSlotAtCap(l) ==
    /\ phase[l] = "deciding"
    /\ activeCount <= cap[l]
    /\ activeCount' = activeCount + 1
    /\ phase' = [phase EXCEPT ![l] = "holding"]
    /\ UNCHANGED <<systemMaxConcurrency, queue, drain, cap, decided>>

TakeSlot(l) ==
    /\ phase[l] = "deciding"
    /\ activeCount < cap[l]
    /\ activeCount' = activeCount + 1
    /\ phase' = [phase EXCEPT ![l] = "holding"]
    /\ UNCHANGED <<systemMaxConcurrency, queue, drain, cap, decided>>

Enqueue(l) ==
    /\ phase[l] = "deciding"
    /\ activeCount >= cap[l]
    /\ queue' = Append(queue, l)
    /\ phase' = [phase EXCEPT ![l] = "queued"]
    /\ decided' = cap[l]
    /\ UNCHANGED <<systemMaxConcurrency, activeCount, drain, cap>>

(* Mutant of Release: the closure has no `released` flag. *)
ReleaseTwice(l) ==
    /\ phase[l] \in {"holding", "released"} /\ drain[l] = "none"
    /\ phase' = [phase EXCEPT ![l] = "released"]
    /\ activeCount' = activeCount - 1
    /\ drain' = [drain EXCEPT ![l] = "reading"]
    /\ UNCHANGED <<systemMaxConcurrency, queue, cap, decided>>

(* Mutant of Release: nobody drains the queue. *)
ReleaseWithoutDrain(l) ==
    /\ phase[l] = "holding"
    /\ phase' = [phase EXCEPT ![l] = "released"]
    /\ activeCount' = activeCount - 1
    /\ UNCHANGED <<systemMaxConcurrency, queue, drain, cap, decided>>

(* The release closure.  Its `released` flag lets a closure act once only:  *)
(* here, only in the phase it leaves.  drain is started and not awaited.    *)
Release(l) ==
    /\ phase[l] = "holding"
    /\ phase' = [phase EXCEPT ![l] = "released"]
    /\ activeCount' = activeCount - 1
    /\ drain' = [drain EXCEPT ![l] = "reading"]
    /\ UNCHANGED <<systemMaxConcurrency, queue, cap, decided>>

DrainReadsCap(l) ==
    /\ drain[l] = "reading"
    /\ cap' = [cap EXCEPT ![l] = EffectiveCap(systemMaxConcurrency)]
    /\ drain' = [drain EXCEPT ![l] = "granting"]
    /\ UNCHANGED <<systemMaxConcurrency, activeCount, queue, phase, decided>>

(* Mutant of Woken: an `if` in place of the `while`, so a drain wakes one waiter at most. *)
WokenOne(c) == IF queue # <<>> /\ activeCount < c THEN 1 ELSE 0

(* How many waiters the loop of a drain that read cap c wakes. *)
Woken(c) ==
    LET free == IF activeCount < c THEN c - activeCount ELSE 0
    IN  IF Len(queue) < free THEN Len(queue) ELSE free

(* Mutant of WakeWaiters: the waiters are resumed and stay in the queue. *)
WakeWithoutShift(l) ==
    LET n == Woken(cap[l])
        woken == {queue[i] : i \in 1..n}
    IN  /\ drain[l] = "granting"
        /\ activeCount' = activeCount + n
        /\ phase' = [m \in Launches |-> IF m \in woken THEN "holding" ELSE phase[m]]
        /\ drain' = [drain EXCEPT ![l] = "none"]
        /\ decided' = cap[l]
        /\ UNCHANGED <<systemMaxConcurrency, queue, cap>>

(* The whole while loop: it does not await, so nothing comes between two wakes. *)
WakeWaiters(l) ==
    LET n == Woken(cap[l])
        woken == {queue[i] : i \in 1..n}
    IN  /\ drain[l] = "granting"
        /\ activeCount' = activeCount + n
        /\ queue' = SubSeq(queue, n + 1, Len(queue))
        /\ phase' = [m \in Launches |-> IF m \in woken THEN "holding" ELSE phase[m]]
        /\ drain' = [drain EXCEPT ![l] = "none"]
        /\ decided' = cap[l]
        /\ UNCHANGED <<systemMaxConcurrency, cap>>

Acquire(l) == AcquireReadsCap(l) \/ TakeSlot(l) \/ Enqueue(l)

Drain(l) == DrainReadsCap(l) \/ WakeWaiters(l)

Next ==
    \/ \E s \in Settings : ChangeSetting(s)
    \/ \E l \in Launches : CallAcquire(l) \/ Acquire(l) \/ Release(l) \/ Drain(l)

Spec == Init /\ [][Next]_vars

(* A pending promise settles, and an agent ends: the stream it iterates is   *)
(* closed by its own end, by the stop button or by the inactivity timeout.   *)
Fairness == \A l \in Launches : WF_vars(Acquire(l)) /\ WF_vars(Release(l)) /\ WF_vars(Drain(l))

FairSpec == Spec /\ Fairness

--------------------------------------------------------------------------------

TypeOK ==
    /\ systemMaxConcurrency \in Settings
    /\ activeCount \in 0..MaxAgents
    /\ queue \in Seq(Launches)
    /\ phase \in [Launches -> Phases]
    /\ drain \in [Launches -> Drains]
    /\ cap \in [Launches -> 1..MaxAgents]
    /\ decided \in 1..MaxAgents

(* The counter is the number of launches that hold a slot: no path through   *)
(* acquire, the wake of a waiter and the release closure leaks a slot or     *)
(* frees one twice.                                                          *)
SlotsConserved ==
    /\ IsFiniteSet(In("holding"))
    /\ activeCount = Cardinality(In("holding"))

(* The queue holds exactly the suspended callers, each once: a caller that   *)
(* dropped out of it would never be resumed, one in it twice would take two  *)
(* slots for one release.                                                    *)
QueueHoldsWaiters ==
    /\ {queue[i] : i \in DOMAIN queue} = In("queued")
    /\ \A i, j \in DOMAIN queue : queue[i] = queue[j] => i = j

(* No lost wake-up: while a caller is suspended, someone still holds a slot  *)
(* or a drain is on its way.  Otherwise nothing would ever resume the queue: *)
(* no timer and no later acquire looks at it.                                *)
NoLostWakeup ==
    queue # <<>> => (activeCount > 0 \/ \E l \in Launches : drain[l] # "none")

(* No idle capacity: with no drain under way, callers wait only while all    *)
(* the slots of the cap that the last drain or queueing caller went by are   *)
(* taken.  One release can free several slots when the setting has gone up   *)
(* (drain: "Re-reads the cap on each drain so live config changes take       *)
(* effect"), and then as many callers must be resumed; a slot of the cap in  *)
(* force is idle only when the setting went up after that read.              *)
WorkConserving ==
    (queue # <<>> /\ \A l \in Launches : drain[l] = "none") => activeCount >= decided

(* Every launch that asks for a slot gets one (acquire: "resume              *)
(* automatically when a slot is freed") and every drain ends.                *)
EveryLaunchRuns == \A l \in Launches : (phase[l] = "reading") ~> (phase[l] = "holding")

(* The semaphore is the pool: it runs at most MaxAgents launches, whatever   *)
(* the setting does between a read of the cap and the decision on it.        *)
Pool == INSTANCE AgentPool WITH
    waiting <- In("reading") \cup In("deciding") \cup In("queued"),
    running <- In("holding"),
    ended <- In("released")

ImplementsPool == Pool!Spec

================================================================================
