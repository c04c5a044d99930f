-------------------------- MODULE AgentSemaphoreProofs --------------------------
(***************************************************************************)
(* Theorems about AgentSemaphore for any set of launches, any ceiling and  *)
(* any settings.  The inductive invariant is IInv: the properties the runs *)
(* check are inductive only together, since "a slot is free to give back"  *)
(* needs SlotsConserved, "the waiter woken is a waiter" needs              *)
(* QueueHoldsWaiters, and the argument that no wake-up is lost needs the   *)
(* caps that were read to be positive (TypeOK).                            *)
(***************************************************************************)
EXTENDS AgentSemaphore, FiniteSetTheorems, SequenceTheorems, TLAPS

IInv ==
    /\ TypeOK
    /\ SlotsConserved
    /\ QueueHoldsWaiters
    /\ NoLostWakeup
    /\ WorkConserving

(* readCap always returns a cap between one and the ceiling. *)
LEMMA EffectiveCapRange ==
    ASSUME NEW s \in Settings
    PROVE  EffectiveCap(s) \in 1..MaxAgents
BY MaxAgentsAssumption, SettingsAssumption DEF EffectiveCap

(* n different elements of a sequence make a set of n elements. *)
LEMMA PrefixCardinality ==
    ASSUME NEW S, NEW q \in Seq(S), NEW n \in 0..Len(q), NEW T,
           \A i, j \in DOMAIN q : q[i] = q[j] => i = j,
           \A x : x \in T <=> \E i \in 1..n : x = q[i]
    PROVE  IsFiniteSet(T) /\ Cardinality(T) = n
<1> DEFINE f == [i \in 1..n |-> q[i]]
<1>1. 1..n \subseteq DOMAIN q
    OBVIOUS
<1>2. f \in Bijection(1..n, T)
    BY <1>1 DEF Bijection, Injection, Surjection, IsInjective
<1>3. ExistsBijection(1..n, T)
    BY <1>2 DEF ExistsBijection
<1>4. IsFiniteSet(1..n) /\ Cardinality(1..n) = n
    BY FS_Interval
<1> QED
    BY <1>3, <1>4, FS_Bijection

(* The sets of launches by phase after one launch moves. *)
LEMMA MoveOne ==
    ASSUME TypeOK, NEW l \in Launches, NEW p \in Phases,
           phase' = [phase EXCEPT ![l] = p]
    PROVE  \A r : In(r)' = IF r = p THEN In(r) \cup {l} ELSE In(r) \ {l}
BY DEF TypeOK, In

(* What one drain does to the queue and the sets of launches. *)
LEMMA WakeFacts ==
    ASSUME TypeOK, QueueHoldsWaiters, NEW l \in Launches, WakeWaiters(l)
    PROVE  LET n == Woken(cap[l])
               woken == {queue[i] : i \in 1..n}
           IN  /\ n \in 0..Len(queue)
               /\ n > 0 => activeCount + n <= cap[l]
               /\ n < Len(queue) => activeCount + n >= cap[l]
               /\ woken \subseteq In("queued")
               /\ IsFiniteSet(woken) /\ Cardinality(woken) = n
               /\ In("holding")' = In("holding") \cup woken
               /\ In("queued")' = In("queued") \ woken
               /\ queue' \in Seq(Launches)
               /\ Len(queue') = Len(queue) - n
               /\ \A i \in 1..Len(queue') : queue'[i] = queue[i + n]
<1> DEFINE n == Woken(cap[l])
           woken == {queue[i] : i \in 1..n}
<1>1. /\ activeCount \in Nat /\ cap[l] \in Nat
      /\ queue \in Seq(Launches) /\ Len(queue) \in Nat
    BY MaxAgentsAssumption DEF TypeOK
<1>2. /\ n \in 0..Len(queue)
      /\ n > 0 => activeCount + n <= cap[l]
      /\ n < Len(queue) => activeCount + n >= cap[l]
    BY <1>1 DEF Woken
<1> HIDE DEF n
<1>3. woken \subseteq In("queued")
    BY <1>1, <1>2 DEF QueueHoldsWaiters
<1>4. IsFiniteSet(woken) /\ Cardinality(woken) = n
    <2>1. \A i, j \in DOMAIN queue : queue[i] = queue[j] => i = j
        BY DEF QueueHoldsWaiters
    <2>2. queue \in Seq(Launches) /\ n \in 0..Len(queue)
        BY <1>1, <1>2
    <2>3. \A x : x \in woken <=> \E i \in 1..n : x = queue[i]
        OBVIOUS
    <2> HIDE DEF woken
    <2> QED
        BY <2>1, <2>2, <2>3, PrefixCardinality
<1>5. phase' = [m \in Launches |-> IF m \in woken THEN "holding" ELSE phase[m]]
    BY DEF WakeWaiters, n
<1>6. /\ In("holding")' = In("holding") \cup woken
      /\ In("queued")' = In("queued") \ woken
    BY <1>3, <1>5 DEF In
<1>7. queue' = SubSeq(queue, n + 1, Len(queue))
    BY DEF WakeWaiters, n
<1>8. /\ queue' \in Seq(Launches)
      /\ Len(queue') = Len(queue) - n
      /\ \A i \in 1..Len(queue') : queue'[i] = queue[i + n]
    <2>1. n + 1 \in Int /\ Len(queue) \in Int /\ n \in Nat
        BY <1>1, <1>2
    <2>2. \A i \in (n + 1)..Len(queue) : queue[i] \in Launches
        BY <1>1, <1>2
    <2>3. /\ queue' \in Seq(Launches)
          /\ Len(queue') = IF n + 1 <= Len(queue) THEN Len(queue) - (n + 1) + 1 ELSE 0
          /\ \A i \in 1..(Len(queue) - (n + 1) + 1) : queue'[i] = queue[(n + 1) + i - 1]
        BY <2>1, <2>2, <1>7, SubSeqProperties
    <2>4. Len(queue') = Len(queue) - n
        BY <2>3, <2>1, <1>2
    <2>5. ASSUME NEW i \in 1..Len(queue')
          PROVE  queue'[i] = queue[i + n]
        <3>1. i \in 1..(Len(queue) - (n + 1) + 1) /\ (n + 1) + i - 1 = i + n
            BY <2>1, <2>4
        <3> QED
            BY <3>1, <2>3
    <2> QED
        BY <2>3, <2>4, <2>5
<1> QED
    BY <1>2, <1>3, <1>4, <1>6, <1>8 DEF n

(* The invariant holds initially. *)
LEMMA InitIInv == Init => IInv
<1> SUFFICES ASSUME Init PROVE IInv
    OBVIOUS
<1>1. TypeOK
    BY MaxAgentsAssumption DEF Init, TypeOK, Phases, Drains
<1>2. In("holding") = {} /\ In("queued") = {}
    BY DEF Init, In
<1>3. SlotsConserved
    BY <1>2, FS_EmptySet DEF Init, SlotsConserved
<1>4. QueueHoldsWaiters
    BY <1>2 DEF Init, QueueHoldsWaiters
<1>5. NoLostWakeup /\ WorkConserving
    BY DEF Init, NoLostWakeup, WorkConserving
<1> QED
    BY <1>1, <1>3, <1>4, <1>5 DEF IInv

(* Every step preserves it. *)
LEMMA NextIInv == IInv /\ [Next]_vars => IInv'
<1> SUFFICES ASSUME IInv, [Next]_vars PROVE IInv'
    OBVIOUS
<1> USE MaxAgentsAssumption, SettingsAssumption
<1>0. TypeOK /\ SlotsConserved /\ QueueHoldsWaiters /\ NoLostWakeup /\ WorkConserving
    BY DEF IInv
<1>1. ASSUME NEW s \in Settings, ChangeSetting(s)
      PROVE  IInv'
    BY <1>0, <1>1 DEF ChangeSetting, IInv, TypeOK, SlotsConserved, QueueHoldsWaiters,
                      NoLostWakeup, WorkConserving, In
<1>2. ASSUME NEW l \in Launches, CallAcquire(l)
      PROVE  IInv'
    <2>1. In("holding")' = In("holding") /\ In("queued")' = In("queued")
        BY <1>0, <1>2 DEF CallAcquire, In, TypeOK
    <2>2. TypeOK'
        BY <1>0, <1>2 DEF CallAcquire, TypeOK, Phases
    <2>3. SlotsConserved' /\ QueueHoldsWaiters'
        BY <1>0, <1>2, <2>1 DEF CallAcquire, SlotsConserved, QueueHoldsWaiters
    <2>4. NoLostWakeup' /\ WorkConserving'
        BY <1>0, <1>2 DEF CallAcquire, NoLostWakeup, WorkConserving, TypeOK
    <2> QED
        BY <2>2, <2>3, <2>4 DEF IInv
<1>3. ASSUME NEW l \in Launches, AcquireReadsCap(l)
      PROVE  IInv'
    <2>1. In("holding")' = In("holding") /\ In("queued")' = In("queued")
        BY <1>0, <1>3 DEF AcquireReadsCap, In, TypeOK
    <2>2. EffectiveCap(systemMaxConcurrency) \in 1..MaxAgents
        BY <1>0, EffectiveCapRange DEF TypeOK
    <2>3. TypeOK'
        BY <1>0, <1>3, <2>2 DEF AcquireReadsCap, TypeOK, Phases
    <2>4. SlotsConserved' /\ QueueHoldsWaiters'
        BY <1>0, <1>3, <2>1 DEF AcquireReadsCap, SlotsConserved, QueueHoldsWaiters
    <2>5. NoLostWakeup' /\ WorkConserving'
        BY <1>0, <1>3 DEF AcquireReadsCap, NoLostWakeup, WorkConserving
    <2> QED
        BY <2>3, <2>4, <2>5 DEF IInv
<1>4. ASSUME NEW l \in Launches, TakeSlot(l)
      PROVE  IInv'
    <2>1. In("holding")' = In("holding") \cup {l} /\ In("queued")' = In("queued")
        BY <1>0, <1>4 DEF TakeSlot, In, TypeOK
    <2>2. l \notin In("holding")
        BY <1>4 DEF TakeSlot, In
    <2>3. TypeOK'
        BY <1>0, <1>4 DEF TakeSlot, TypeOK, Phases
    <2>4. SlotsConserved'
        BY <1>0, <1>4, <2>1, <2>2, FS_AddElement DEF TakeSlot, SlotsConserved
    <2>5. QueueHoldsWaiters'
        BY <1>0, <1>4, <2>1 DEF TakeSlot, QueueHoldsWaiters
    <2>6. NoLostWakeup'
        BY <1>0, <1>4 DEF TakeSlot, NoLostWakeup, TypeOK
    <2>7. WorkConserving'
        BY <1>0, <1>4, EffectiveCapRange DEF TakeSlot, WorkConserving, TypeOK
    <2> QED
        BY <2>3, <2>4, <2>5, <2>6, <2>7 DEF IInv
<1>5. ASSUME NEW l \in Launches, Enqueue(l)
      PROVE  IInv'
    <2>1. In("holding")' = In("holding") /\ In("queued")' = In("queued") \cup {l}
        BY <1>0, <1>5 DEF Enqueue, In, TypeOK
    <2>2. l \notin In("queued")
        BY <1>5 DEF Enqueue, In
    <2>3. queue \in Seq(Launches) /\ queue' = Append(queue, l)
        BY <1>0, <1>5 DEF Enqueue, TypeOK
    <2>4. TypeOK'
        BY <1>0, <1>5, <2>3 DEF Enqueue, TypeOK, Phases
    <2>5. SlotsConserved'
        BY <1>0, <1>5, <2>1 DEF Enqueue, SlotsConserved
    <2>6. QueueHoldsWaiters'
        <3>1. \A i \in DOMAIN queue : queue[i] # l
            BY <1>0, <2>2 DEF QueueHoldsWaiters
        <3>2. /\ DOMAIN queue' = DOMAIN queue \cup {Len(queue) + 1}
              /\ Len(queue) + 1 \notin DOMAIN queue
              /\ queue'[Len(queue) + 1] = l
              /\ \A i \in DOMAIN queue : queue'[i] = queue[i]
            BY <2>3
        <3>3. \A i, j \in DOMAIN queue' : queue'[i] = queue'[j] => i = j
            BY <1>0, <3>1, <3>2 DEF QueueHoldsWaiters
        <3>4. {queue'[i] : i \in DOMAIN queue'} = {queue[i] : i \in DOMAIN queue} \cup {l}
            BY <3>2
        <3> QED
            BY <1>0, <2>1, <3>3, <3>4 DEF QueueHoldsWaiters
    <2>7. activeCount >= cap[l] /\ cap[l] \in 1..MaxAgents
        BY <1>0, <1>5 DEF Enqueue, TypeOK
    <2>8. NoLostWakeup'
        BY <1>0, <1>5, <2>7 DEF Enqueue, NoLostWakeup, TypeOK
    <2>9. WorkConserving'
        BY <1>5, <2>7 DEF Enqueue, WorkConserving
    <2> QED
        BY <2>4, <2>5, <2>6, <2>8, <2>9 DEF IInv
<1>6. ASSUME NEW l \in Launches, Release(l)
      PROVE  IInv'
    <2>1. In("holding")' = In("holding") \ {l} /\ In("queued")' = In("queued")
        BY <1>0, <1>6 DEF Release, In, TypeOK
    <2>2. l \in In("holding")
        BY <1>6 DEF Release, In
    <2>3. SlotsConserved'
        BY <1>0, <1>6, <2>1, <2>2, FS_RemoveElement DEF Release, SlotsConserved
    <2>4. activeCount # 0
        BY <1>0, <2>2, FS_EmptySet DEF SlotsConserved
    <2>5. TypeOK'
        BY <1>0, <1>6, <2>4 DEF Release, TypeOK, Phases, Drains
    <2>6. QueueHoldsWaiters'
        BY <1>0, <1>6, <2>1 DEF Release, QueueHoldsWaiters
    <2>7. NoLostWakeup' /\ WorkConserving'
        BY <1>0, <1>6 DEF Release, NoLostWakeup, WorkConserving, TypeOK
    <2> QED
        BY <2>3, <2>5, <2>6, <2>7 DEF IInv
<1>7. ASSUME NEW l \in Launches, DrainReadsCap(l)
      PROVE  IInv'
    <2>1. EffectiveCap(systemMaxConcurrency) \in 1..MaxAgents
        BY <1>0, EffectiveCapRange DEF TypeOK
    <2>2. TypeOK'
        BY <1>0, <1>7, <2>1 DEF DrainReadsCap, TypeOK, Drains
    <2>3. SlotsConserved' /\ QueueHoldsWaiters'
        BY <1>0, <1>7 DEF DrainReadsCap, SlotsConserved, QueueHoldsWaiters, In
    <2>4. NoLostWakeup' /\ WorkConserving'
        BY <1>0, <1>7 DEF DrainReadsCap, NoLostWakeup, WorkConserving, TypeOK
    <2> QED
        BY <2>2, <2>3, <2>4 DEF IInv
<1>8. ASSUME NEW l \in Launches, WakeWaiters(l)
      PROVE  IInv'
    <2> DEFINE n == Woken(cap[l])
               woken == {queue[i] : i \in 1..n}
    <2>1. /\ n \in 0..Len(queue)
          /\ n > 0 => activeCount + n <= cap[l]
          /\ n < Len(queue) => activeCount + n >= cap[l]
          /\ woken \subseteq In("queued")
          /\ IsFiniteSet(woken) /\ Cardinality(woken) = n
          /\ In("holding")' = In("holding") \cup woken
          /\ In("queued")' = In("queued") \ woken
          /\ queue' \in Seq(Launches)
          /\ Len(queue') = Len(queue) - n
          /\ \A i \in 1..Len(queue') : queue'[i] = queue[i + n]
        BY <1>0, <1>8, WakeFacts
    <2>2. /\ activeCount' = activeCount + n
          /\ drain' = [drain EXCEPT ![l] = "none"]
          /\ phase' = [m \in Launches |-> IF m \in woken THEN "holding" ELSE phase[m]]
          /\ cap' = cap /\ systemMaxConcurrency' = systemMaxConcurrency /\ decided' = cap[l]
          /\ drain[l] = "granting"
        BY <1>8 DEF WakeWaiters
    <2> HIDE DEF n, woken
    <2>3. TypeOK'
        <3>1. activeCount' \in 0..MaxAgents
            BY <1>0, <2>1, <2>2 DEF TypeOK
        <3> QED
            BY <1>0, <2>1, <2>2, <3>1 DEF TypeOK, Phases, Drains
    <2>4. SlotsConserved'
        <3>1. In("holding") \cap woken = {}
            BY <2>1 DEF In
        <3>2. /\ IsFiniteSet(In("holding") \cup woken)
              /\ Cardinality(In("holding") \cup woken)
                    = Cardinality(In("holding")) + n
            <4>1. Cardinality(In("holding") \cap woken) = 0
                BY <3>1, FS_EmptySet
            <4>2. Cardinality(In("holding")) \in Nat /\ n \in Nat
                BY <1>0, <2>1 DEF SlotsConserved, TypeOK
            <4>3. /\ IsFiniteSet(In("holding") \cup woken)
                  /\ Cardinality(In("holding") \cup woken)
                        = Cardinality(In("holding")) + Cardinality(woken)
                            - Cardinality(In("holding") \cap woken)
                BY <1>0, <2>1, FS_Union DEF SlotsConserved
            <4> QED
                BY <4>1, <4>2, <4>3, <2>1
        <3> QED
            BY <1>0, <2>1, <2>2, <3>2 DEF SlotsConserved
    <2>5. QueueHoldsWaiters'
        <3>1. /\ Len(queue) \in Nat /\ n \in Nat /\ n <= Len(queue)
              /\ DOMAIN queue = 1..Len(queue) /\ DOMAIN queue' = 1..(Len(queue) - n)
            BY <1>0, <2>1 DEF TypeOK
        <3>2. \A i, j \in DOMAIN queue : queue[i] = queue[j] => i = j
            BY <1>0 DEF QueueHoldsWaiters
        <3>3. ASSUME NEW i \in DOMAIN queue', NEW j \in DOMAIN queue', queue'[i] = queue'[j]
              PROVE  i = j
            <4>1. /\ i \in 1..Len(queue') /\ j \in 1..Len(queue')
                  /\ i + n \in DOMAIN queue /\ j + n \in DOMAIN queue
                BY <2>1, <3>1
            <4>2. queue[i + n] = queue[j + n]
                BY <2>1, <3>3, <4>1
            <4>3. i + n = j + n
                BY <3>2, <4>1, <4>2
            <4> QED
                BY <3>1, <4>1, <4>3
        <3>4. {queue'[i] : i \in DOMAIN queue'} = {queue[i] : i \in (n + 1)..Len(queue)}
            <4>1. ASSUME NEW i \in DOMAIN queue'
                  PROVE  i + n \in (n + 1)..Len(queue) /\ queue'[i] = queue[i + n]
                <5>1. i \in 1..Len(queue') /\ i + n \in (n + 1)..Len(queue)
                    BY <2>1, <3>1
                <5> QED
                    BY <5>1, <2>1
            <4>2. ASSUME NEW j \in (n + 1)..Len(queue)
                  PROVE  j - n \in DOMAIN queue' /\ queue'[j - n] = queue[j]
                <5>1. j - n \in 1..Len(queue') /\ (j - n) + n = j
                    BY <2>1, <3>1
                <5> QED
                    BY <5>1, <2>1, <3>1
            <4> QED
                BY <4>1, <4>2
        <3>5. {queue[i] : i \in (n + 1)..Len(queue)}
                = {queue[i] : i \in DOMAIN queue} \ woken
            <4>1. \A i \in (n + 1)..Len(queue), j \in 1..n :
                    i \in DOMAIN queue /\ j \in DOMAIN queue /\ i # j
                BY <3>1
            <4>2. \A i \in DOMAIN queue : i \in 1..n \/ i \in (n + 1)..Len(queue)
                BY <3>1
            <4>3. ASSUME NEW x
                  PROVE  (\E i \in (n + 1)..Len(queue) : x = queue[i])
                            <=> (\E i \in DOMAIN queue : x = queue[i])
                                    /\ ~ \E i \in 1..n : x = queue[i]
                <5>1. ASSUME NEW i \in (n + 1)..Len(queue), x = queue[i]
                      PROVE  i \in DOMAIN queue /\ \A j \in 1..n : x # queue[j]
                    <6>1. ASSUME NEW j \in 1..n
                          PROVE  i \in DOMAIN queue /\ queue[i] # queue[j]
                        <7>1. i \in DOMAIN queue /\ j \in DOMAIN queue /\ i # j
                            BY <4>1
                        <7> QED
                            BY <3>2, <7>1
                    <6>2. i \in DOMAIN queue
                        BY <3>1
                    <6> QED
                        BY <5>1, <6>1, <6>2
                <5>2. ASSUME NEW i \in DOMAIN queue, x = queue[i], \A j \in 1..n : x # queue[j]
                      PROVE  i \in (n + 1)..Len(queue)
                    BY <4>2, <5>2
                <5> QED
                    BY <5>1, <5>2
            <4> QED
                BY <4>3 DEF woken
        <3> QED
            BY <1>0, <2>1, <3>3, <3>4, <3>5 DEF QueueHoldsWaiters
    <2>6. queue' # <<>> => activeCount' >= cap[l]
        <3>1. queue' # <<>> => n < Len(queue)
            BY <2>1
        <3> QED
            BY <2>1, <2>2, <3>1
    <2>7. NoLostWakeup'
        BY <1>0, <2>2, <2>6, <2>3 DEF NoLostWakeup, TypeOK
    <2>8. WorkConserving'
        BY <1>0, <2>2, <2>6 DEF WorkConserving
    <2> QED
        BY <2>3, <2>4, <2>5, <2>7, <2>8 DEF IInv
<1>9. CASE UNCHANGED vars
    <2>1. TypeOK' /\ NoLostWakeup' /\ WorkConserving'
        BY <1>0, <1>9 DEF vars, TypeOK, NoLostWakeup, WorkConserving
    <2>2. SlotsConserved' /\ QueueHoldsWaiters'
        BY <1>0, <1>9 DEF vars, SlotsConserved, QueueHoldsWaiters, In
    <2> QED
        BY <2>1, <2>2 DEF IInv
<1>10. ASSUME NEW l \in Launches, CallAcquire(l) \/ Acquire(l) \/ Release(l) \/ Drain(l)
       PROVE  IInv'
    BY <1>2, <1>3, <1>4, <1>5, <1>6, <1>7, <1>8, <1>10 DEF Acquire, Drain
<1> QED
    <2>1. CASE \E s \in Settings : ChangeSetting(s)
        BY <1>1, <2>1
    <2>2. CASE \E l \in Launches : CallAcquire(l) \/ Acquire(l) \/ Release(l) \/ Drain(l)
        BY <1>10, <2>2
    <2> QED
        BY <1>9, <2>1, <2>2 DEF Next

(* Type correctness, and with it the hard cap: activeCount never leaves      *)
(* 0..MAX_SYSTEM_CONCURRENCY whatever the setting does meanwhile.            *)
THEOREM TypeCorrect == Spec => []TypeOK
<1>1. Init => IInv
    BY InitIInv
<1>2. IInv /\ [Next]_vars => IInv'
    BY NextIInv
<1>3. IInv => TypeOK
    BY DEF IInv
<1> QED
    BY <1>1, <1>2, <1>3, PTL DEF Spec

(* No path through acquire, drain and release leaks a slot or frees one      *)
(* twice: the counter is the number of launches that hold a slot.            *)
THEOREM SlotsAreConserved == Spec => []SlotsConserved
<1>1. Init => IInv
    BY InitIInv
<1>2. IInv /\ [Next]_vars => IInv'
    BY NextIInv
<1>3. IInv => SlotsConserved
    BY DEF IInv
<1> QED
    BY <1>1, <1>2, <1>3, PTL DEF Spec

(* A suspended caller is always in the queue, once.                          *)
THEOREM QueueIsExact == Spec => []QueueHoldsWaiters
<1>1. Init => IInv
    BY InitIInv
<1>2. IInv /\ [Next]_vars => IInv'
    BY NextIInv
<1>3. IInv => QueueHoldsWaiters
    BY DEF IInv
<1> QED
    BY <1>1, <1>2, <1>3, PTL DEF Spec

(* A suspended caller always has a holder or a drain that will resume it,    *)
(* although acquire and drain decide on caps read before an await.           *)
THEOREM WakeupsAreNotLost == Spec => []NoLostWakeup
<1>1. Init => IInv
    BY InitIInv
<1>2. IInv /\ [Next]_vars => IInv'
    BY NextIInv
<1>3. IInv => NoLostWakeup
    BY DEF IInv
<1> QED
    BY <1>1, <1>2, <1>3, PTL DEF Spec

(* With no drain under way, callers wait only behind a full cap.             *)
THEOREM NoIdleCapacity == Spec => []WorkConserving
<1>1. Init => IInv
    BY InitIInv
<1>2. IInv /\ [Next]_vars => IInv'
    BY NextIInv
<1>3. IInv => WorkConserving
    BY DEF IInv
<1> QED
    BY <1>1, <1>2, <1>3, PTL DEF Spec

--------------------------------------------------------------------------------

(* The instance's Cardinality is the library's. *)
LEMMA PoolCardinality == \A S : Pool!Cardinality(S) = Cardinality(S)
BY DEF Pool!Cardinality, Cardinality

(* A step of the semaphore is a step of the pool or leaves the pool as it is. *)
LEMMA StepImplementsPool == IInv /\ IInv' /\ [Next]_vars => [Pool!Next]_(Pool!vars)
<1> SUFFICES ASSUME IInv, IInv', [Next]_vars PROVE [Pool!Next]_(Pool!vars)
    OBVIOUS
<1> DEFINE waiting == In("reading") \cup In("deciding") \cup In("queued")
<1>0. TypeOK /\ SlotsConserved /\ QueueHoldsWaiters
      /\ TypeOK' /\ SlotsConserved'
    BY DEF IInv
<1>a. IsFiniteSet(In("holding")') /\ Cardinality(In("holding")') <= MaxAgents
    BY <1>0, MaxAgentsAssumption DEF SlotsConserved, TypeOK
<1>1. ASSUME NEW s \in Settings, ChangeSetting(s)
      PROVE  UNCHANGED Pool!vars
    BY <1>1 DEF ChangeSetting, Pool!vars, In
<1>2. ASSUME NEW l \in Launches, CallAcquire(l)
      PROVE  Pool!Ask(l)
    BY <1>0, <1>2 DEF CallAcquire, Pool!Ask, In, TypeOK
<1>3. ASSUME NEW l \in Launches, AcquireReadsCap(l) \/ Enqueue(l) \/ DrainReadsCap(l)
      PROVE  UNCHANGED Pool!vars
    BY <1>0, <1>3 DEF AcquireReadsCap, Enqueue, DrainReadsCap, Pool!vars, In, TypeOK
<1>4. ASSUME NEW l \in Launches, TakeSlot(l)
      PROVE  Pool!Grant({l}) /\ {l} \in SUBSET waiting
    <2>1. /\ In("holding")' = In("holding") \cup {l}
          /\ In("deciding")' = In("deciding") \ {l}
          /\ \A p \in {"reading", "queued", "released"} : In(p)' = In(p) /\ l \notin In(p)
          /\ l \in In("deciding")
        BY <1>0, <1>4 DEF TakeSlot, In, TypeOK
    <2>2. /\ In("reading")' = In("reading") /\ l \notin In("reading")
          /\ In("queued")' = In("queued") /\ l \notin In("queued")
          /\ In("released")' = In("released")
        BY <2>1
    <2>3. Cardinality(In("holding") \cup {l}) <= MaxAgents
        BY <1>a, <2>1
    <2> QED
        BY <2>1, <2>2, <2>3, PoolCardinality DEF Pool!Grant
<1>5. ASSUME NEW l \in Launches, Release(l)
      PROVE  Pool!End(l)
    BY <1>0, <1>5 DEF Release, Pool!End, In, TypeOK
<1>6. ASSUME NEW l \in Launches, WakeWaiters(l)
      PROVE  (\E G \in SUBSET waiting : Pool!Grant(G)) \/ UNCHANGED Pool!vars
    <2> DEFINE woken == {queue[i] : i \in 1..Woken(cap[l])}
    <2>1. woken \subseteq In("queued")
        BY <1>0, <1>6, WakeFacts
    <2>2. phase' = [m \in Launches |-> IF m \in woken THEN "holding" ELSE phase[m]]
        BY <1>6 DEF WakeWaiters
    <2> HIDE DEF woken
    <2>3. /\ In("holding")' = In("holding") \cup woken
          /\ In("queued")' = In("queued") \ woken
          /\ \A p \in {"reading", "deciding", "released"} : In(p)' = In(p) /\ In(p) \cap woken = {}
        BY <2>1, <2>2 DEF In
    <2>4. waiting' = waiting \ woken
        BY <2>3
    <2>5. CASE woken = {}
        BY <2>3, <2>4, <2>5 DEF Pool!vars
    <2>6. CASE woken # {}
        <3>1. Pool!Grant(woken)
            <4>1. Cardinality(In("holding") \cup woken) <= MaxAgents
                BY <1>a, <2>3
            <4>2. In("released")' = In("released")
                BY <2>3
            <4> QED
                BY <2>3, <2>4, <2>6, <4>1, <4>2, PoolCardinality DEF Pool!Grant
        <3>2. woken \in SUBSET waiting
            BY <2>1
        <3> QED
            BY <3>1, <3>2
    <2> QED
        BY <2>5, <2>6
<1>7. CASE UNCHANGED vars
    BY <1>7 DEF vars, Pool!vars, In
<1>8. ASSUME NEW l \in Launches, CallAcquire(l) \/ Acquire(l) \/ Release(l) \/ Drain(l)
      PROVE  [Pool!Next]_(Pool!vars)
    <2>1. CASE CallAcquire(l) \/ Release(l)
        BY <1>2, <1>5, <2>1 DEF Pool!Next
    <2>2. CASE TakeSlot(l)
        BY <1>4, <2>2 DEF Pool!Next
    <2>3. CASE WakeWaiters(l)
        BY <1>6, <2>3 DEF Pool!Next
    <2>4. CASE AcquireReadsCap(l) \/ Enqueue(l) \/ DrainReadsCap(l)
        BY <1>3, <2>4
    <2> QED
        BY <1>8, <2>1, <2>2, <2>3, <2>4 DEF Acquire, Drain
<1> QED
    <2>1. CASE \E s \in Settings : ChangeSetting(s)
        BY <1>1, <2>1
    <2>2. CASE \E l \in Launches : CallAcquire(l) \/ Acquire(l) \/ Release(l) \/ Drain(l)
        BY <1>8, <2>2
    <2> QED
        BY <1>7, <2>1, <2>2 DEF Next

(* The semaphore implements the pool: for any number of launches, at most    *)
(* MAX_SYSTEM_CONCURRENCY agents run at once, each launch runs once, and     *)
(* only a launch that waits is let in.                                       *)
THEOREM SemaphoreImplementsPool == Spec => ImplementsPool
<1>1. Init => IInv
    BY InitIInv
<1>2. IInv /\ [Next]_vars => IInv'
    BY NextIInv
<1>3. Init => Pool!Init
    BY DEF Init, Pool!Init, In
<1>4. IInv /\ IInv' /\ [Next]_vars => [Pool!Next]_(Pool!vars)
    BY StepImplementsPool
<1> QED
    BY <1>1, <1>2, <1>3, <1>4, PTL DEF Spec, ImplementsPool, Pool!Spec

================================================================================
