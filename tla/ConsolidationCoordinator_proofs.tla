------------------- MODULE ConsolidationCoordinator_proofs -------------------
(***************************************************************************)
(* Proofs about ConsolidationCoordinator for every set of scopes and every *)
(* retry and store bound: type correctness, that nothing stored or         *)
(* discovered is forgotten, that giving up is earned, that stop() is       *)
(* clean, and the safety part of ScopeWork.                                *)
(***************************************************************************)
EXTENDS ConsolidationCoordinator, SequenceTheorems, FiniteSetTheorems, TLAPS

-----------------------------------------------------------------------------
(* What the queue operations do to the set of queued scopes.               *)

\* A scope appended to the queue is added to the queued scopes (enqueue).
LEMMA RangeAppend ==
  ASSUME NEW q \in Seq(Scopes), NEW s \in Scopes
  PROVE  /\ Append(q, s) \in Seq(Scopes)
         /\ Append(q, s) # <<>>
         /\ Range(Append(q, s)) = Range(q) \cup {s}
<1>1. /\ Append(q, s) \in Seq(Scopes)
      /\ Len(Append(q, s)) = Len(q) + 1
      /\ \A i \in 1..Len(q) : Append(q, s)[i] = q[i]
      /\ Append(q, s)[Len(q) + 1] = s
  OBVIOUS
<1>2. DOMAIN Append(q, s) = DOMAIN q \cup {Len(q) + 1}
  BY <1>1, LenProperties
<1>3. Range(Append(q, s)) = Range(q) \cup {s}
  BY <1>1, <1>2, LenProperties DEF Range
<1> QED
  BY <1>1, <1>3

\* Taking the head of a non-empty queue leaves the other scopes queued (drain).
LEMMA RangeTail ==
  ASSUME NEW q \in Seq(Scopes), q # <<>>
  PROVE  /\ Head(q) \in Scopes /\ Tail(q) \in Seq(Scopes)
         /\ Range(q) = Range(Tail(q)) \cup {Head(q)}
<1>1. /\ Head(q) \in Scopes /\ Tail(q) \in Seq(Scopes)
      /\ Len(Tail(q)) = Len(q) - 1
      /\ \A i \in 1..Len(Tail(q)) : Tail(q)[i] = q[i + 1]
  BY HeadTailProperties
<1>2. /\ DOMAIN q = 1..Len(q) /\ DOMAIN Tail(q) = 1..(Len(q) - 1)
      /\ Len(q) \in Nat /\ Len(q) # 0
  BY <1>1, LenProperties, EmptySeq
<1>3. Head(q) = q[1]
  OBVIOUS
<1>4. Range(Tail(q)) \cup {Head(q)} \subseteq Range(q)
  BY <1>1, <1>2, <1>3 DEF Range
<1>5. ASSUME NEW i \in DOMAIN q PROVE q[i] \in Range(Tail(q)) \cup {Head(q)}
  <2>1. CASE i = 1 BY <2>1, <1>3
  <2>2. CASE i # 1
    <3>1. i - 1 \in DOMAIN Tail(q) /\ Tail(q)[i - 1] = q[i]
      BY <2>2, <1>1, <1>2
    <3> QED BY <3>1 DEF Range
  <2> QED BY <2>1, <2>2
<1> QED
  BY <1>1, <1>4, <1>5 DEF Range

\* Scopes queued behind others do not push anyone out (the loop of catchUp).
LEMMA RangeConcat ==
  ASSUME NEW q \in Seq(Scopes), NEW r \in Seq(Scopes)
  PROVE  q \o r \in Seq(Scopes) /\ Range(q) \subseteq Range(q \o r)
<1>1. /\ q \o r \in Seq(Scopes)
      /\ Len(q \o r) = Len(q) + Len(r)
      /\ \A i \in 1..Len(q) : (q \o r)[i] = q[i]
  BY ConcatProperties, LenProperties
<1>2. /\ DOMAIN q = 1..Len(q) /\ DOMAIN (q \o r) = 1..(Len(q) + Len(r))
      /\ Len(q) \in Nat /\ Len(r) \in Nat
  BY <1>1, LenProperties
<1> QED
  BY <1>1, <1>2 DEF Range

\* An ordering of a set of scopes is a sequence of scopes.
LEMMA OrderingIsSeq ==
  ASSUME NEW S \in SUBSET Scopes, NEW q \in Orderings(S)
  PROVE  q \in Seq(Scopes)
<1>1. Cardinality(S) \in Nat
  BY ConstAssumption, FS_Subset, FS_CardinalityType
<1>2. q \in [1..Cardinality(S) -> Scopes]
  BY DEF Orderings
<1> QED
  BY <1>1, <1>2, SeqDef

-----------------------------------------------------------------------------
(* What starting, queueing and ending runs does to the scheduler's state.  *)

QueueTypeOK ==
  /\ queue \in Seq(Scopes)
  /\ queuedAttempt \in [Scopes -> Attempts]
  /\ drainPc \in {"idle", "run", "mark", "close"}
  /\ runningScope \in Scopes \cup {None}
  /\ runningAttempt \in Attempts
  /\ owed \subseteq Scopes

\* A run of scope s starts, and nothing else of `still` is covered by it.
Starts(s, still) ==
  drainPc' = "run" /\ runningScope' = s /\ owed' = still \ {s}

\* A loop iteration takes the head of the queue and keeps the rest.
LEMMA RunNextStep ==
  ASSUME NEW q \in Seq(Scopes), q # <<>>,
         NEW att \in [Scopes -> Attempts], RunNext(q, att)
  PROVE  /\ drainPc' = "run" /\ runningScope' = Head(q) /\ Head(q) \in Scopes
         /\ runningAttempt' \in Attempts
         /\ queue' \in Seq(Scopes)
         /\ queuedAttempt' \in [Scopes -> Attempts]
         /\ Range(q) = Queued' \cup {Head(q)}
<1>1. /\ Head(q) \in Scopes /\ Tail(q) \in Seq(Scopes)
      /\ Range(q) = Range(Tail(q)) \cup {Head(q)}
  BY RangeTail
<1>2. 0 \in Attempts
  BY ConstAssumption DEF Attempts
<1> QED
  BY <1>1, <1>2 DEF RunNext, StartRun, Queued

\* queue.set keeps every queued scope and adds s.
LEMMA LineRank ==
  ASSUME TypeOK, NEW s \in Scopes, NEW a \in Attempts
  PROVE  /\ Line(s) \in Seq(Scopes) /\ Line(s) # <<>>
         /\ Range(Line(s)) = Queued \cup {s}
         /\ Rank(s, a) \in [Scopes -> Attempts]
<1>1. Line(s) \in Seq(Scopes) /\ Range(Line(s)) = Queued \cup {s}
  BY RangeAppend DEF Line, Queued, TypeOK
<1>2. Line(s) # <<>>
  BY RangeAppend DEF Line, Queued, TypeOK, Range
<1>3. Rank(s, a) \in [Scopes -> Attempts]
  BY DEF Rank, TypeOK
<1> QED
  BY <1>1, <1>2, <1>3

\* enqueue() loses nothing: what was queued, and s, is queued or running.
LEMMA EnqueueStep ==
  ASSUME TypeOK, NEW s \in Scopes, NEW a \in Attempts, Enqueue(s, a)
  PROVE  /\ QueueTypeOK'
         /\ \/ /\ UNCHANGED <<drainVars, owed>>
               /\ Queued' = Queued \cup {s}
            \/ /\ drainPc = "idle"
               /\ \E t \in Scopes : /\ Starts(t, owed)
                                     /\ Queued \cup {s} = Queued' \cup {t}
<1>1. /\ Line(s) \in Seq(Scopes) /\ Line(s) # <<>>
      /\ Range(Line(s)) = Queued \cup {s}
      /\ Rank(s, a) \in [Scopes -> Attempts]
  BY LineRank
<1>2. CASE NotDraining
  <2>1. RunNext(Line(s), Rank(s, a)) /\ owed' = owed \ {Head(Line(s))}
    BY <1>2 DEF Enqueue
  <2>2. /\ drainPc' = "run" /\ runningScope' = Head(Line(s))
        /\ Head(Line(s)) \in Scopes
        /\ runningAttempt' \in Attempts
        /\ queue' \in Seq(Scopes)
        /\ queuedAttempt' \in [Scopes -> Attempts]
        /\ Range(Line(s)) = Queued' \cup {Head(Line(s))}
    BY <2>1, <1>1, RunNextStep
  <2> QED
    BY <2>1, <2>2, <1>1, <1>2 DEF QueueTypeOK, Starts, NotDraining, TypeOK
<1>3. CASE ~NotDraining
  <2>1. /\ queue' = Line(s) /\ queuedAttempt' = Rank(s, a)
        /\ UNCHANGED <<drainVars, owed>>
    BY <1>3 DEF Enqueue
  <2> QED
    BY <2>1, <1>1 DEF QueueTypeOK, Queued, TypeOK, drainVars
<1> QED
  BY <1>2, <1>3

\* After an iteration the next run starts, or the loop ends with the queue as
\* it is.
LEMMA ContinueStep ==
  ASSUME TypeOK, NEW still \in SUBSET Scopes, Continue(still)
  PROVE  /\ QueueTypeOK'
         /\ \/ /\ ~stopped
               /\ \E t \in Scopes : Starts(t, still) /\ Queued = Queued' \cup {t}
            \/ /\ drainPc' = "close" /\ runningScope' = None
               /\ owed' = still /\ Queued' = Queued
<1>1. CASE ~stopped /\ queue # <<>>
  <2>1. RunNext(queue, queuedAttempt) /\ owed' = still \ {Head(queue)}
    BY <1>1 DEF Continue
  <2>2. /\ drainPc' = "run" /\ runningScope' = Head(queue)
        /\ Head(queue) \in Scopes
        /\ runningAttempt' \in Attempts
        /\ queue' \in Seq(Scopes)
        /\ queuedAttempt' \in [Scopes -> Attempts]
        /\ Queued = Queued' \cup {Head(queue)}
    BY <2>1, <1>1, RunNextStep DEF TypeOK, Queued
  <2> QED
    BY <2>1, <2>2, <1>1 DEF QueueTypeOK, Starts
<1>2. CASE ~(~stopped /\ queue # <<>>)
  <2>1. /\ drainPc' = "close" /\ runningScope' = None /\ runningAttempt' = 0
        /\ owed' = still /\ UNCHANGED queueVars
    BY <1>2 DEF Continue
  <2> QED
    BY <2>1, ConstAssumption
    DEF QueueTypeOK, Attempts, Queued, queueVars, TypeOK
<1> QED
  BY <1>1, <1>2

\* The enqueue loop of catchUp() loses nothing that was queued.
LEMMA EnqueueAllStep ==
  ASSUME TypeOK, NEW D \in SUBSET Scopes, EnqueueAll(D)
  PROVE  /\ QueueTypeOK'
         /\ \/ UNCHANGED <<drainVars, owed>> /\ Queued \subseteq Queued'
            \/ /\ ~stopped /\ drainPc = "idle"
               /\ \E t \in Scopes : /\ Starts(t, owed)
                                     /\ Queued \subseteq Queued' \cup {t}
<1>1. CASE D = {} \/ stopped
  BY <1>1 DEF EnqueueAll, QueueTypeOK, TypeOK, drainVars, queueVars, Queued
<1>2. CASE ~(D = {} \/ stopped)
  <2>1. EnqueueEach(D)
    BY <1>2 DEF EnqueueAll
  <2>2. PICK first \in D :
          LET q == Line(first)
              rank == [queuedAttempt EXCEPT ![first] = 0]
              left == IF NotDraining THEN Tail(q) ELSE q
              missing == (D \ {first}) \ Range(left)
          IN /\ \E rest \in Orderings(missing) : queue' = left \o rest
             /\ IF NotDraining
                THEN /\ StartRun(q, rank)
                     /\ queuedAttempt' =
                          [s \in Scopes |-> IF s \in D \/ s = Head(q)
                                            THEN 0 ELSE rank[s]]
                     /\ owed' = owed \ {Head(q)}
                ELSE /\ queuedAttempt' =
                          [s \in Scopes |-> IF s \in D THEN 0 ELSE rank[s]]
                     /\ UNCHANGED <<drainVars, owed>>
    BY <2>1 DEF EnqueueEach
  <2> DEFINE q == Line(first)
             rank == [queuedAttempt EXCEPT ![first] = 0]
             left == IF NotDraining THEN Tail(q) ELSE q
             missing == (D \ {first}) \ Range(left)
  <2>3. 0 \in Attempts
    BY ConstAssumption DEF Attempts
  <2>4. /\ q \in Seq(Scopes) /\ q # <<>>
        /\ Range(q) = Queued \cup {first}
    BY <2>3, LineRank
  <2>5. /\ Head(q) \in Scopes /\ Tail(q) \in Seq(Scopes)
        /\ Range(q) = Range(Tail(q)) \cup {Head(q)}
    BY <2>4, RangeTail
  <2>6. rank \in [Scopes -> Attempts]
    BY <2>3 DEF TypeOK
  <2>7. left \in Seq(Scopes)
    BY <2>4, <2>5
  <2>8. PICK rest \in Orderings(missing) : queue' = left \o rest
    BY <2>2
  <2>9. queue' \in Seq(Scopes) /\ Range(left) \subseteq Queued'
    <3>1. rest \in Seq(Scopes)
      <4>1. missing \in SUBSET Scopes OBVIOUS
      <4> HIDE DEF missing
      <4> QED BY <2>8, <4>1, OrderingIsSeq
    <3> QED
      BY <3>1, <2>7, <2>8, RangeConcat DEF Queued
  <2>10. CASE NotDraining
    <3>1. /\ drainPc' = "run" /\ runningScope' = Head(q)
          /\ runningAttempt' = rank[Head(q)]
          /\ queuedAttempt' = [s \in Scopes |-> IF s \in D \/ s = Head(q)
                                                THEN 0 ELSE rank[s]]
          /\ owed' = owed \ {Head(q)}
      BY <2>2, <2>10 DEF StartRun
    <3>2. left = Tail(q)
      BY <2>10
    <3> HIDE DEF q, rank, left
    <3>3. QueueTypeOK'
      BY <3>1, <2>3, <2>5, <2>6, <2>9 DEF QueueTypeOK, TypeOK
    <3> QED
      BY <3>1, <3>2, <3>3, <2>4, <2>5, <2>9, <2>10, <1>2
      DEF Starts, NotDraining
  <2>11. CASE ~NotDraining
    <3>1. /\ queuedAttempt' = [s \in Scopes |-> IF s \in D THEN 0 ELSE rank[s]]
          /\ UNCHANGED <<drainVars, owed>>
      BY <2>2, <2>11
    <3>2. left = q
      BY <2>11
    <3> HIDE DEF q, rank, left
    <3> QED
      BY <3>1, <3>2, <2>3, <2>4, <2>6, <2>9
      DEF QueueTypeOK, TypeOK, drainVars
  <2> QED
    BY <2>10, <2>11
<1> QED
  BY <1>1, <1>2

-----------------------------------------------------------------------------
(* Type correctness.                                                       *)

\* The type invariant holds of the scheduler for every constant value.
LEMMA TypeInit == Init => TypeOK
<1>1. 0 \in Attempts /\ 0 \in 0..(MaxRetries + 1) /\ 0 \in 0..MaxStores
  BY ConstAssumption DEF Attempts
<1>2. <<>> \in Seq(Scopes)
  OBVIOUS
<1>3. 0 \in Nat
  OBVIOUS
<1> QED
  BY <1>1, <1>2, <1>3 DEF Init, TypeOK

\* Every step of the event loop preserves it.
LEMMA TypeStep == TypeOK /\ RunInv /\ [Next]_vars => TypeOK'
<1> SUFFICES ASSUME TypeOK, RunInv, [Next]_vars PROVE TypeOK'
  OBVIOUS
<1> USE ConstAssumption
<1>0. 0 \in Attempts
  BY DEF Attempts
<1>1. ASSUME NEW s \in Scopes, Schedule(s) PROVE TypeOK'
  BY <1>1 DEF Schedule, TypeOK, stopVars, queueVars, drainVars, catchUpVars,
              discoveryVars, discoveryTimers
<1>2. ASSUME NEW s \in Scopes, DebounceFires(s) PROVE TypeOK'
  <2>1. QueueTypeOK'
    BY <1>0, <1>2, EnqueueStep DEF DebounceFires
  <2> QED
    BY <1>2, <2>1 DEF DebounceFires, TypeOK, QueueTypeOK, stopVars, catchUpVars,
                      discoveryVars, discoveryTimers
<1>3. ASSUME NEW s \in Scopes, RetryFires(s) PROVE TypeOK'
  <2>1. retries[s] \in Attempts
    BY DEF TypeOK
  <2>2. QueueTypeOK'
    BY <2>1, <1>3, EnqueueStep DEF RetryFires
  <2> QED
    BY <1>0, <1>3, <2>2 DEF RetryFires, TypeOK, QueueTypeOK, stopVars,
                            catchUpVars, discoveryVars, discoveryTimers
<1>4. ASSUME NEW mutated \in BOOLEAN, RunSucceeds(mutated) PROVE TypeOK'
  <2>1. runningScope \in Scopes
    BY <1>4 DEF RunSucceeds, RunInv, TypeOK
  <2>2. QueueTypeOK'
    <3>1. CASE mutated
      BY <1>4, <3>1 DEF RunSucceeds, TypeOK, QueueTypeOK, queueVars
    <3>2. CASE ~mutated
      BY <1>4, <3>2, ContinueStep DEF RunSucceeds, TypeOK
    <3> QED BY <3>1, <3>2
  <2>3. failures' \in [Scopes -> 0..(MaxRetries + 1)] /\ retries' \in [Scopes -> Attempts]
    <3>1. 0 \in 0..(MaxRetries + 1)
      OBVIOUS
    <3>2. failures' = [failures EXCEPT ![runningScope] =
                         IF runningScope \in Queued THEN @ ELSE 0]
      BY <1>4 DEF RunSucceeds
    <3>3. failures' \in [Scopes -> 0..(MaxRetries + 1)]
      BY <3>1, <3>2, <2>1 DEF TypeOK
    <3> QED
      BY <1>0, <1>4, <3>3 DEF RunSucceeds, ClearRetry, TypeOK
  <2>4. /\ UNCHANGED <<stopVars, debounceTimers, catchUpVars, known, stores>>
        /\ exhaustedFailure' = FALSE
        /\ abandoned' \subseteq abandoned
    BY <1>4 DEF RunSucceeds
  <2> QED
    BY <2>2, <2>3, <2>4
    DEF TypeOK, QueueTypeOK, stopVars, catchUpVars, discoveryVars, discoveryTimers
<1>5. CASE RunFails
  <2>1. runningScope \in Scopes
    BY <1>5 DEF RunFails, RunInv, TypeOK
  <2>2. QueueTypeOK'
    BY <1>5, <2>1, ContinueStep DEF RunFails, TypeOK
  <2>3. retries' \in [Scopes -> Attempts]
    BY <1>0, <1>5, <2>1 DEF RunFails, RetriesLeft, Attempts, TypeOK
  <2>4. failures' \in [Scopes -> 0..(MaxRetries + 1)]
    BY <1>5, <2>1 DEF RunFails, TypeOK
  <2> QED
    BY <1>5, <2>1, <2>2, <2>3, <2>4
    DEF RunFails, TypeOK, QueueTypeOK, stopVars, catchUpVars, discoveryVars, discoveryTimers
<1>6. CASE PublicationScheduled
  <2>1. QueueTypeOK'
    BY <1>6, ContinueStep DEF PublicationScheduled, TypeOK
  <2> QED
    BY <1>6, <2>1 DEF PublicationScheduled, TypeOK, QueueTypeOK, stopVars,
                      catchUpVars, discoveryVars, discoveryTimers
<1>7. CASE DrainSettles
  BY <1>7 DEF DrainSettles, TypeOK, stopVars, queueVars, catchUpVars,
              discoveryVars, discoveryTimers, observers
<1>8. CASE StartupFires
  BY <1>0, <1>8 DEF StartupFires, CatchUp, TypeOK, stopVars, queueVars,
              drainVars, discoveryVars, discoveryTimers, observers
<1>9. CASE IntervalFires
  BY <1>0, <1>9 DEF IntervalFires, CatchUp, TypeOK, stopVars, queueVars,
              drainVars, discoveryVars, discoveryTimers, observers
<1>10. CASE DiscoveryFires
  <2>1. CASE DiscoveryRetryFires
    BY <1>0, <2>1 DEF DiscoveryRetryFires, CatchUp, TypeOK, Attempts, stopVars,
                      queueVars, drainVars, observers
  <2>2. ASSUME NEW a \in 1..MaxRetries, OrphanFires(a) PROVE TypeOK'
    <3>1. discoveryOrphans' \in [1..MaxRetries -> Nat]
      BY <2>2 DEF OrphanFires, Orphaned, TypeOK
    <3> QED
      <4>1. catchUpAttempt' \in Attempts /\ catchUpPc' \in {"idle", "discover", "mark"}
        BY <2>2 DEF OrphanFires, CatchUp, TypeOK, Attempts
      <4> QED
        BY <1>0, <2>2, <3>1, <4>1 DEF OrphanFires, TypeOK, stopVars, queueVars,
                                      drainVars, observers
  <2> QED
    BY <1>10, <2>1, <2>2 DEF DiscoveryFires
<1>11. ASSUME NEW r \in BOOLEAN, DiscoverSucceeds(r) PROVE TypeOK'
  <2>1. QueueTypeOK'
    BY <1>11, EnqueueAllStep DEF DiscoverSucceeds, TypeOK
  <2> QED
    BY <1>0, <1>11, <2>1 DEF DiscoverSucceeds, CatchUpDone, TypeOK, QueueTypeOK,
                       stopVars, discoveryTimers
<1>12. CASE DiscoverFails
  <2>1. CASE ~stopped /\ catchUpAttempt < MaxRetries
    <3>1. discoveryHandle' \in Attempts
      <4>1. discoveryHandle' = catchUpAttempt + 1 /\ catchUpAttempt \in 0..MaxRetries
        BY <1>12, <2>1 DEF DiscoverFails, ArmsDiscoveryRetry, TypeOK, Attempts
      <4> QED
        BY <2>1, <4>1, ConstAssumption DEF Attempts
    <3>2. discoveryOrphans' \in [1..MaxRetries -> Nat]
      <4>1. /\ discoveryOrphans' = Orphaned(discoveryOrphans)
            /\ discoveryOrphans \in [1..MaxRetries -> Nat]
        BY <1>12, <2>1 DEF DiscoverFails, ArmsDiscoveryRetry, TypeOK
      <4> QED
        BY <4>1 DEF Orphaned
    <3>3. discoveryExhausted' \in BOOLEAN
      BY <1>12 DEF DiscoverFails, DiscoveryGivesUp, TypeOK
    <3> QED
      BY <1>0, <1>12, <3>1, <3>2, <3>3 DEF DiscoverFails, TypeOK, stopVars,
         queueVars, drainVars, observers
  <2>2. CASE ~(~stopped /\ catchUpAttempt < MaxRetries)
    BY <1>0, <1>12, <2>2 DEF DiscoverFails, TypeOK, stopVars, queueVars,
       drainVars, discoveryTimers, observers
  <2> QED
    BY <2>1, <2>2
<1>13. CASE ReconciliationScheduled
  BY <1>0, <1>13 DEF ReconciliationScheduled, CatchUpDone, TypeOK, stopVars,
               queueVars, drainVars, discoveryTimers, observers
<1>14. CASE Stop
  <2>1. <<>> \in Seq(Scopes)
    OBVIOUS
  <2> QED
    BY <1>0, <1>14, <2>1 DEF Stop, TypeOK, drainVars, observers
<1>15. CASE StopResolves
  BY <1>15 DEF StopResolves, TypeOK, queueVars, drainVars, catchUpVars,
               discoveryVars, discoveryTimers, observers
<1>16. CASE UNCHANGED vars
  BY <1>16 DEF vars, TypeOK, stopVars, queueVars, drainVars, catchUpVars,
               discoveryVars, discoveryTimers, observers
<1> QED
  BY <1>1, <1>2, <1>3, <1>4, <1>5, <1>6, <1>7, <1>8, <1>9, <1>10, <1>11,
     <1>12, <1>13, <1>14, <1>15, <1>16
  DEF Next, RunSettles, DiscoverSettles

-----------------------------------------------------------------------------
(* No stored scope is forgotten.                                           *)

\* stop() cleared the queue and every timer it holds, and nothing arms one
\* afterwards.
StopInv ==
  stopped => /\ debounceTimers = {} /\ queue = <<>>
             /\ \A s \in Scopes : retries[s] = 0
             /\ ~startupTimer /\ discoveryHandle = 0

IndInv == TypeOK /\ NoForgottenScope /\ RunInv /\ StopInv

\* An enqueue that consumes the timer s was waiting on keeps the invariant: s
\* moves into the queue or its run starts.
LEMMA EnqueueKeeps ==
  ASSUME IndInv, NEW s \in Scopes, NEW a \in Attempts, Enqueue(s, a),
         MacrotaskTurn, UNCHANGED stopped,
         debounceTimers \ {s} \subseteq debounceTimers',
         \A t \in Scopes \ {s} : retries'[t] = retries[t]
  PROVE  NoForgottenScope' /\ RunInv'
<1>1. CASE UNCHANGED <<drainVars, owed>> /\ Queued' = Queued \cup {s}
  BY <1>1 DEF IndInv, NoForgottenScope, RunInv, TypeOK, drainVars
<1>2. ASSUME drainPc = "idle",
             NEW t \in Scopes, Starts(t, owed), Queued \cup {s} = Queued' \cup {t}
      PROVE  NoForgottenScope' /\ RunInv'
  BY <1>2, ConstAssumption DEF IndInv, NoForgottenScope, RunInv, TypeOK, Starts
<1> QED
  BY <1>1, <1>2, EnqueueStep DEF IndInv

\* The end of a run keeps the invariant: what the run leaves owed waits on a
\* timer or in the queue.
LEMMA ContinueKeeps ==
  ASSUME IndInv, NEW still \in SUBSET Scopes, Continue(still),
         UNCHANGED <<stopped, debounceTimers>>,
         ~stopped => \A s \in still : \/ s \in debounceTimers
                                      \/ s \in Queued
                                      \/ retries'[s] # 0
  PROVE  NoForgottenScope' /\ RunInv'
<1>1. ASSUME NEW t \in Scopes, Starts(t, still), Queued = Queued' \cup {t}
      PROVE  NoForgottenScope' /\ RunInv'
  BY <1>1, ConstAssumption DEF NoForgottenScope, RunInv, Starts
<1>2. CASE /\ drainPc' = "close" /\ runningScope' = None
           /\ owed' = still /\ Queued' = Queued
  BY <1>2, ConstAssumption DEF NoForgottenScope, RunInv
<1> QED
  BY <1>1, <1>2, ContinueStep DEF IndInv

\* Every step preserves NoForgottenScope and RunInv.
LEMMA ForgottenStep == IndInv /\ [Next]_vars => NoForgottenScope' /\ RunInv'
<1> SUFFICES ASSUME IndInv, [Next]_vars PROVE NoForgottenScope' /\ RunInv'
  OBVIOUS
<1> USE ConstAssumption
<1>1. ASSUME NEW s \in Scopes, Schedule(s) PROVE NoForgottenScope' /\ RunInv'
  BY <1>1 DEF Schedule, IndInv, NoForgottenScope, RunInv, Queued, stopVars,
              queueVars, drainVars
<1>2. ASSUME NEW s \in Scopes, DebounceFires(s)
      PROVE NoForgottenScope' /\ RunInv'
  <2>1. 0 \in Attempts
    BY DEF Attempts
  <2> QED
    BY <1>2, <2>1, EnqueueKeeps DEF DebounceFires, stopVars
<1>3. ASSUME NEW s \in Scopes, RetryFires(s) PROVE NoForgottenScope' /\ RunInv'
  <2>1. retries[s] \in Attempts /\ \A t \in Scopes \ {s} : retries'[t] = retries[t]
    BY <1>3 DEF RetryFires, IndInv, TypeOK
  <2> QED
    BY <1>3, <2>1, EnqueueKeeps DEF RetryFires, stopVars
<1>4. ASSUME NEW mutated \in BOOLEAN, RunSucceeds(mutated)
      PROVE NoForgottenScope' /\ RunInv'
  <2>1. /\ runningScope \in Scopes
        /\ \A s \in Scopes \ {runningScope} : retries'[s] = retries[s]
    BY <1>4 DEF RunSucceeds, ClearRetry, IndInv, RunInv, TypeOK
  <2>2. ~stopped => \A s \in owed : \/ s \in debounceTimers
                                    \/ s \in Queued
                                    \/ retries'[s] # 0
    BY <2>1 DEF IndInv, NoForgottenScope, RunInv, TypeOK
  <2>3. CASE mutated
    BY <1>4, <2>2, <2>3 DEF RunSucceeds, IndInv, NoForgottenScope, RunInv,
                            Queued, stopVars, queueVars
  <2>4. CASE ~mutated
    BY <1>4, <2>2, <2>4, ContinueKeeps DEF RunSucceeds, IndInv, TypeOK, stopVars
  <2> QED
    BY <2>3, <2>4
<1>5. CASE RunFails
  <2> DEFINE retry == ~stopped /\ RetriesLeft(runningAttempt + 1)
             still == IF retry THEN owed \cup {runningScope} ELSE owed
  <2>1. runningScope \in Scopes
    BY <1>5 DEF RunFails, IndInv, RunInv, TypeOK
  <2>2. /\ Continue(still)
        /\ retries' = [retries EXCEPT ![runningScope] =
                          IF retry THEN runningAttempt + 1 ELSE 0]
        /\ UNCHANGED <<stopped, debounceTimers>>
    BY <1>5 DEF RunFails, stopVars
  <2>3. runningAttempt + 1 # 0
    BY DEF IndInv, TypeOK, Attempts
  <2>4. /\ \A s \in Scopes \ {runningScope} : retries'[s] = retries[s]
        /\ retry => retries'[runningScope] # 0
    BY <2>1, <2>2, <2>3 DEF IndInv, TypeOK
  <2>5. ~stopped => \A s \in still : \/ s \in debounceTimers
                                     \/ s \in Queued
                                     \/ retries'[s] # 0
    BY <2>1, <2>4 DEF IndInv, NoForgottenScope, RunInv, TypeOK
  <2>6. still \in SUBSET Scopes
    BY <2>1 DEF IndInv, TypeOK
  <2> HIDE DEF still
  <2> QED
    BY <2>2, <2>5, <2>6, ContinueKeeps
<1>6. CASE PublicationScheduled
  <2>1. ~stopped => \A s \in owed : \/ s \in debounceTimers
                                    \/ s \in Queued
                                    \/ retries'[s] # 0
    BY <1>6 DEF PublicationScheduled, IndInv, NoForgottenScope
  <2> QED
    BY <1>6, <2>1, ContinueKeeps DEF PublicationScheduled, IndInv, TypeOK, stopVars
<1>7. ASSUME NEW r \in BOOLEAN, DiscoverSucceeds(r)
      PROVE NoForgottenScope' /\ RunInv'
  <2>1. /\ EnqueueAll(known) /\ known \in SUBSET Scopes
        /\ UNCHANGED <<stopped, debounceTimers, retries>>
    BY <1>7 DEF DiscoverSucceeds, IndInv, TypeOK, stopVars
  <2>2. CASE UNCHANGED <<drainVars, owed>> /\ Queued \subseteq Queued'
    BY <2>1, <2>2 DEF IndInv, NoForgottenScope, RunInv, drainVars
  <2>3. ASSUME NEW t \in Scopes, Starts(t, owed), Queued \subseteq Queued' \cup {t}
        PROVE  NoForgottenScope' /\ RunInv'
    BY <2>1, <2>3 DEF IndInv, NoForgottenScope, RunInv, Starts
  <2> QED
    BY <2>1, <2>2, <2>3, EnqueueAllStep DEF IndInv
<1>8. CASE DrainSettles
  BY <1>8 DEF DrainSettles, IndInv, NoForgottenScope, RunInv, Queued, stopVars,
              queueVars, observers
<1>9. CASE Stop
  BY <1>9 DEF Stop, IndInv, NoForgottenScope, RunInv, drainVars
<1>10. ASSUME UNCHANGED <<stopped, debounceTimers, queueVars, retries, drainVars,
                          owed>>
       PROVE  NoForgottenScope' /\ RunInv'
  BY <1>10 DEF IndInv, NoForgottenScope, RunInv, Queued, queueVars, drainVars
<1>11. CASE StartupFires \/ IntervalFires
            \/ DiscoveryFires
  BY <1>10, <1>11 DEF StartupFires, IntervalFires, DiscoveryFires,
                     DiscoveryRetryFires, OrphanFires, stopVars, observers
<1>12. CASE DiscoverFails \/ ReconciliationScheduled \/ StopResolves
  BY <1>10, <1>12 DEF DiscoverFails, ReconciliationScheduled, StopResolves,
                     stopVars, observers
<1>13. CASE UNCHANGED vars
  BY <1>10, <1>13 DEF vars, stopVars, observers
<1> QED
  BY <1>1, <1>2, <1>3, <1>4, <1>5, <1>6, <1>7, <1>8, <1>9, <1>11, <1>12, <1>13
  DEF Next, RunSettles, DiscoverSettles

\* Every step preserves StopInv: all that arms a timer or queues a scope is
\* guarded by ~stopped.
LEMMA StoppedStep == IndInv /\ [Next]_vars => StopInv'
<1> SUFFICES ASSUME IndInv, [Next]_vars PROVE StopInv'
  OBVIOUS
<1>1. ASSUME UNCHANGED <<stopped, debounceTimers, queueVars, retries>>,
             startupTimer' => startupTimer,
             stopped => discoveryHandle' \in {0, discoveryHandle}
      PROVE  StopInv'
  BY <1>1 DEF IndInv, StopInv, queueVars
<1>2. ASSUME ~stopped, UNCHANGED stopped PROVE StopInv'
  BY <1>2 DEF StopInv
<1>3. ASSUME stopped, NEW still, Continue(still) PROVE UNCHANGED queueVars
  BY <1>3 DEF Continue
<1>4. ASSUME NEW s \in Scopes, Schedule(s) \/ DebounceFires(s) \/ RetryFires(s)
      PROVE  StopInv'
  <2>1. ~stopped /\ UNCHANGED stopped
    BY <1>4 DEF Schedule, DebounceFires, RetryFires, IndInv, StopInv, stopVars
  <2> QED
    BY <2>1, <1>2
<1>5. ASSUME NEW mutated \in BOOLEAN, RunSucceeds(mutated) PROVE StopInv'
  <2>1. /\ UNCHANGED <<stopped, debounceTimers, startupTimer, discoveryHandle>>
        /\ retries' = [retries EXCEPT ![runningScope] = 0]
    BY <1>5 DEF RunSucceeds, ClearRetry, stopVars, catchUpVars, discoveryVars,
                discoveryTimers
  <2>2. stopped => UNCHANGED queueVars
    BY <1>3, <1>5 DEF RunSucceeds
  <2> QED
    BY <2>1, <2>2 DEF IndInv, StopInv, TypeOK, queueVars
<1>6. CASE RunFails
  <2>1. /\ UNCHANGED <<stopped, debounceTimers, startupTimer, discoveryHandle>>
        /\ stopped => retries' = [retries EXCEPT ![runningScope] = 0]
    BY <1>6 DEF RunFails, stopVars, catchUpVars, discoveryVars, discoveryTimers
  <2>2. stopped => UNCHANGED queueVars
    BY <1>3, <1>6 DEF RunFails
  <2> QED
    BY <2>1, <2>2 DEF IndInv, StopInv, TypeOK, queueVars
<1>7. CASE PublicationScheduled
  <2>1. UNCHANGED <<stopped, debounceTimers, retries, startupTimer, discoveryHandle>>
    BY <1>7 DEF PublicationScheduled, stopVars, catchUpVars, discoveryVars,
                discoveryTimers
  <2>2. stopped => UNCHANGED queueVars
    BY <1>3, <1>7 DEF PublicationScheduled
  <2> QED
    BY <2>1, <2>2 DEF IndInv, StopInv, queueVars
<1>8. ASSUME NEW r \in BOOLEAN, DiscoverSucceeds(r) PROVE StopInv'
  <2>1. /\ UNCHANGED <<stopped, debounceTimers, retries, startupTimer,
                       discoveryHandle>>
        /\ stopped => UNCHANGED queueVars
    BY <1>8 DEF DiscoverSucceeds, EnqueueAll, stopVars, discoveryTimers
  <2> QED
    BY <2>1 DEF IndInv, StopInv, queueVars
<1>9. CASE Stop
  BY <1>9 DEF Stop, StopInv
<1>10. CASE DiscoverFails
  <2>1. stopped => UNCHANGED discoveryTimers
    BY <1>10 DEF DiscoverFails
  <2> QED
    BY <1>1, <1>10, <2>1 DEF DiscoverFails, stopVars, discoveryTimers
<1>11. CASE StartupFires \/ IntervalFires \/ DiscoveryFires
  BY <1>1, <1>11 DEF StartupFires, IntervalFires, DiscoveryFires,
     DiscoveryRetryFires, OrphanFires, stopVars, discoveryVars, discoveryTimers
<1>12. CASE DrainSettles \/ ReconciliationScheduled \/ StopResolves \/ UNCHANGED vars
  <2>1. UNCHANGED <<stopped, debounceTimers, queueVars, retries, startupTimer,
                    discoveryHandle>>
    BY <1>12 DEF DrainSettles, ReconciliationScheduled, StopResolves, vars,
       stopVars, catchUpVars, discoveryVars, discoveryTimers
  <2> QED
    BY <1>1, <2>1
<1> QED
  BY <1>4, <1>5, <1>6, <1>7, <1>8, <1>9, <1>10, <1>11, <1>12
  DEF Next, RunSettles, DiscoverSettles

\* The inductive invariant.
LEMMA Inductive == Spec => []IndInv
<1>1. Init => IndInv
  BY TypeInit, ConstAssumption DEF IndInv, Init, NoForgottenScope, RunInv, StopInv
<1>2. IndInv /\ [Next]_vars => IndInv'
  BY TypeStep, ForgottenStep, StoppedStep DEF IndInv
<1> QED
  BY <1>1, <1>2, PTL DEF Spec

\* The scheduler's state is always well typed: in particular no retry ever
\* carries an attempt number beyond maxRetries (scheduleRetry).
THEOREM TypeCorrect == Spec => []TypeOK
  BY Inductive, PTL DEF IndInv

\* Until stop(), every stored scope that no run has covered is waiting on a
\* debounce timer, in the queue or on a retry timer.
THEOREM NothingForgotten == Spec => []NoForgottenScope
  BY Inductive, PTL DEF IndInv

-----------------------------------------------------------------------------
(* stop() leaves nothing behind, and a failed discovery is not hidden.     *)

\* stop() resolves between two drain loops, and no loop starts after it.
ResolvedInv ==
  /\ shutdown # "no" => stopped
  /\ shutdown = "resolved" => drainPc = "idle"

\* A stopped scheduler leaves its idle drain loop alone.
LEMMA ResolvedStep == IndInv /\ ResolvedInv /\ [Next]_vars => ResolvedInv'
<1> SUFFICES ASSUME IndInv, ResolvedInv, [Next]_vars PROVE ResolvedInv'
  OBVIOUS
<1>1. ASSUME UNCHANGED stopVars, drainPc' = drainPc PROVE ResolvedInv'
  BY <1>1 DEF ResolvedInv, stopVars
<1>2. ASSUME UNCHANGED stopVars, ~stopped PROVE ResolvedInv'
  BY <1>2 DEF ResolvedInv, stopVars
<1>3. ASSUME UNCHANGED stopVars, drainPc # "idle" PROVE ResolvedInv'
  BY <1>3 DEF ResolvedInv, stopVars
<1>4. ASSUME NEW s \in Scopes, Schedule(s) \/ DebounceFires(s) \/ RetryFires(s)
      PROVE  ResolvedInv'
  BY <1>2, <1>4 DEF Schedule, DebounceFires, RetryFires, IndInv, StopInv
<1>5. CASE RunSettles \/ PublicationScheduled
  BY <1>3, <1>5 DEF RunSettles, RunFails, RunSucceeds, PublicationScheduled
<1>6. CASE DrainSettles
  BY <1>6 DEF DrainSettles, ResolvedInv, stopVars
<1>7. ASSUME NEW r \in BOOLEAN, DiscoverSucceeds(r) PROVE ResolvedInv'
  BY <1>1, <1>2, <1>7 DEF DiscoverSucceeds, EnqueueAll, drainVars
<1>8. CASE \/ StartupFires \/ IntervalFires
           \/ DiscoveryFires
           \/ DiscoverFails \/ ReconciliationScheduled \/ UNCHANGED vars
  BY <1>1, <1>8 DEF StartupFires, IntervalFires, DiscoveryFires,
     DiscoveryRetryFires, OrphanFires, DiscoverFails, ReconciliationScheduled, vars, drainVars
<1>9. CASE Stop
  BY <1>9 DEF Stop, ResolvedInv
<1>10. CASE StopResolves
  BY <1>10 DEF StopResolves, ResolvedInv, drainVars
<1> QED
  BY <1>4, <1>5, <1>6, <1>7, <1>8, <1>9, <1>10 DEF Next, DiscoverSettles

\* Once the promise of stop() resolves no run is in progress and none begins:
\* nothing is queued, no timer that queues is armed, and neither an orphaned
\* discovery timer nor a late answer to a catch-up starts anything (stop).
THEOREM StopsClean == Spec => []StopQuiesces
<1>1. Init => ResolvedInv
  BY DEF Init, ResolvedInv
<1>2. IndInv /\ ResolvedInv => StopQuiesces
  BY DEF IndInv, ResolvedInv, RunInv, StopInv, StopQuiesces
<1> QED
  BY <1>1, <1>2, Inductive, ResolvedStep, PTL DEF Spec

\* A failed discovery is being retried, about to be, or reported, whatever
\* catch-ups, retries and overwritten timer handles do in between (catchUp).
THEOREM DiscoveryTracked == Spec => []DiscoveryFailureTracked
<1> DEFINE Inv == DiscoveryFailureTracked
<1>1. Init => Inv
  BY DEF Init, DiscoveryFailureTracked
<1>2. IndInv /\ Inv /\ [Next]_vars => Inv'
  <2> SUFFICES ASSUME IndInv, Inv, [Next]_vars PROVE Inv'
    OBVIOUS
  <2>1. ASSUME UNCHANGED <<stopVars, catchUpVars>> PROVE Inv'
    BY <2>1 DEF DiscoveryFailureTracked, DiscoveryRetryArmed, stopVars,
                catchUpVars, discoveryVars, discoveryTimers
  <2>2. CASE \/ \E s \in Scopes : Schedule(s) \/ DebounceFires(s) \/ RetryFires(s)
             \/ RunSettles \/ PublicationScheduled \/ DrainSettles
             \/ UNCHANGED vars
    BY <2>1, <2>2 DEF Schedule, DebounceFires, RetryFires, RunSettles, RunFails,
       RunSucceeds, PublicationScheduled, DrainSettles, vars
  <2>3. CASE StartupFires \/ IntervalFires \/ DiscoveryFires
    <3>1. UNCHANGED stopped /\ \E attempt : CatchUp(attempt)
      BY <2>3 DEF StartupFires, IntervalFires, DiscoveryFires,
         DiscoveryRetryFires, OrphanFires, stopVars
    <3>2. stopped \/ catchUpPc' # "idle"
      BY <3>1 DEF CatchUp
    <3> QED
      BY <3>1, <3>2 DEF DiscoveryFailureTracked
  <2>4. ASSUME NEW r \in BOOLEAN, DiscoverSucceeds(r) PROVE Inv'
    BY <2>4 DEF DiscoverSucceeds, CatchUpDone, DiscoveryFailureTracked
  <2>5. CASE ReconciliationScheduled
    BY <2>5 DEF ReconciliationScheduled, CatchUpDone, DiscoveryFailureTracked
  <2>6. CASE DiscoverFails
    <3>1. catchUpAttempt \in 0..MaxRetries
      BY DEF IndInv, TypeOK, Attempts
    <3>2. CASE ~stopped /\ catchUpAttempt < MaxRetries
      <4>1. discoveryHandle' # 0
        BY <2>6, <3>1, <3>2 DEF DiscoverFails, ArmsDiscoveryRetry
      <4> QED
        BY <4>1 DEF DiscoveryFailureTracked, DiscoveryRetryArmed
    <3>3. CASE ~stopped /\ ~(catchUpAttempt < MaxRetries)
      <4>1. DiscoveryGivesUp
        BY <3>1, <3>3, ConstAssumption DEF DiscoveryGivesUp
      <4>2. discoveryExhausted'
        BY <2>6, <3>3, <4>1 DEF DiscoverFails
      <4> QED
        BY <4>2 DEF DiscoveryFailureTracked
    <3>4. CASE stopped
      BY <2>6, <3>4 DEF DiscoverFails, DiscoveryFailureTracked, stopVars
    <3> QED
      BY <3>2, <3>3, <3>4
  <2>7. CASE Stop
    BY <2>7 DEF Stop, DiscoveryFailureTracked
  <2>8. CASE StopResolves
    BY <2>8 DEF StopResolves, DiscoveryFailureTracked, DiscoveryRetryArmed,
                catchUpVars, discoveryVars, discoveryTimers
  <2> QED
    BY <2>2, <2>3, <2>4, <2>5, <2>6, <2>7, <2>8 DEF Next, DiscoverSettles
<1> QED
  BY <1>1, <1>2, Inductive, PTL DEF Spec

-----------------------------------------------------------------------------
(* A scope is given up on only after MaxRetries + 1 failures.              *)

\* No attempt number is ahead of the failures it stands for: that of a queued
\* scope, of a retry timer, and of the run in progress.
AttemptInv ==
  /\ \A s \in Scopes : /\ queuedAttempt[s] <= failures[s]
                       /\ s \in Queued \/ queuedAttempt[s] = 0
                       /\ retries[s] <= failures[s]
  /\ drainPc = "run" => runningAttempt <= failures[runningScope]

\* The part of it about the queue and the run.
QueueAttempts ==
  /\ \A s \in Scopes : /\ queuedAttempt[s] <= failures[s]
                       /\ s \in Queued \/ queuedAttempt[s] = 0
  /\ drainPc = "run" => runningAttempt <= failures[runningScope]

\* A loop iteration hands the attempt of the head of the queue to the run.
LEMMA RunNextAttempts ==
  ASSUME NEW q \in Seq(Scopes), q # <<>>, NEW att \in [Scopes -> Attempts],
         RunNext(q, att), failures' \in [Scopes -> 0..(MaxRetries + 1)],
         \A s \in Scopes : /\ att[s] <= failures'[s]
                           /\ s \in Range(q) \/ att[s] = 0
  PROVE  QueueAttempts'
<1>1. /\ drainPc' = "run" /\ runningScope' = Head(q) /\ Head(q) \in Scopes
      /\ Range(q) = Queued' \cup {Head(q)}
  BY RunNextStep
<1>2. /\ queuedAttempt' = [att EXCEPT ![Head(q)] = 0]
      /\ runningAttempt' = att[Head(q)]
  BY DEF RunNext, StartRun
<1>3. ASSUME NEW s \in Scopes
      PROVE  /\ queuedAttempt'[s] <= failures'[s]
             /\ s \in Queued' \/ queuedAttempt'[s] = 0
  <2>1. CASE s = Head(q)
    BY <1>1, <1>2, <2>1, ConstAssumption
  <2>2. CASE s # Head(q)
    BY <1>1, <1>2, <2>2
  <2> QED
    BY <2>1, <2>2
<1> QED
  BY <1>1, <1>2, <1>3 DEF QueueAttempts

\* enqueue() with an attempt that is not ahead keeps all of them so.
LEMMA EnqueueAttempts ==
  ASSUME IndInv, QueueAttempts, NEW s \in Scopes, NEW a \in Attempts,
         a <= failures[s], Enqueue(s, a), UNCHANGED failures
  PROVE  QueueAttempts'
<1>1. /\ Line(s) \in Seq(Scopes) /\ Line(s) # <<>>
      /\ Range(Line(s)) = Queued \cup {s}
      /\ Rank(s, a) \in [Scopes -> Attempts]
  BY LineRank DEF IndInv
<1>2. \A t \in Scopes : /\ Rank(s, a)[t] <= failures'[t]
                        /\ t \in Range(Line(s)) \/ Rank(s, a)[t] = 0
  BY <1>1 DEF Rank, IndInv, TypeOK, QueueAttempts
<1>3. CASE NotDraining
  <2>1. RunNext(Line(s), Rank(s, a))
    BY <1>3 DEF Enqueue
  <2>2. failures' \in [Scopes -> 0..(MaxRetries + 1)]
    BY DEF IndInv, TypeOK
  <2> QED
    BY <2>1, <2>2, <1>1, <1>2, RunNextAttempts
<1>4. CASE ~NotDraining
  <2>1. /\ queue' = Line(s) /\ queuedAttempt' = Rank(s, a)
        /\ UNCHANGED drainVars
    BY <1>4 DEF Enqueue
  <2> QED
    BY <2>1, <1>2 DEF QueueAttempts, Queued, drainVars
<1> QED
  BY <1>3, <1>4

\* The end of a run keeps them so for the failures counted by then.
LEMMA ContinueAttempts ==
  ASSUME IndInv, NEW still, Continue(still),
         failures' \in [Scopes -> 0..(MaxRetries + 1)],
         \A s \in Scopes : /\ queuedAttempt[s] <= failures'[s]
                           /\ s \in Queued \/ queuedAttempt[s] = 0
  PROVE  QueueAttempts'
<1>1. CASE ~stopped /\ queue # <<>>
  <2>1. RunNext(queue, queuedAttempt)
    BY <1>1 DEF Continue
  <2>2. queue \in Seq(Scopes) /\ queuedAttempt \in [Scopes -> Attempts]
    BY DEF IndInv, TypeOK
  <2> QED
    BY <2>1, <2>2, <1>1, RunNextAttempts DEF Queued
<1>2. CASE ~(~stopped /\ queue # <<>>)
  BY <1>2 DEF Continue, QueueAttempts, Queued, queueVars
<1> QED
  BY <1>1, <1>2

\* The enqueue loop of catchUp() queues first attempts.
LEMMA EnqueueAllAttempts ==
  ASSUME IndInv, QueueAttempts, NEW D \in SUBSET Scopes, EnqueueAll(D),
         UNCHANGED failures
  PROVE  QueueAttempts'
<1>1. CASE D = {} \/ stopped
  BY <1>1 DEF EnqueueAll, QueueAttempts, drainVars, queueVars, Queued
<1>2. CASE ~(D = {} \/ stopped)
  <2>1. EnqueueEach(D)
    BY <1>2 DEF EnqueueAll
  <2>2. PICK first \in D :
          LET q == Line(first)
              rank == [queuedAttempt EXCEPT ![first] = 0]
              left == IF NotDraining THEN Tail(q) ELSE q
              missing == (D \ {first}) \ Range(left)
          IN /\ \E rest \in Orderings(missing) : queue' = left \o rest
             /\ IF NotDraining
                THEN /\ StartRun(q, rank)
                     /\ queuedAttempt' =
                          [s \in Scopes |-> IF s \in D \/ s = Head(q)
                                            THEN 0 ELSE rank[s]]
                     /\ owed' = owed \ {Head(q)}
                ELSE /\ queuedAttempt' =
                          [s \in Scopes |-> IF s \in D THEN 0 ELSE rank[s]]
                     /\ UNCHANGED <<drainVars, owed>>
    BY <2>1 DEF EnqueueEach
  <2> DEFINE q == Line(first)
             rank == [queuedAttempt EXCEPT ![first] = 0]
             left == IF NotDraining THEN Tail(q) ELSE q
             missing == (D \ {first}) \ Range(left)
  <2>3. /\ queuedAttempt \in [Scopes -> Attempts]
        /\ failures \in [Scopes -> 0..(MaxRetries + 1)]
        /\ 0 \in Attempts
    BY ConstAssumption DEF IndInv, TypeOK, Attempts
  <2>4. /\ q \in Seq(Scopes) /\ q # <<>>
        /\ Range(q) = Queued \cup {first}
    BY <2>3, LineRank DEF IndInv
  <2>5. /\ Head(q) \in Scopes /\ Tail(q) \in Seq(Scopes)
        /\ Range(q) = Range(Tail(q)) \cup {Head(q)}
    BY <2>4, RangeTail
  <2>6. /\ rank \in [Scopes -> Attempts]
        /\ \A s \in Scopes : rank[s] <= failures[s]
        /\ \A s \in Scopes \ D : rank[s] = queuedAttempt[s]
    BY <2>3 DEF QueueAttempts, Attempts
  <2>7. PICK rest \in Orderings(missing) : queue' = left \o rest
    BY <2>2
  <2>8. Range(left) \subseteq Queued'
    <3>1. left \in Seq(Scopes)
      BY <2>4, <2>5
    <3>2. rest \in Seq(Scopes)
      <4>1. missing \in SUBSET Scopes OBVIOUS
      <4> HIDE DEF missing
      <4> QED BY <2>7, <4>1, OrderingIsSeq
    <3> QED
      BY <3>1, <3>2, <2>7, RangeConcat DEF Queued
  <2>9. CASE NotDraining
    <3>1. /\ runningScope' = Head(q) /\ runningAttempt' = rank[Head(q)]
          /\ queuedAttempt' = [s \in Scopes |-> IF s \in D \/ s = Head(q)
                                                THEN 0 ELSE rank[s]]
      BY <2>2, <2>9 DEF StartRun
    <3>2. left = Tail(q)
      BY <2>9
    <3> HIDE DEF q, rank, left
    <3>3. ASSUME NEW s \in Scopes
          PROVE  /\ queuedAttempt'[s] <= failures'[s]
                 /\ s \in Queued' \/ queuedAttempt'[s] = 0
      <4>1. CASE s \in D \/ s = Head(q)
        BY <4>1, <3>1, <2>3, ConstAssumption
      <4>2. CASE ~(s \in D \/ s = Head(q))
        <5>1. queuedAttempt'[s] = queuedAttempt[s]
          BY <4>2, <3>1, <2>6
        <5>2. s \in Queued => s \in Queued'
          BY <4>2, <3>2, <2>4, <2>5, <2>8
        <5> QED
          BY <5>1, <5>2 DEF QueueAttempts
      <4> QED
        BY <4>1, <4>2
    <3> QED
      BY <3>1, <3>3, <2>5, <2>6 DEF QueueAttempts
  <2>10. CASE ~NotDraining
    <3>1. /\ queuedAttempt' = [s \in Scopes |-> IF s \in D THEN 0 ELSE rank[s]]
          /\ UNCHANGED drainVars
      BY <2>2, <2>10
    <3>2. left = q
      BY <2>10
    <3> HIDE DEF q, rank, left
    <3>3. ASSUME NEW s \in Scopes
          PROVE  /\ queuedAttempt'[s] <= failures'[s]
                 /\ s \in Queued' \/ queuedAttempt'[s] = 0
      <4>1. CASE s \in D
        BY <4>1, <3>1, <2>3, ConstAssumption
      <4>2. CASE s \notin D
        <5>1. queuedAttempt'[s] = queuedAttempt[s]
          BY <4>2, <3>1, <2>6
        <5>2. s \in Queued => s \in Queued'
          BY <3>2, <2>4, <2>8
        <5> QED
          BY <5>1, <5>2 DEF QueueAttempts
      <4> QED
        BY <4>1, <4>2
    <3> QED
      BY <3>1, <3>3 DEF QueueAttempts, drainVars
  <2> QED
    BY <2>9, <2>10
<1> QED
  BY <1>1, <1>2

\* A failed run adds a failure to the one its attempt stands for, and what is
\* given up has had them all.
LEMMA FailureCounted ==
  ASSUME IndInv, AttemptInv, RunFails
  PROVE  /\ AttemptInv'
         /\ \A s \in abandoned' \ abandoned : failures'[s] = MaxRetries + 1
<1> DEFINE s == runningScope
           attempt == runningAttempt + 1
<1>1. /\ drainPc = "run" /\ s \in Scopes
      /\ runningAttempt \in 0..MaxRetries
      /\ failures \in [Scopes -> 0..(MaxRetries + 1)]
      /\ retries \in [Scopes -> 0..MaxRetries]
      /\ runningAttempt <= failures[s]
  BY DEF RunFails, IndInv, TypeOK, RunInv, AttemptInv, Attempts
<1>2. failures' = [failures EXCEPT ![s] = IF @ > MaxRetries THEN @ ELSE @ + 1]
  BY DEF RunFails
<1>3. /\ failures' \in [Scopes -> 0..(MaxRetries + 1)]
      /\ \A t \in Scopes : failures[t] <= failures'[t]
      /\ attempt <= failures'[s]
  BY <1>1, <1>2, ConstAssumption
<1>4. \A t \in Scopes : retries'[t] <= failures'[t]
  <2>1. PICK n \in {0, attempt} : retries' = [retries EXCEPT ![s] = n]
    BY DEF RunFails
  <2> QED
    BY <2>1, <1>1, <1>3, ConstAssumption DEF AttemptInv
<1>5. QueueAttempts'
  <2>1. PICK still \in {owed, owed \cup {s}} : Continue(still)
    BY DEF RunFails
  <2>2. \A t \in Scopes : /\ queuedAttempt[t] <= failures'[t]
                          /\ t \in Queued \/ queuedAttempt[t] = 0
    BY <1>1, <1>3, ConstAssumption DEF AttemptInv, IndInv, TypeOK, Attempts
  <2> QED
    BY <2>1, <2>2, <1>3, ContinueAttempts
<1>6. \A t \in abandoned' \ abandoned : failures'[t] = MaxRetries + 1
  <2>1. ASSUME NEW t \in abandoned' \ abandoned
        PROVE  t = s /\ ~(attempt <= MaxRetries)
    BY <2>1 DEF RunFails, RetriesLeft
  <2> QED
    BY <2>1, <1>1, <1>3, ConstAssumption
<1> QED
  BY <1>4, <1>5, <1>6 DEF AttemptInv, QueueAttempts

\* Every step keeps the attempts behind the failures.
LEMMA AttemptStep == IndInv /\ AttemptInv /\ [Next]_vars => AttemptInv'
<1> SUFFICES ASSUME IndInv, AttemptInv, [Next]_vars PROVE AttemptInv'
  OBVIOUS
<1>1. /\ QueueAttempts
      /\ failures \in [Scopes -> 0..(MaxRetries + 1)]
      /\ retries \in [Scopes -> 0..MaxRetries]
      /\ 0 \in Attempts
  BY ConstAssumption DEF AttemptInv, QueueAttempts, IndInv, TypeOK, Attempts
<1>2. ASSUME UNCHANGED <<queueVars, retries, runningScope, runningAttempt, failures>>,
             drainPc' = "run" => drainPc = "run"
      PROVE  AttemptInv'
  BY <1>2 DEF AttemptInv, Queued, queueVars
<1>3. ASSUME QueueAttempts', UNCHANGED <<retries, failures>> PROVE AttemptInv'
  BY <1>3 DEF AttemptInv, QueueAttempts
<1>4. ASSUME NEW s \in Scopes, Schedule(s) PROVE AttemptInv'
  BY <1>2, <1>4 DEF Schedule, drainVars
<1>5. ASSUME NEW s \in Scopes, DebounceFires(s) PROVE AttemptInv'
  BY <1>1, <1>3, <1>5, EnqueueAttempts DEF DebounceFires
<1>6. ASSUME NEW s \in Scopes, RetryFires(s) PROVE AttemptInv'
  <2>1. /\ retries[s] \in Attempts /\ retries[s] <= failures[s]
        /\ Enqueue(s, retries[s]) /\ UNCHANGED failures
        /\ retries' = [retries EXCEPT ![s] = 0]
    BY <1>1, <1>6 DEF RetryFires, AttemptInv, Attempts
  <2>2. QueueAttempts'
    BY <2>1, <1>1, EnqueueAttempts
  <2> QED
    BY <2>1, <2>2, <1>1 DEF AttemptInv, QueueAttempts
<1>7. ASSUME NEW mutated \in BOOLEAN, RunSucceeds(mutated) PROVE AttemptInv'
  <2>1. /\ runningScope \in Scopes
        /\ retries' = [retries EXCEPT ![runningScope] = 0]
        /\ failures' = [failures EXCEPT ![runningScope] =
                          IF runningScope \in Queued THEN @ ELSE 0]
    BY <1>7 DEF RunSucceeds, ClearRetry, IndInv, TypeOK, RunInv
  <2>2. failures' \in [Scopes -> 0..(MaxRetries + 1)]
    BY <2>1, <1>1, ConstAssumption
  <2>3. \A t \in Scopes : retries'[t] <= failures'[t]
    BY <2>1, <2>2, <1>1 DEF AttemptInv
  <2>4. \A t \in Scopes : /\ queuedAttempt[t] <= failures'[t]
                          /\ t \in Queued \/ queuedAttempt[t] = 0
    BY <2>1, <2>2, <1>1 DEF AttemptInv
  <2>5. QueueAttempts'
    <3>1. CASE mutated
      BY <1>7, <2>4, <3>1 DEF RunSucceeds, QueueAttempts, Queued, queueVars
    <3>2. CASE ~mutated
      BY <1>7, <2>2, <2>4, <3>2, ContinueAttempts DEF RunSucceeds
    <3> QED
      BY <3>1, <3>2
  <2> QED
    BY <2>3, <2>5 DEF AttemptInv, QueueAttempts
<1>8. CASE PublicationScheduled
  BY <1>1, <1>3, <1>8, ContinueAttempts DEF PublicationScheduled, AttemptInv
<1>9. CASE RunFails
  BY <1>9, FailureCounted
<1>10. ASSUME NEW r \in BOOLEAN, DiscoverSucceeds(r) PROVE AttemptInv'
  <2>1. known \in SUBSET Scopes
    BY DEF IndInv, TypeOK
  <2> QED
    BY <2>1, <1>1, <1>3, <1>10, EnqueueAllAttempts DEF DiscoverSucceeds
<1>11. CASE Stop
  BY <1>1, <1>11 DEF Stop, AttemptInv, drainVars, observers
<1>12. CASE \/ DrainSettles \/ StartupFires \/ IntervalFires
            \/ DiscoveryFires
            \/ DiscoverFails \/ ReconciliationScheduled \/ StopResolves
            \/ UNCHANGED vars
  BY <1>2, <1>12 DEF DrainSettles, StartupFires, IntervalFires,
     DiscoveryFires, DiscoveryRetryFires, OrphanFires, DiscoverFails, ReconciliationScheduled, StopResolves,
     vars, drainVars, observers
<1> QED
  BY <1>4, <1>5, <1>6, <1>7, <1>8, <1>9, <1>10, <1>11, <1>12
  DEF Next, RunSettles, DiscoverSettles

\* A scope is given up on only when all its attempts have failed, however its
\* stores, retries and catch-ups interleave (scheduleRetry, enqueue).
THEOREM EarnedGiveUp == Spec => GiveUpEarned
<1>1. Init => AttemptInv
  BY ConstAssumption DEF Init, AttemptInv
<1>2. IndInv /\ AttemptInv /\ [Next]_vars =>
        [\A s \in abandoned' \ abandoned : failures'[s] = MaxRetries + 1]_vars
  <2> SUFFICES ASSUME IndInv, AttemptInv, Next
               PROVE  \A s \in abandoned' \ abandoned : failures'[s] = MaxRetries + 1
    OBVIOUS
  <2>1. CASE RunFails
    BY <2>1, FailureCounted
  <2>2. CASE ~RunFails
    <3>1. abandoned' \subseteq abandoned
      BY <2>2 DEF Next, RunSettles, DiscoverSettles, Schedule, DebounceFires,
         RetryFires, RunSucceeds, PublicationScheduled, DrainSettles,
         StartupFires, IntervalFires, DiscoveryFires, DiscoveryRetryFires,
         OrphanFires, DiscoverSucceeds,
         DiscoverFails, ReconciliationScheduled, Stop, StopResolves, observers
    <3> QED
      BY <3>1
  <2> QED
    BY <2>1, <2>2
<1> QED
  BY <1>1, <1>2, Inductive, AttemptStep, PTL DEF Spec, GiveUpEarned

-----------------------------------------------------------------------------
(* The scheduler implements the safety part of ScopeWork.                  *)

\* Each step of the scheduler is a step of ScopeWork or leaves its state alone:
\* no run starts after stop(), and stored work is withdrawn only by a run of
\* that scope.
THEOREM ImplementsWorkSafety == Spec => Work!Safety
<1> USE ConstAssumption
<1>1. Init => Work!Init
  BY DEF Init, Work!Init
<1>2. IndInv /\ [Next]_vars => [Work!Next]_(Work!vars)
  <2> SUFFICES ASSUME IndInv, [Next]_vars PROVE [Work!Next]_(Work!vars)
    OBVIOUS
  <2>1. ASSUME UNCHANGED <<stopped, drainVars, owed>> PROVE UNCHANGED Work!vars
    BY <2>1 DEF Work!vars, drainVars
  <2>2. ASSUME NEW t \in Scopes, ~stopped, Starts(t, owed), UNCHANGED stopped
        PROVE  Work!Next
    BY <2>2 DEF Work!Next, Work!Begin, Starts
  <2>3. ASSUME NEW s \in Scopes, NEW a \in Attempts, Enqueue(s, a),
               ~stopped, UNCHANGED stopped
        PROVE  [Work!Next]_(Work!vars)
    BY <2>1, <2>2, <2>3, EnqueueStep DEF IndInv
  <2>4. ASSUME NEW still \in {owed, owed \cup {runningScope}}, Continue(still),
               runningScope \in Scopes, UNCHANGED stopped
        PROVE  Work!Next
    <3>1. still \in SUBSET Scopes
      BY <2>4 DEF IndInv, TypeOK
    <3>2. ASSUME NEW t \in Scopes, ~stopped, Starts(t, still) PROVE Work!Next
      BY <2>4, <3>2 DEF Work!Next, Work!Begin, Starts
    <3>3. ASSUME runningScope' = None, owed' = still PROVE Work!Next
      BY <2>4, <3>3 DEF Work!Next, Work!End
    <3> QED
      BY <2>4, <3>1, <3>2, <3>3, ContinueStep DEF IndInv
  <2>5. ASSUME NEW s \in Scopes, Schedule(s) PROVE Work!Next
    BY <2>5 DEF Schedule, Work!Next, Work!Request, stopVars, drainVars
  <2>6. ASSUME NEW s \in Scopes, DebounceFires(s)
        PROVE  [Work!Next]_(Work!vars)
    <3>1. 0 \in Attempts
      BY DEF Attempts
    <3>2. ~stopped
      BY <2>6 DEF DebounceFires, IndInv, StopInv
    <3> QED
      BY <2>6, <3>1, <3>2, <2>3 DEF DebounceFires, stopVars
  <2>7. ASSUME NEW s \in Scopes, RetryFires(s) PROVE [Work!Next]_(Work!vars)
    <3>1. retries[s] \in Attempts
      BY DEF IndInv, TypeOK
    <3>2. ~stopped
      BY <2>7 DEF RetryFires, IndInv, StopInv
    <3> QED
      BY <2>7, <3>1, <3>2, <2>3 DEF RetryFires, stopVars
  <2>8. ASSUME NEW mutated \in BOOLEAN, RunSucceeds(mutated)
        PROVE  [Work!Next]_(Work!vars)
    <3>1. runningScope \in Scopes /\ UNCHANGED stopped
      BY <2>8 DEF RunSucceeds, IndInv, RunInv, TypeOK, stopVars
    <3>2. CASE mutated
      BY <2>8, <3>1, <3>2 DEF RunSucceeds, Work!vars
    <3>3. CASE ~mutated
      BY <2>8, <3>1, <3>3, <2>4 DEF RunSucceeds
    <3> QED
      BY <3>2, <3>3
  <2>9. CASE RunFails
    <3>1. runningScope \in Scopes /\ UNCHANGED stopped
      BY <2>9 DEF RunFails, IndInv, RunInv, TypeOK, stopVars
    <3>2. PICK still \in {owed, owed \cup {runningScope}} : Continue(still)
      BY <2>9 DEF RunFails
    <3> QED
      BY <3>1, <3>2, <2>4
  <2>10. CASE PublicationScheduled
    <3>1. runningScope \in Scopes /\ UNCHANGED stopped
      BY <2>10 DEF PublicationScheduled, IndInv, RunInv, TypeOK, stopVars
    <3> QED
      BY <2>10, <3>1, <2>4 DEF PublicationScheduled
  <2>11. CASE DrainSettles
    BY <2>11 DEF DrainSettles, Work!vars, stopVars, observers
  <2>12. CASE StartupFires \/ IntervalFires
              \/ DiscoveryFires
    BY <2>1, <2>12 DEF StartupFires, IntervalFires, DiscoveryFires,
                       DiscoveryRetryFires, OrphanFires, stopVars, observers
  <2>13. ASSUME NEW r \in BOOLEAN, DiscoverSucceeds(r)
         PROVE  [Work!Next]_(Work!vars)
    <3>1. EnqueueAll(known) /\ known \in SUBSET Scopes /\ UNCHANGED stopped
      BY <2>13 DEF DiscoverSucceeds, IndInv, TypeOK, stopVars
    <3> QED
      BY <3>1, <2>1, <2>2, EnqueueAllStep DEF IndInv
  <2>14. CASE DiscoverFails \/ ReconciliationScheduled \/ StopResolves
    BY <2>1, <2>14 DEF DiscoverFails, ReconciliationScheduled, StopResolves,
                       stopVars, observers
  <2>15. CASE Stop
    BY <2>15 DEF Stop, Work!Next, Work!Halt, drainVars, observers
  <2>16. CASE UNCHANGED vars
    BY <2>1, <2>16 DEF vars, stopVars, observers
  <2> QED
    BY <2>5, <2>6, <2>7, <2>8, <2>9, <2>10, <2>11, <2>12, <2>13, <2>14, <2>15,
       <2>16
    DEF Next, RunSettles, DiscoverSettles
<1> QED
  BY <1>1, <1>2, Inductive, PTL DEF Spec, Work!Safety
=============================================================================
