---------------------- MODULE ConsolidationCoordinator ----------------------
(***************************************************************************)
(* The scheduling half of the MCP process's ConsolidationCoordinator       *)
(* (packages/mcp/src/consolidation-coordinator.ts): stores debounce their  *)
(* scope, a single drain loop runs the core engine on one scope at a time, *)
(* failed runs are retried with a bounded attempt number, a periodic       *)
(* catch-up rediscovers every concrete scope, and stop() cancels it all.   *)
(*                                                                         *)
(* One action is one turn of the JavaScript event loop: everything a       *)
(* handler does up to its next await.  Timers and the interval are         *)
(* macrotasks; they cannot run between drain() resolving and the           *)
(* .finally() that clears drainPromise (drainPc = "close"), whereas the    *)
(* continuation of catchUp() is a microtask and can.                       *)
(*                                                                         *)
(* The publication half of the class is module WikiPublication: here       *)
(* `await schedulePublication()` is an await that always returns.          *)
(***************************************************************************)
EXTENDS Naturals, Sequences, FiniteSets, Functions

CONSTANTS Scopes,      \* concrete (canonical, non-global) scopes
          None,        \* "no scope is running" (runningScope = null)
          MaxRetries,  \* config.maxRetries
          MaxStores,   \* bound: stores that call schedule()
          MaxOrphans   \* bound: discovery timers of one attempt that are
                       \* armed without a handle

ASSUME ConstAssumption ==
  /\ IsFiniteSet(Scopes)
  /\ None \notin Scopes
  /\ MaxRetries \in Nat
  /\ MaxStores \in Nat
  /\ MaxOrphans \in Nat

VARIABLES
  stopped,               \* this.stopped
  shutdown,              \* progress of the promise stop() returns
  debounceTimers,        \* scopes with an armed debounce timer
  queue,                 \* keys of this.queue, in insertion order
  queuedAttempt,         \* values of this.queue (0 for a scope not in it)
  retries,               \* attempt an armed retry timer will make, 0 if none
  drainPc,               \* where the drain loop is; "idle" iff drainPromise = null
  runningScope,          \* this.runningScope
  runningAttempt,        \* `attempt` of the loop iteration in progress
  exhaustedFailure,      \* this.exhaustedFailure
  startupTimer,          \* the startup timer is armed
  catchUpPc,             \* where catchUp() is; "idle" iff ~discovering
  catchUpAttempt,        \* its argument
  discoveryHandle,       \* attempt of the timer in discoveryRetryTimer, 0 if none
  discoveryOrphans,      \* discoveryOrphans[a]: armed discovery timers of
                         \* attempt a whose handle was overwritten
  discoveryLastError,    \* this.discoveryLastError # null
  discoveryExhausted,    \* this.discoveryExhausted
  known                  \* scopes with an Episodic node in the graph

\* Observers: they record history, no action depends on them.
VARIABLES
  stores,                \* number of schedule() calls so far
  owed,                  \* stored scopes that no run has covered yet
  failures,              \* failed runs of a scope since it last succeeded
                         \* with no further run of it queued
  abandoned              \* scopes given up on and not successful since

queueVars == <<queue, queuedAttempt>>
drainVars == <<drainPc, runningScope, runningAttempt>>
discoveryTimers == <<discoveryHandle, discoveryOrphans>>
discoveryVars == <<discoveryTimers, discoveryLastError, discoveryExhausted>>
catchUpVars == <<startupTimer, catchUpPc, catchUpAttempt, discoveryVars>>
stopVars == <<stopped, shutdown>>
observers == <<stores, owed, failures, abandoned>>
vars == <<stopVars, debounceTimers, queueVars, retries, drainVars,
          exhaustedFailure, catchUpVars, known, observers>>

Attempts == 0..MaxRetries

TypeOK ==
  /\ stopped \in BOOLEAN
  /\ shutdown \in {"no", "waiting", "resolved"}
  /\ debounceTimers \subseteq Scopes
  /\ queue \in Seq(Scopes)
  /\ queuedAttempt \in [Scopes -> Attempts]
  /\ retries \in [Scopes -> Attempts]
  /\ drainPc \in {"idle", "run", "mark", "close"}
  /\ runningScope \in Scopes \cup {None}
  /\ runningAttempt \in Attempts
  /\ exhaustedFailure \in BOOLEAN
  /\ startupTimer \in BOOLEAN
  /\ catchUpPc \in {"idle", "discover", "mark"}
  /\ catchUpAttempt \in Attempts
  /\ discoveryHandle \in Attempts
  /\ discoveryOrphans \in [1..MaxRetries -> Nat]
  /\ discoveryLastError \in BOOLEAN
  /\ discoveryExhausted \in BOOLEAN
  /\ known \subseteq Scopes
  /\ stores \in 0..MaxStores
  /\ owed \subseteq Scopes
  /\ failures \in [Scopes -> 0..(MaxRetries + 1)]
  /\ abandoned \subseteq Scopes

\* The state just after start(), with automation enabled.
Init ==
  /\ stopped = FALSE /\ shutdown = "no"
  /\ debounceTimers = {}
  /\ queue = <<>> /\ queuedAttempt = [s \in Scopes |-> 0]
  /\ retries = [s \in Scopes |-> 0]
  /\ drainPc = "idle" /\ runningScope = None /\ runningAttempt = 0
  /\ exhaustedFailure = FALSE
  /\ startupTimer = TRUE
  /\ catchUpPc = "idle" /\ catchUpAttempt = 0
  /\ discoveryHandle = 0
  /\ discoveryOrphans = [a \in 1..MaxRetries |-> 0]
  /\ discoveryLastError = FALSE /\ discoveryExhausted = FALSE
  /\ known \in SUBSET Scopes
  /\ stores = 0 /\ owed = {} /\ abandoned = {}
  /\ failures = [s \in Scopes |-> 0]

-----------------------------------------------------------------------------
(* The queue and the drain loop.                                           *)

Queued == Range(queue)

\* Timers fire only once the microtask queue is empty.
MacrotaskTurn == drainPc # "close"

LineFirst(s) == IF s \in Queued THEN queue ELSE <<s>> \o queue  \* mutant
\* queue.set(scope, attempt): a new key goes last, a present one keeps its
\* place and the smaller attempt.
Line(s) == IF s \in Queued THEN queue ELSE Append(queue, s)
Rank(s, attempt) ==
  [queuedAttempt EXCEPT ![s] =
     IF s \in Queued /\ @ <= attempt THEN @ ELSE attempt]

\* One iteration of the loop up to `await this.run(scope)`, for queue q and
\* attempts att.  A run that starts now covers every earlier store.
StartRun(q, att) ==
  /\ drainPc' = "run"
  /\ runningScope' = Head(q)
  /\ runningAttempt' = att[Head(q)]

RunNext(q, att) ==
  /\ StartRun(q, att)
  /\ queue' = Tail(q)
  /\ queuedAttempt' = [att EXCEPT ![Head(q)] = 0]

NothingDraining == drainPc = "idle" /\ queue = <<>>  \* mutant
\* !this.drainPromise
NotDraining == drainPc = "idle"

\* enqueue(): start the drain loop if there is none.
Enqueue(s, attempt) ==
  IF NotDraining
  THEN /\ RunNext(Line(s), Rank(s, attempt))
       /\ owed' = owed \ {Head(Line(s))}
  ELSE /\ queue' = Line(s)
       /\ queuedAttempt' = Rank(s, attempt)
       /\ UNCHANGED <<drainVars, owed>>

\* The loop after an iteration: the next one, or drain() returns.  stillOwed
\* is what the finished run left owed.
Continue(stillOwed) ==
  IF ~stopped /\ queue # <<>>
  THEN /\ RunNext(queue, queuedAttempt)
       /\ owed' = stillOwed \ {Head(queue)}
  ELSE /\ drainPc' = "close" /\ runningScope' = None /\ runningAttempt' = 0
       /\ owed' = stillOwed
       /\ UNCHANGED queueVars

-----------------------------------------------------------------------------
(* Triggers: stores, debounce timers, retry timers.                        *)

\* A successful non-duplicate store: bootstrap's post-store hook.
Schedule(s) ==
  /\ ~stopped
  /\ stores < MaxStores
  /\ stores' = stores + 1
  /\ debounceTimers' = debounceTimers \cup {s}
  /\ known' = known \cup {s}
  /\ owed' = owed \cup {s}
  /\ UNCHANGED <<stopVars, queueVars, retries, drainVars, exhaustedFailure,
                 catchUpVars, failures, abandoned>>

DebounceFires(s) ==
  /\ MacrotaskTurn
  /\ s \in debounceTimers
  /\ debounceTimers' = debounceTimers \ {s}
  /\ Enqueue(s, 0)
  /\ UNCHANGED <<stopVars, retries, exhaustedFailure, catchUpVars, known,
                 stores, failures, abandoned>>

RetryFires(s) ==
  /\ MacrotaskTurn
  /\ retries[s] # 0
  /\ retries' = [retries EXCEPT ![s] = 0]
  /\ Enqueue(s, retries[s])
  /\ UNCHANGED <<stopVars, debounceTimers, exhaustedFailure, catchUpVars,
                 known, stores, failures, abandoned>>

-----------------------------------------------------------------------------
(* Outcomes of a run.                                                      *)

ClearEveryRetry(s) == retries' = [t \in Scopes |-> 0]  \* mutant
LeaveRetry(s) == UNCHANGED retries                     \* mutant
ClearRetry(s) == retries' = [retries EXCEPT ![s] = 0]

\* The run applied `mutated` graph changes (then the loop also awaits
\* schedulePublication) or none.
RunSucceeds(mutated) ==
  /\ drainPc = "run"
  /\ exhaustedFailure' = FALSE
  /\ ClearRetry(runningScope)
  /\ failures' = [failures EXCEPT ![runningScope] =
                    IF runningScope \in Queued THEN @ ELSE 0]
  /\ abandoned' = abandoned \ {runningScope}
  /\ IF mutated
     THEN /\ drainPc' = "mark"
          /\ UNCHANGED <<queueVars, runningScope, runningAttempt, owed>>
     ELSE Continue(owed)
  /\ UNCHANGED <<stopVars, debounceTimers, catchUpVars, known, stores>>

PublicationScheduled ==
  /\ drainPc = "mark"
  /\ Continue(owed)
  /\ UNCHANGED <<stopVars, debounceTimers, retries, exhaustedFailure,
                 catchUpVars, known, stores, failures, abandoned>>

RetriesLeftOffByOne(attempt) == attempt <= MaxRetries + 1  \* mutant
RetriesLeft(attempt) == attempt <= MaxRetries

\* The run threw, or was skipped because the distributed lock is held:
\* scheduleRetry(scope, attempt + 1).
RunFails ==
  LET s == runningScope
      attempt == runningAttempt + 1
      retry == ~stopped /\ RetriesLeft(attempt)
      giveUp == ~stopped /\ ~RetriesLeft(attempt)
  IN
  /\ drainPc = "run"
  /\ retries' = [retries EXCEPT ![s] = IF retry THEN attempt ELSE 0]
  /\ exhaustedFailure' = (exhaustedFailure \/ giveUp)
  /\ failures' = [failures EXCEPT ![s] = IF @ > MaxRetries THEN @ ELSE @ + 1]
  /\ abandoned' = IF giveUp THEN abandoned \cup {s} ELSE abandoned
  /\ Continue(IF retry THEN owed \cup {s} ELSE owed)
  /\ UNCHANGED <<stopVars, debounceTimers, catchUpVars, known, stores>>

\* .finally(() => { this.drainPromise = null; })
DrainSettles ==
  /\ drainPc = "close"
  /\ drainPc' = "idle"
  /\ UNCHANGED <<stopVars, debounceTimers, queueVars, retries, runningScope,
                 runningAttempt, exhaustedFailure, catchUpVars, known, observers>>

-----------------------------------------------------------------------------
(* Catch-up: startup, interval and discovery-retry timers.                 *)

\* catchUp(attempt) up to `await this.discoverScopes()`; a no-op when stopped
\* or already discovering.
CatchUp(attempt) ==
  IF stopped \/ catchUpPc # "idle"
  THEN UNCHANGED <<catchUpPc, catchUpAttempt>>
  ELSE catchUpPc' = "discover" /\ catchUpAttempt' = attempt

\* recoverPublicationIntent() never rejects, so catchUp() follows it.
StartupFires ==
  /\ MacrotaskTurn
  /\ startupTimer
  /\ startupTimer' = FALSE
  /\ CatchUp(0)
  /\ UNCHANGED <<stopVars, debounceTimers, queueVars, retries, drainVars,
                 exhaustedFailure, discoveryVars, known, observers>>

IntervalFires ==
  /\ MacrotaskTurn
  /\ ~stopped /\ catchUpPc = "idle"
  /\ CatchUp(0)
  /\ UNCHANGED <<stopVars, debounceTimers, queueVars, retries, drainVars,
                 exhaustedFailure, startupTimer, discoveryVars, known,
                 observers>>

DiscoveryRetryFires ==
  /\ MacrotaskTurn
  /\ discoveryHandle # 0
  /\ discoveryHandle' = 0
  /\ CatchUp(discoveryHandle)
  /\ UNCHANGED <<stopVars, debounceTimers, queueVars, retries, drainVars,
                 exhaustedFailure, startupTimer, discoveryOrphans,
                 discoveryLastError, discoveryExhausted, known, observers>>

\* The timer discoveryRetryTimer holds, if any, loses its handle.
Orphaned(orphans) ==
  [a \in 1..MaxRetries |->
     IF a = discoveryHandle THEN orphans[a] + 1 ELSE orphans[a]]

\* A timer whose handle was overwritten fires, also after stop(): it nulls the
\* handle of a newer timer, and catchUp() sees stopped and returns.
OrphanFires(a) ==
  /\ MacrotaskTurn
  /\ discoveryOrphans[a] > 0
  /\ discoveryOrphans' = Orphaned([discoveryOrphans EXCEPT ![a] = @ - 1])
  /\ discoveryHandle' = 0
  /\ CatchUp(a)
  /\ UNCHANGED <<stopVars, debounceTimers, queueVars, retries, drainVars,
                 exhaustedFailure, startupTimer, discoveryLastError,
                 discoveryExhausted, known, observers>>

Orderings(S) ==
  {q \in [1..Cardinality(S) -> S] : \A s \in S : \E i \in DOMAIN q : q[i] = s}

\* for (raw of scopes) this.enqueue(scope, 0): the first call may start the
\* drain loop and take the head of the queue, the others queue behind it.
EnqueueEach(D) ==
  \E first \in D :
    LET q == Line(first)
        rank == [queuedAttempt EXCEPT ![first] = 0]
        starts == NotDraining
        left == IF starts THEN Tail(q) ELSE q
        missing == (D \ {first}) \ Range(left)
    IN /\ \E rest \in Orderings(missing) : queue' = left \o rest
       /\ IF starts
          THEN /\ StartRun(q, rank)
               /\ queuedAttempt' =
                    [s \in Scopes |-> IF s \in D \/ s = Head(q)
                                      THEN 0 ELSE rank[s]]
               /\ owed' = owed \ {Head(q)}
          ELSE /\ queuedAttempt' =
                    [s \in Scopes |-> IF s \in D THEN 0 ELSE rank[s]]
               /\ UNCHANGED <<drainVars, owed>>

EnqueueAllEvenStopped(D) ==  \* mutant
  IF D = {} THEN UNCHANGED <<queueVars, drainVars, owed>> ELSE EnqueueEach(D)
\* Every enqueue() of a stopped coordinator returns at once.
EnqueueAll(D) ==
  IF D = {} \/ stopped THEN UNCHANGED <<queueVars, drainVars, owed>>
  ELSE EnqueueEach(D)

CatchUpDone ==
  /\ catchUpPc' = "idle" /\ catchUpAttempt' = 0
  /\ discoveryLastError' = FALSE /\ discoveryExhausted' = FALSE

\* discoverScopes() returned.  Then the wiki is reconciled when publication
\* looks idle (`reconcile`), which awaits schedulePublication().
DiscoverSucceeds(reconcile) ==
  /\ catchUpPc = "discover"
  /\ EnqueueAll(known)
  /\ IF reconcile
     THEN /\ catchUpPc' = "mark"
          /\ UNCHANGED <<catchUpAttempt, discoveryLastError, discoveryExhausted>>
     ELSE CatchUpDone
  /\ UNCHANGED <<stopVars, debounceTimers, retries, exhaustedFailure,
                 startupTimer, discoveryTimers, known, stores, failures,
                 abandoned>>

ReconciliationScheduled ==
  /\ catchUpPc = "mark"
  /\ CatchUpDone
  /\ UNCHANGED <<stopVars, debounceTimers, queueVars, retries, drainVars,
                 exhaustedFailure, startupTimer, discoveryTimers, known,
                 observers>>

DiscoveryGivesUpLate == catchUpAttempt > MaxRetries  \* mutant
DiscoveryGivesUp == catchUpAttempt >= MaxRetries

\* The retry is armed over whatever timer discoveryRetryTimer holds, which is
\* not cleared.
ArmsDiscoveryRetry ==
  /\ discoveryHandle # 0 => discoveryOrphans[discoveryHandle] < MaxOrphans
  /\ discoveryHandle' = catchUpAttempt + 1
  /\ discoveryOrphans' = Orphaned(discoveryOrphans)

\* discoverScopes() threw.
DiscoverFails ==
  /\ catchUpPc = "discover"
  /\ catchUpPc' = "idle" /\ catchUpAttempt' = 0
  /\ IF ~stopped /\ catchUpAttempt < MaxRetries
     THEN ArmsDiscoveryRetry
     ELSE UNCHANGED discoveryTimers
  /\ discoveryLastError' = TRUE
  /\ discoveryExhausted' =
       (discoveryExhausted \/ (~stopped /\ DiscoveryGivesUp))
  /\ UNCHANGED <<stopVars, debounceTimers, queueVars, retries, drainVars,
                 exhaustedFailure, startupTimer, known, observers>>

-----------------------------------------------------------------------------
(* Shutdown.                                                               *)

\* stop() up to `await this.drainPromise`.  Of the discovery timers only the one
\* with a handle is cleared.
Stop ==
  /\ ~stopped
  /\ stopped' = TRUE /\ shutdown' = "waiting"
  /\ debounceTimers' = {}
  /\ queue' = <<>> /\ queuedAttempt' = [s \in Scopes |-> 0]
  /\ retries' = [s \in Scopes |-> 0]
  /\ startupTimer' = FALSE
  /\ discoveryHandle' = 0
  /\ UNCHANGED <<drainVars, exhaustedFailure, catchUpPc, catchUpAttempt,
                 discoveryOrphans, discoveryLastError, discoveryExhausted,
                 known, observers>>

StopResolves ==
  /\ shutdown = "waiting"
  /\ drainPc = "idle"
  /\ shutdown' = "resolved"
  /\ UNCHANGED <<stopped, debounceTimers, queueVars, retries, drainVars,
                 exhaustedFailure, catchUpVars, known, observers>>

-----------------------------------------------------------------------------
RunSettles == RunFails \/ \E mutated \in BOOLEAN : RunSucceeds(mutated)
DiscoveryFires ==
  DiscoveryRetryFires \/ \E a \in 1..MaxRetries : OrphanFires(a)
DiscoverSettles == DiscoverFails \/ \E r \in BOOLEAN : DiscoverSucceeds(r)

Next ==
  \/ \E s \in Scopes : Schedule(s) \/ DebounceFires(s) \/ RetryFires(s)
  \/ RunSettles \/ PublicationScheduled \/ DrainSettles
  \/ StartupFires \/ IntervalFires
  \/ DiscoveryFires
  \/ DiscoverSettles \/ ReconciliationScheduled
  \/ Stop \/ StopResolves

Spec == Init /\ [][Next]_vars

(***************************************************************************)
(* The event loop runs every ready callback and armed timer.  Strong       *)
(* fairness where a turn can be postponed by the "close" microtask gap.    *)
(* Engine runs and discovery queries settle (their clients time out), and  *)
(* discovery does not fail forever.  Stores and stop() are the             *)
(* environment's: no fairness.                                             *)
(***************************************************************************)
Fairness ==
  /\ \A s \in Scopes : SF_vars(DebounceFires(s)) /\ SF_vars(RetryFires(s))
  /\ WF_vars(RunSettles) /\ WF_vars(PublicationScheduled)
  /\ WF_vars(DrainSettles)
  /\ SF_vars(StartupFires) /\ SF_vars(IntervalFires)
  /\ WF_vars(DiscoverSettles) /\ WF_vars(ReconciliationScheduled)
  /\ SF_vars(\E r \in BOOLEAN : DiscoverSucceeds(r))
  /\ WF_vars(StopResolves)

FairSpec == Spec /\ Fairness

-----------------------------------------------------------------------------
(* Properties.                                                             *)

\* Until shutdown, a stored scope that no run has covered is always waiting
\* somewhere: on its debounce timer, in the queue or on a retry timer.  No
\* success, failure, retry or catch-up of the same or of another scope may
\* drop it (schedule, enqueue, drain, scheduleRetry, clearRetry).
NoForgottenScope ==
  ~stopped => \A s \in owed : \/ s \in debounceTimers
                              \/ s \in Queued
                              \/ retries[s] # 0

\* What makes NoForgottenScope inductive: a store that arrives during a run of
\* its scope waits on a timer or in the queue, not on a retry the end of that
\* run clears.
RunInv ==
  /\ runningScope = None <=> drainPc \in {"idle", "close"}
  /\ ~stopped /\ runningScope \in owed =>
       runningScope \in debounceTimers \cup Queued

\* A scope is given up on only after MaxRetries + 1 failed runs since it last
\* succeeded with no further run of it queued, however its debounce, retry and
\* catch-up triggers interleave (the minimum in enqueue, clearRetry on
\* success).  Not "since it last succeeded": a retry that was already queued
\* when the success came keeps its attempt number.
GiveUpEarned ==
  [][\A s \in abandoned' \ abandoned : failures'[s] = MaxRetries + 1]_vars

\* Once the promise of stop() resolves, and ever after, no run is in progress,
\* nothing is queued and no debounce, retry or startup timer is armed (stop
\* awaits drainPromise).  What stop() neither clears nor awaits may still come:
\* an orphaned discovery timer, and the answer to a catch-up's query.  Neither
\* starts or queues a run.
StopQuiesces ==
  shutdown = "resolved" =>
    /\ drainPc = "idle" /\ runningScope = None /\ queue = <<>>
    /\ debounceTimers = {} /\ \A s \in Scopes : retries[s] = 0
    /\ ~startupTimer /\ discoveryHandle = 0

DiscoveryRetryArmed ==
  discoveryHandle # 0 \/ \E a \in 1..MaxRetries : discoveryOrphans[a] > 0

\* Until shutdown, a failed scope discovery is either being retried, or about
\* to be, or reported as exhausted, whichever of the startup, interval and
\* retry catch-ups met the failure and however many retry timers have lost
\* their handle to a later one (catchUp).
DiscoveryFailureTracked ==
  discoveryLastError => \/ stopped
                        \/ discoveryExhausted
                        \/ DiscoveryRetryArmed
                        \/ catchUpPc # "idle"

\* Every queued scope is eventually run, even one that catchUp() queued in the
\* gap between drain() resolving and drainPromise being cleared, which no
\* drain loop picks up: the next enqueue() restarts the loop.
QueueDrains ==
  \A s \in Scopes : (s \in Queued) ~> (runningScope = s \/ stopped)

\* The scheduler does what ScopeWork promises.
Work == INSTANCE ScopeWork WITH wanted <- owed, serving <- runningScope,
                                halted <- stopped
ImplementsScopeWork == Work!Spec
=============================================================================
