-------------------------- MODULE SignalConsolidation --------------------------
(***************************************************************************)
(* How signals become consolidation work: the at-least-once stream         *)
(* amp:signals with its consumer group (packages/redis/src/streams.ts),    *)
(* the scope lock (redis/src/locks.ts), ConsolidationEngine.run            *)
(* (packages/core/src/consolidation.ts), the review store                  *)
(* (redis/src/proposals.ts) and the ledger that makes an application       *)
(* idempotent (packages/neo4j/src/semantic.ts).                            *)
(*                                                                         *)
(* One action is one command taking effect at Redis or Neo4j together with *)
(* the code that runs on its reply; an engine may crash, and any command   *)
(* may be rejected, between two of them.  Signals are reinforcements: they *)
(* raise the confidence of their target by one step per applied proposal.  *)
(* An engine is one ConsolidationEngine instance, with a name of its own   *)
(* as a lock holder and as a consumer; a process that restarts is another  *)
(* engine.  The coordinator and the tool berry_consolidate may have calls  *)
(* of run() in progress on the same engine: a run belongs to an engine.    *)
(***************************************************************************)
EXTENDS Naturals, Sequences, FiniteSets

CONSTANTS Engines,      \* engine instances (lockHolder, consumer name)
          Runs,         \* calls of run() that can be in progress
          EngineOf,     \* the engine a run belongs to
          Targets,      \* Semantic nodes signals point at
          Scopes,       \* scopes consolidation is run for
          Global,       \* the scope "global": every signal belongs to it
          ScopeOf,      \* the scope of a target, and of the signals to it
          None,         \* no engine, no scope
          Threshold,    \* config.consolidation.signalThreshold
          Count,        \* messages one consume() asks for (100)
          AutoApply,    \* config.consolidation.autoApply
          MaxSignals,   \* bound: signals published
          MaxCrashes,   \* bound: engines that crash
          MaxFailures,  \* bound: commands rejected
          MaxLapses     \* bound: leases lost under a live holder

ASSUME ConstAssumption ==
  /\ None \notin Engines
  /\ None \notin Scopes /\ None # Global
  /\ EngineOf \in [Runs -> Engines]
  /\ ScopeOf \in [Targets -> Scopes]
  /\ Threshold \in Nat \ {0} /\ Count \in Nat \ {0}
  /\ AutoApply \in BOOLEAN
  /\ MaxSignals \in Nat /\ MaxFailures \in Nat /\ MaxCrashes \in Nat /\ MaxLapses \in Nat

\* Redis and Neo4j.
VARIABLES
  stream,         \* stream[i]: the target of the signal with id i
  delivered,      \* last-delivered-id of the group "consolidation"
  owner,          \* owner[i]: whose pending entry i is, None if nobody's
  acked,          \* ids acknowledged and deleted
  lock,           \* lock[s]: holder of amp:lock:consolidate:s
  pending,        \* proposals waiting for review
  confidence,     \* of each target
  applied         \* applied_consolidation_keys

\* The runs, and the stream cursors of their engines.
VARIABLES
  pc,             \* where the run is
  runScope,       \* the scope it runs for
  leaseFailure,   \* a heartbeat failed to renew the lease
  batch,          \* ids this run's consume() has returned so far
  todo,           \* generated proposals not handled yet
  durable,        \* signal proposals of this run applied or saved
  pendingCursor,  \* SignalStream.pendingCursors
  claimCursor     \* SignalStream.claimCursors

\* Reviewers, and observers no action depends on.
VARIABLES
  approving,      \* approved proposals fetched, not applied yet
  removing,       \* keys of approved proposals applied, not removed yet
  rejected,       \* observer: keys of every proposal ever rejected
  overlapped,     \* observer: runs that a run under another lock overlaps
  lapses,         \* leases lost under a live holder so far
  crashes,        \* engines crashed so far
  failures        \* commands rejected so far

streamVars == <<stream, delivered, owner, acked>>
graphVars == <<confidence, applied>>
runVars == <<runScope, leaseFailure, batch, todo, durable>>
cursors == <<pendingCursor, claimCursor>>
reviewVars == <<pending, approving, removing, rejected>>
bounds == <<lapses, crashes, failures>>
vars == <<streamVars, lock, overlapped, graphVars, pc, runVars, cursors,
          reviewVars, bounds>>

Ids == 1..MaxSignals
\* A proposal id is a digest of the target and the delivery ids (stableId).
Keys == [target : Targets, from : SUBSET Ids]
Proposals == [key : Keys, confidence : Nat]
Stages == {"idle", "own", "claim", "new", "generate", "apply", "ack",
           "release", "dead"}

TypeOK ==
  /\ stream \in Seq(Targets) /\ Len(stream) <= MaxSignals
  /\ delivered \in 0..Len(stream)
  /\ owner \in [Ids -> Engines \cup {None}]
  /\ acked \subseteq 1..delivered
  /\ lock \in [Scopes -> Engines \cup {None}]
  /\ pending \subseteq Proposals
  /\ confidence \in [Targets -> Nat]
  /\ applied \subseteq Keys
  /\ pc \in [Runs -> Stages]
  /\ runScope \in [Runs -> Scopes \cup {None}]
  /\ leaseFailure \in [Runs -> BOOLEAN]
  /\ batch \in [Runs -> SUBSET Ids]
  /\ todo \in [Runs -> SUBSET Proposals]
  /\ durable \in [Runs -> SUBSET Keys]
  /\ pendingCursor \in [Engines -> 0..MaxSignals]
  /\ claimCursor \in [Engines -> 0..MaxSignals]
  /\ approving \subseteq Proposals
  /\ removing \subseteq Keys
  /\ rejected \subseteq Keys
  /\ overlapped \subseteq Runs
  /\ lapses \in 0..MaxLapses /\ crashes \in 0..MaxCrashes
  /\ failures \in 0..MaxFailures

Init ==
  /\ stream = <<>> /\ delivered = 0 /\ acked = {}
  /\ owner = [i \in Ids |-> None]
  /\ lock = [s \in Scopes |-> None]
  /\ pending = {} /\ approving = {} /\ removing = {} /\ rejected = {}
  /\ overlapped = {}
  /\ confidence = [t \in Targets |-> 0] /\ applied = {}
  /\ pc = [r \in Runs |-> "idle"]
  /\ runScope = [r \in Runs |-> None]
  /\ leaseFailure = [r \in Runs |-> FALSE]
  /\ batch = [r \in Runs |-> {}]
  /\ todo = [r \in Runs |-> {}]
  /\ durable = [r \in Runs |-> {}]
  /\ pendingCursor = [e \in Engines |-> 0]
  /\ claimCursor = [e \in Engines |-> 0]
  /\ lapses = 0 /\ crashes = 0 /\ failures = 0

Running(r) == pc[r] \notin {"idle", "dead"}
RunsOf(e) == {r \in Runs : EngineOf[r] = e}
PendingIds == {i \in Ids : owner[i] # None}
OwnIds(e) == {i \in Ids : owner[i] = e}

\* The n smallest members of a set of ids, all of them if there are fewer.
Oldest(S, n) == {i \in S : Cardinality({j \in S : j < i}) < n}
Newest(S) == CHOOSE i \in S : \A j \in S : j <= i

-----------------------------------------------------------------------------
(* SignalStream.                                                           *)

Publish(t) ==
  /\ Len(stream) < MaxSignals
  /\ stream' = Append(stream, t)
  /\ UNCHANGED <<delivered, owner, acked, lock, overlapped, graphVars, pc,
                 runVars, cursors, reviewVars, bounds>>

newQuota == IF Count > 1 /\ Count \div 4 > 1 THEN Count \div 4 ELSE 1
\* mutant: no room is left for pending entries
NoPendingQuota == 0
pendingQuota == Count - newQuota
ownPendingQuota == (pendingQuota + 1) \div 2

\* mutant: the cursor is put past the last entry although it is exclusive
CursorPast(found) ==
  IF Cardinality(found) < ownPendingQuota \/ found = {} THEN 0 ELSE Newest(found) + 1
\* The rotating cursor: where the next read of own pending entries begins.
CursorAfter(found) ==
  IF Cardinality(found) < ownPendingQuota \/ found = {} THEN 0 ELSE Newest(found)

\* XREADGROUP of the engine's own pending entries, after its cursor.
ReadOwn(r) ==
  LET e == EngineOf[r]
      found == Oldest({i \in OwnIds(e) : i > pendingCursor[e]}, ownPendingQuota)
  IN
  /\ pc[r] = "own"
  /\ batch' = [batch EXCEPT ![r] = found]
  /\ pendingCursor' = [pendingCursor EXCEPT ![e] = CursorAfter(found)]
  /\ pc' = [pc EXCEPT ![r] = "claim"]
  /\ UNCHANGED <<streamVars, lock, overlapped, graphVars, runScope,
                 leaseFailure, todo, durable, claimCursor, reviewVars, bounds>>

\* XAUTOCLAIM of entries idle for reclaimIdleMs, whosever they are, from the
\* claim cursor on.  (Its scan limit, ten times the quota, is out of reach.)
ClaimStale(r, idle) ==
  LET e == EngineOf[r]
      quota == pendingQuota - Cardinality(batch[r])
      found == Oldest({i \in idle : i >= claimCursor[e]}, quota)
      rest  == {i \in PendingIds : found # {} /\ i > Newest(found)}
  IN
  /\ pc[r] = "claim"
  /\ idle \subseteq PendingIds
  /\ pc' = [pc EXCEPT ![r] = "new"]
  /\ IF quota > 0
     THEN /\ owner' = [i \in Ids |-> IF i \in found THEN e ELSE owner[i]]
          /\ batch' = [batch EXCEPT ![r] = @ \cup found]
          /\ claimCursor' = [claimCursor EXCEPT ![e] =
               IF Cardinality(found) < quota \/ rest = {} THEN 0
               ELSE CHOOSE i \in rest : \A j \in rest : i <= j]
     ELSE UNCHANGED <<owner, batch, claimCursor>>
  /\ UNCHANGED <<stream, delivered, acked, lock, overlapped, graphVars,
                 runScope, leaseFailure, todo, durable, pendingCursor,
                 reviewVars, bounds>>

\* XREADGROUP > of entries nobody was given yet.
ReadNew(r) ==
  LET room  == Count - Cardinality(batch[r])
      limit == IF room > newQuota THEN room ELSE newQuota
      last  == IF delivered + limit < Len(stream) THEN delivered + limit
               ELSE Len(stream)
      found == (delivered + 1)..last
  IN
  /\ pc[r] = "new"
  /\ delivered' = last
  /\ owner' = [i \in Ids |-> IF i \in found THEN EngineOf[r] ELSE owner[i]]
  /\ batch' = [batch EXCEPT ![r] = @ \cup found]
  /\ pc' = [pc EXCEPT ![r] = "generate"]
  /\ UNCHANGED <<stream, acked, lock, overlapped, graphVars, runScope,
                 leaseFailure, todo, durable, cursors, reviewVars, bounds>>

-----------------------------------------------------------------------------
(* ConsolidationEngine.run.                                                *)

\* SET NX of the scope's lock; a run that finds it held is skipped.
\* mutant: acquire without NX
NoLock(s) == TRUE
LockFree(s) == lock[s] = None
\* The runs in progress whose targets a run for s would share, under another
\* lock: a run for Global (berry_consolidate without a scope, bootstrap.ts:509)
\* takes signals of every scope.
Overlapping(s) ==
  {q \in Runs : Running(q) /\ runScope[q] # s /\ Global \in {s, runScope[q]}}
Acquire(r, s) ==
  /\ pc[r] = "idle" /\ LockFree(s)
  /\ lock' = [lock EXCEPT ![s] = EngineOf[r]]
  /\ runScope' = [runScope EXCEPT ![r] = s]
  /\ overlapped' = IF Overlapping(s) = {} THEN overlapped
                   ELSE overlapped \cup Overlapping(s) \cup {r}
  /\ pc' = [pc EXCEPT ![r] = "own"]
  /\ UNCHANGED <<streamVars, graphVars, leaseFailure, batch, todo, durable,
                 cursors, reviewVars, bounds>>

\* A heartbeat finds that the lock is another engine's, or is rejected.
HeartbeatFails(r) ==
  /\ Running(r) /\ ~leaseFailure[r]
  /\ \/ /\ lock[runScope[r]] # EngineOf[r]
        /\ UNCHANGED failures
     \/ /\ failures < MaxFailures
        /\ failures' = failures + 1
  /\ leaseFailure' = [leaseFailure EXCEPT ![r] = TRUE]
  /\ UNCHANGED <<streamVars, lock, overlapped, graphVars, pc, runScope, batch,
                 todo, durable, cursors, reviewVars, lapses, crashes>>

\* The signals of this run's scope that point at t; others stay pending.
Cluster(r, t) ==
  {i \in batch[r] : stream[i] = t /\ runScope[r] \in {ScopeOf[t], Global}}
Ripe(r) == {t \in Targets : Cardinality(Cluster(r, t)) >= Threshold}

\* The nodes are read; each ripe cluster becomes one proposal, which carries
\* the new confidence, not the difference.
Generate(r) ==
  /\ pc[r] = "generate"
  /\ todo' = [todo EXCEPT ![r] =
       {[key |-> [target |-> t, from |-> Cluster(r, t)],
         confidence |-> confidence[t] + 1] : t \in Ripe(r)}]
  /\ pc' = [pc EXCEPT ![r] = "apply"]
  /\ UNCHANGED <<streamVars, lock, overlapped, graphVars, runScope,
                 leaseFailure, batch, durable, cursors, reviewVars, bounds>>

\* updateConfidence: a key already in the ledger changes nothing.
\* mutant: no idempotency ledger
NoLedger(k) == TRUE
NotApplied(k) == k \notin applied
SetConfidence(p) ==
  IF NotApplied(p.key)
  THEN /\ confidence' = [confidence EXCEPT ![p.key.target] = p.confidence]
       /\ applied' = applied \cup {p.key}
  ELSE UNCHANGED graphVars

\* The next proposal of the run is handled; assertLease has passed.
Handles(r, p) ==
  /\ pc[r] = "apply" /\ p \in todo[r] /\ ~leaseFailure[r]
  /\ todo' = [todo EXCEPT ![r] = @ \ {p}]
  /\ UNCHANGED <<streamVars, lock, overlapped, pc, runScope, leaseFailure,
                 batch, cursors, approving, removing, rejected, lapses,
                 crashes>>

DurableWork(r, p) == durable' = [durable EXCEPT ![r] = @ \cup {p.key}]

Apply(r, p) ==
  /\ AutoApply
  /\ Handles(r, p)
  /\ SetConfidence(p)
  /\ DurableWork(r, p)
  /\ UNCHANGED <<pending, failures>>

\* _applyProposal returns false, its write done or not; the run goes on.
FailedWork(r, p) == UNCHANGED durable
ApplyFails(r, p) ==
  /\ AutoApply
  /\ failures < MaxFailures /\ failures' = failures + 1
  /\ Handles(r, p)
  /\ SetConfidence(p) \/ UNCHANGED graphVars
  /\ FailedWork(r, p)
  /\ UNCHANGED pending

\* proposals.save: the body under the proposal's key is replaced.
Without(k) == {q \in pending : q.key # k}
Save(r, p) ==
  /\ ~AutoApply
  /\ Handles(r, p)
  /\ pending' = Without(p.key) \cup {p}
  /\ DurableWork(r, p)
  /\ UNCHANGED <<graphVars, failures>>

Handled(r) ==
  /\ pc[r] = "apply" /\ todo[r] = {}
  /\ pc' = [pc EXCEPT ![r] = "ack"]
  /\ UNCHANGED <<streamVars, lock, overlapped, graphVars, runVars, cursors,
                 reviewVars, bounds>>

\* XACK and XDEL of the deliveries behind the durable proposals, in one
\* transaction and whoever holds the lease by now.
Acknowledged(r) == UNION {k.from : k \in durable[r]}
Ack(r) ==
  /\ pc[r] = "ack"
  /\ acked' = acked \cup Acknowledged(r)
  /\ owner' = [i \in Ids |-> IF i \in Acknowledged(r) THEN None ELSE owner[i]]
  /\ pc' = [pc EXCEPT ![r] = "release"]
  /\ UNCHANGED <<stream, delivered, lock, overlapped, graphVars, runVars,
                 cursors, reviewVars, bounds>>

\* A command of the run is rejected, or assertLease throws.
RunAborts(r) ==
  /\ pc[r] \in {"own", "claim", "new", "generate", "apply", "ack"}
  /\ \/ /\ leaseFailure[r] /\ pc[r] = "apply"
        /\ UNCHANGED failures
     \/ /\ failures < MaxFailures
        /\ failures' = failures + 1
  /\ pc' = [pc EXCEPT ![r] = "release"]
  /\ UNCHANGED <<streamVars, lock, overlapped, graphVars, runVars, cursors,
                 reviewVars, lapses, crashes>>

\* The finally block: compare and delete, unless Redis cannot be reached.
Release(r) ==
  /\ pc[r] = "release"
  /\ \/ /\ lock' = [lock EXCEPT ![runScope[r]] = IF @ = EngineOf[r] THEN None ELSE @]
        /\ UNCHANGED failures
     \/ /\ failures < MaxFailures
        /\ failures' = failures + 1
        /\ UNCHANGED lock
  /\ pc' = [pc EXCEPT ![r] = "idle"]
  /\ runScope' = [runScope EXCEPT ![r] = None]
  /\ leaseFailure' = [leaseFailure EXCEPT ![r] = FALSE]
  /\ batch' = [batch EXCEPT ![r] = {}]
  /\ todo' = [todo EXCEPT ![r] = {}]
  /\ durable' = [durable EXCEPT ![r] = {}]
  /\ overlapped' = overlapped \ {r}
  /\ UNCHANGED <<streamVars, graphVars, cursors, reviewVars, lapses, crashes>>

\* The process of engine e dies, with everything it had in memory.
Crash(e) ==
  /\ crashes < MaxCrashes
  /\ \E r \in RunsOf(e) : pc[r] # "dead"
  /\ crashes' = crashes + 1
  /\ pc' = [r \in Runs |-> IF r \in RunsOf(e) THEN "dead" ELSE pc[r]]
  /\ runScope' = [r \in Runs |-> IF r \in RunsOf(e) THEN None ELSE runScope[r]]
  /\ leaseFailure' =
       [r \in Runs |-> IF r \in RunsOf(e) THEN FALSE ELSE leaseFailure[r]]
  /\ batch' = [r \in Runs |-> IF r \in RunsOf(e) THEN {} ELSE batch[r]]
  /\ todo' = [r \in Runs |-> IF r \in RunsOf(e) THEN {} ELSE todo[r]]
  /\ durable' = [r \in Runs |-> IF r \in RunsOf(e) THEN {} ELSE durable[r]]
  /\ overlapped' = overlapped \ RunsOf(e)
  /\ UNCHANGED <<streamVars, lock, graphVars, cursors, reviewVars,
                 lapses, failures>>

\* The lock's TTL passes: nobody renews it any more, ...
Renewed(s) == \E r \in Runs : runScope[r] = s /\ lock[s] = EngineOf[r]
LeaseExpires(s) ==
  /\ lock[s] # None /\ ~Renewed(s)
  /\ lock' = [lock EXCEPT ![s] = None]
  /\ UNCHANGED <<streamVars, overlapped, graphVars, pc, runVars, cursors,
                 reviewVars, bounds>>

\* ... or its holder is stalled for longer in the middle of a run.
LeaseLapses(s) ==
  /\ lapses < MaxLapses
  /\ lock[s] # None /\ Renewed(s)
  /\ lock' = [lock EXCEPT ![s] = None]
  /\ lapses' = lapses + 1
  /\ UNCHANGED <<streamVars, overlapped, graphVars, pc, runVars, cursors,
                 reviewVars, crashes, failures>>

-----------------------------------------------------------------------------
(* Review: ConsolidationEngine.apply(id, decision).                        *)

Reject(p) ==
  /\ p \in pending
  /\ pending' = Without(p.key)
  /\ rejected' = rejected \cup {p.key}
  /\ UNCHANGED <<streamVars, lock, overlapped, graphVars, pc, runVars, cursors,
                 approving, removing, bounds>>

ApproveFetches(p) ==
  /\ p \in pending
  /\ approving' = approving \cup {p}
  /\ UNCHANGED <<streamVars, lock, overlapped, graphVars, pc, runVars, cursors,
                 pending, removing, rejected, bounds>>

ApproveApplies(p) ==
  /\ p \in approving
  /\ SetConfidence(p)
  /\ approving' = approving \ {p}
  /\ removing' = removing \cup {p.key}
  /\ UNCHANGED <<streamVars, lock, overlapped, pc, runVars, cursors, pending,
                 rejected, bounds>>

\* mutant: the answer of _applyProposal is not looked at
RemovedAnyway(p) == {p.key}
\* _applyProposal returns false, its write done or not: the proposal is kept.
KeptUnlessApplied(p) == {}
ApproveFails(p) ==
  /\ failures < MaxFailures /\ failures' = failures + 1
  /\ p \in approving
  /\ SetConfidence(p) \/ UNCHANGED graphVars
  /\ approving' = approving \ {p}
  /\ removing' = removing \cup KeptUnlessApplied(p)
  /\ UNCHANGED <<streamVars, lock, overlapped, pc, runVars, cursors, pending,
                 rejected, lapses, crashes>>

ApproveRemoves(k) ==
  /\ k \in removing
  /\ removing' = removing \ {k}
  /\ pending' = Without(k)
  /\ UNCHANGED <<streamVars, lock, overlapped, graphVars, pc, runVars, cursors,
                 approving, rejected, bounds>>

-----------------------------------------------------------------------------
\* Everything a run does when nothing fails.
Step(r) ==
  \/ ReadOwn(r) \/ ReadNew(r) \/ Generate(r) \/ Handled(r) \/ Ack(r) \/ Release(r)
  \/ \E idle \in SUBSET PendingIds : ClaimStale(r, idle)
  \/ \E p \in todo[r] : Apply(r, p) \/ Save(r, p)

Run(r) ==
  \/ \E s \in Scopes : Acquire(r, s)
  \/ Step(r)
  \/ \E p \in todo[r] : ApplyFails(r, p)
  \/ RunAborts(r) \/ HeartbeatFails(r)

Review == \/ \E p \in pending : Reject(p) \/ ApproveFetches(p)
          \/ \E p \in approving : ApproveApplies(p) \/ ApproveFails(p)
          \/ \E k \in removing : ApproveRemoves(k)

Next == \/ \E t \in Targets : Publish(t)
        \/ \E r \in Runs : Run(r)
        \/ \E e \in Engines : Crash(e)
        \/ \E s \in Scopes : LeaseExpires(s) \/ LeaseLapses(s)
        \/ Review

Spec == Init /\ [][Next]_vars

\* The coordinator's catch-up runs every scope that has targets again and again
\* (a run for Global is for whoever asks for it), a run that is not cut off
\* ends, leases expire, and an entry nobody reads becomes stale.
FairSpec ==
  /\ Spec
  /\ \A t \in Targets : SF_vars(\E r \in Runs : Acquire(r, ScopeOf[t]))
  /\ \A r \in Runs : WF_vars(Step(r) \/ RunAborts(r))
  /\ \A r \in Runs : SF_vars(ClaimStale(r, PendingIds))
  /\ \A s \in Scopes : WF_vars(LeaseExpires(s))

-----------------------------------------------------------------------------
(* Properties.                                                             *)

OfTarget(t) == {k \in applied : k.target = t}

\* No signal is acknowledged, and its body deleted, unless a proposal it is
\* part of was applied, waits for review or was rejected, whatever was refused,
\* crashed, expired, read twice or reviewed in between: the order consume, save
\* or apply, ack of run() (consolidation.ts:493), and remove after apply in
\* apply() (consolidation.ts:537), against at-least-once delivery.
PendingKeys == {p.key : p \in pending}
Kept == applied \cup PendingKeys \cup rejected
Effective == UNION {k.from : k \in Kept}
NoSignalLost == acked \subseteq Effective

\* A signal to its publisher: owed until the work it is part of is applied,
\* waits for review or was rejected, and then done for good.
StatusOf(i) == IF i \notin 1..Len(stream) THEN "none"
               ELSE IF i \in Effective THEN "done" ELSE "owed"
Signal(i) ==
  INSTANCE AtLeastOnce WITH Jobs <- {i}, status <- [j \in {i} |-> StatusOf(j)]

\* A target's confidence has no more steps than distinct proposals were
\* applied to it: a delivery redelivered after a crash between application and
\* ack, a retried application and a second approval add nothing (the ledger
\* of semantic.ts:194 keyed by the digest of the deliveries).
ConfidenceEarned == \A t \in Targets : confidence[t] <= Cardinality(OfTarget(t))

\* Reinforcement raises confidence (consolidation.ts:645), under the runs of
\* several engines, crashes and failing calls: where the engine applies its own
\* proposals, no lease is lost in the middle of a run, and no run in progress
\* overlaps one for Global, no run writes a confidence computed from one that
\* another has replaced since.  Without the last two it may: the locks of a
\* scope and of Global do not exclude each other (consolidation.ts:388).
ReinforceNeverLowers ==
  [][lapses' = 0 /\ overlapped = {} =>
       \A t \in Targets : confidence'[t] >= confidence[t]]_vars

Backlog(t) == {i \in 1..Len(stream) \ acked : stream[i] = t}

\* Signals that are together enough for a proposal do not stay behind, however
\* they are spread over runs, engines and crashed engines' pending entries, as
\* long as a read window holds them all: pending entries accumulate across runs
\* (consolidation.ts:441), and entries nobody reads are claimed (streams.ts:159).
BacklogHandled ==
  \A t \in Targets : (Cardinality(Backlog(t)) >= Threshold)
                       ~> (Cardinality(Backlog(t)) < Threshold)
=============================================================================
