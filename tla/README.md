# MemBerry in TLA+

Specifications, model checks and proofs kept beside MemBerry, a memory service
for agents: a knowledge graph in Neo4j, working state and queues in Redis, and
an MCP server in TypeScript (`src/packages`) that stores, consolidates, serves
and publishes memories. Paths below are relative to `src/packages` unless they
begin with `src/`.

MemBerry is one long-running Node process per client, or several, over shared
Neo4j, Redis and a wiki directory. Every `await` is a point where the other
callbacks of the process, other processes, timers and crashes get in. That is
what is modelled here; the text of queries, the wording of pages and the
scoring of search results are not.

## 1. The system

| Component | State it keeps | Operations | Talks to |
|---|---|---|---|
| **Consolidation coordinator**, scheduling (`mcp/src/consolidation-coordinator.ts`) | debounce and retry timers per scope, the queue, the drain promise, health flags; all in memory | schedule, enqueue, drain, scheduleRetry, catchUp, start, stop | called by the store hook; calls the engine; asks the graph for scopes |
| **Consolidation coordinator**, wiki publication (same file, `mcp/src/bootstrap.ts`) | counters `generation:dirty` and `generation:published` in Redis; timers, `publicationPromise` and health in memory | schedulePublication, publish, recoverPublicationIntent, catchUp | Redis; the wiki compiler |
| **Signal stream** (`redis/src/streams.ts`) | stream `amp:signals`, its consumer group, two rotating cursors per engine | publish, consume, ack | store path; engine |
| **Consolidation engine** (`core/src/consolidation.ts`) | a run's batch and proposals in memory | run, apply | stream, scope lock, proposals, graph |
| **Scope lock** (`redis/src/locks.ts`) | key `amp:lock:consolidate:<scope>` with a time to live | acquire, renew, release | engine, dream pass |
| **Review store** (`redis/src/proposals.ts`) | proposal bodies and the pending set | save, get, listPending, remove | engine, lifecycle pass, reviewers |
| **Confidence ledger** (`neo4j/src/semantic.ts`) | confidence and `applied_consolidation_keys` of each Semantic node | updateConfidence | engine |
| Dream pass (`core/src/dream.ts`) | nothing between passes | run | scope lock, facts, LLM |
| **Extraction queue** (`core/src/extraction-consumer.ts`, `redis/src/extraction.ts`) | job stream, consumer group, dead letters | enqueue, read, claimStale, ack, requeue, deadLetterAndAck, replay | store path, facts |
| **Wiki compiler** (`wiki/src/compile.ts`) | lock file, generation directories, the pointer to the active one | compile, publish pointer, clean up | publication, CLI |
| Promotion (`core/src/promotion-scheduler.ts`) | scan cursor in Redis | plan, advance | engine |
| **Facts** (`neo4j/src/fact.ts`) | bitemporal facts | create, corroborate, invalidate | engine, dream, extraction |
| Lifecycle, hebbian, anti-entropy (`core/src/lifecycle.ts`, `hebbian.ts`, `anti-entropy.ts`) | feedback ring, artifacts, proposal stamps | one pass each | graph, proposals; reads every counter |
| **Store path** (`core/src/service.ts`, `redis/src/dedup.ts`) | dedup keys, then all of the above | store, load | everything |
| Memory blocks (`core/src/blocks.ts`) | one block in two stores | write, promote, archive | Redis, Neo4j, context cache |
| Context cache (`redis/src/cache.ts`) | assembled contexts and dependency sets | get, set, invalidate | load, every write |
| **Evidence ledger** (`neo4j/src/evidence-authority-*.ts`) | coverage, cases, events, outbox | one transaction per transition; derive a clearance | Neo4j |

The components in bold are modelled, completely or in part.

The rest (admission rules, MCP transport and tools, retrieval, code index,
rendering, research and architecture records, graph reports, CLI) is listed
in `PROJECT.json` with the reason each part is left out: it is a pure function,
parsing, file I/O, or a query run by the database. `src/bench`, `src/scripts`
and `src/guides` are evaluation, tooling and documentation.

**What makes the modelled components correct, and what is hard about it**

- *Scheduling.* A stored scope is consolidated; a scope is retried a bounded
  number of times and reported when given up; after `stop()` nothing begins.
  Hard: debounce, retry timer, catch-up and the end of a run all touch the same
  scope's entry; `catchUp()` may resume between the end of `drain()` and the
  `.finally()` that clears `drainPromise`.
- *Publication.* The served wiki catches up with the graph and never goes back;
  when the counters agree it is current. Hard: the version is read before a
  compile and written after it; the INCR that records a change may be rejected
  or never issued; several processes write the same counters.
- *Signals.* A signal is acknowledged only when its effect is durable, and its
  effect is counted once. Hard: at-least-once delivery, pending entries of dead
  consumers, leases lost under a stalled run, review in parallel with
  redelivery, and read windows smaller than the backlog.
- *Compiles.* Two compiles never write at once, a reader is given a complete tree
  and never an older one, nobody waits for a dead process for ever. Hard: a lock
  that is a file, broken by age; a crash between any two file-system calls.
- *Extraction.* A job is extracted or ends in the dead letters, after all its
  attempts failed and not before, and is in one place meanwhile. Hard: acknowledgement,
  deletion and requeueing are several commands, each of which may be lost, take
  effect without an answer, or find that another consumer has the entry.
- *Storing.* A refused store can be repeated, an accepted one is not stored
  twice while its key lasts, no episode confirms itself, and what was known is
  superseded but never lost. Hard: five stores without a common transaction, keys
  that expire under the calls that set them, and extraction passes that decide
  from what they read at their beginning.
- *Evidence.* A history is auditable whatever the order of the calls, an answer
  stays true when the call is repeated, and a clearance is earned by what is
  there when it is given. Hard: writers replay lost answers, the reader takes
  three transactions, and the edges are under no lock.

`PROJECT.json` lists each hazard at its line, with the properties that would
catch it, or why none covers it yet.

## 2. The modules

| Module | What it models |
|---|---|
| `ConsolidationCoordinator` | the scheduling half of the class: one action per event-loop turn |
| `ScopeWork` | abstract: one worker, requests withdrawn only by serving them, none begun after the halt |
| `WikiPublication` | the publication half, the counters, crashes and restarts, several processes |
| `ServedView` | abstract: a view of the graph that lags, never goes back, and arrives |
| `WikiCompile` | `compile()`: lock file, heartbeat, private tree, rename, pointer, cleanup, and what readers resolve |
| `SignalConsolidation` | stream, scope lock, `run()`, review, ledger; several engines |
| `ExtractionQueue` | the job stream, its group and dead letters, consumers, replay |
| `AtLeastOnce` | abstract: a queue that owes each job until it is finished or given up |
| `CaseAuthority` | abstract: coverage and cases that move one legal transition at a time and never back |
| `Ingestion` | `store()` from the deduplication mark to the job, and the passes that reconcile facts |
| `EvidenceLedger` | the evidence ledger of one Semantic, its writers, and the clearance read from it |
| `MC...` | model values and symmetry sets for TLC |
| `..._proofs` | theorems and their proofs |

The modules meet where the components do:

- The coordinator is one class in two modules because its halves share only the
  `stopped` flag, the startup timer and `catchUp()`. `ConsolidationCoordinator`
  takes `await schedulePublication()` as an await that returns; `WikiPublication`
  takes a run as a source of changes and `catchUp()` as a discovery query that
  succeeds or fails.
- `WikiPublication` compiles under a lock that excludes. `WikiCompile` is that
  compile with the lock the code has: `OneWriter` and `ImplementsServedView` are
  what `WikiPublication` assumes of it, and hold unless a lock is removed by
  mistake (section 3, disagreement 2). Both implement the same `ServedView`.
- `SignalConsolidation` takes the coordinator as something that calls `run()` for
  every scope again and again. Each of its signals is a job of `AtLeastOnce`
  that is never given up (`Signal(i)`).
- `Ingestion` takes the queue as an `AtLeastOnce` queue that may deliver a job
  more than once, which is what `ExtractionQueue` is shown to implement; `Queue`
  is that specification over the calls and what became of their jobs, so that
  both sides of the interface are held to one contract. A store is a `Schedule`
  of `ConsolidationCoordinator` and a `Commit` of `WikiPublication`.
- `EvidenceLedger` is a history; `Authority` reads it as the `CaseAuthority` its
  readers decide by.

### ConsolidationCoordinator

The variables are the class's fields. `queue` and `queuedAttempt` are the keys
and values of the insertion-ordered `Map`; `drainPc` says where the drain loop
is (`"idle"` iff `drainPromise` is null) and `catchUpPc` where `catchUp()` is.
`drainPc = "close"` is the microtask gap between `drain()` resolving and
`drainPromise` being cleared: timers are macrotasks and cannot fire in it
(`MacrotaskTurn`), the continuation of `catchUp()` can. A scope queued there is
taken by no loop until the next `enqueue()` or catch-up; `QueueDrains` checks
that this repairs it. Four observers (`stores`, `owed`, `failures`, `abandoned`)
record history for the properties; no guard reads them except the bound on
stores. `discoveryHandle` is the attempt of the timer `discoveryRetryTimer`
holds, and `discoveryOrphans` counts, for each attempt, the armed timers whose
handle was overwritten: they fire as well, null the handle of a newer timer, and
are not cleared by `stop()`. `MaxRetries` is the configured value; `MaxStores` and
`MaxOrphans` (of each attempt) are bounds.

A retry that is already queued when a success of its scope arrives keeps its
attempt number, so "after `MaxRetries + 1` failures since the last success" is
*not* what the code does; `GiveUpEarned` states what it does: since the last
success with no further run of that scope queued.

### WikiPublication

A datastore command and the turn that handles its reply are two steps, so a
command may take effect and its reply be an error. `lag` is `dirty - published`,
since only their difference is read, and it may grow again when a slower process
writes an older published value. `since[p]` counts the INCRs after `p` read
`compileVersion`, which is what `markPublished(compileVersion)` leaves over.
`handle` is the attempt of the timer `publicationRetryTimer` holds and `orphans`
counts timers whose handle was overwritten; they still fire, and `stop()` cannot
cancel them. `Exit` is a crash or an exit after `stop()`: memory goes, the
counters, graph and wiki stay. A change is a model value; the wiki is the set of
changes it shows. A compile is `CompileStarts` (take the lock, read the graph)
and `CompilePublishes` (replace the pointer); the lock is taken to be exclusive,
which is the question of `WikiCompile`. Compiles started by the wiki service or
the CLI, outside the coordinator, are not modelled: they only add changes to
the wiki. `Sweepers` are the processes whose interval comes round; where it is
empty nothing depends on the catch-up.

### SignalConsolidation

A signal is its target: all modelled signals are reinforcements. A proposal is
the set of deliveries it was generated from (its id is a digest of them) and
the absolute confidence it will write. A run is separate from its engine,
because the tool `berry_consolidate` and the coordinator may both be inside
`run()` on one engine, sharing its consumer name and cursors. `consume()` is
three commands with three windows: own pending entries, stale entries of
anyone, new ones. Confidence is a count of steps from the initial value: the
formula is monotone and bounded, and the properties ask only which way it
moves and how often. A crash kills every run of an engine; a restarted process
is another engine. The lease expires when its holder is gone (`LeaseExpires`)
and, up to `MaxLapses` times, under a stalled holder (`LeaseLapses`). A run for
the scope `Global` has a lock of its own and is in charge of every target, so it
may be in progress together with a project's run; the observer `overlapped` is the
set of runs in progress that met another one in this way.

Signals are reinforcements; section 5 says what of the engine is left out. The
scan limit of XAUTOCLAIM (ten times its quota) is taken as out of reach.

### WikiCompile

One action is one file-system call, or the calls between two points where
another process can tell the difference. `pc` follows a call of `compile()`
through acquiring (`open` with `wx`, `inspect`, `recheck`, `break`, `sleep`),
building, renaming, publishing, cleaning up and releasing. `lock` is the compile
whose inode the lock file is, `age` the ticks since it was written. Time passes
in ticks: a heartbeat is due every tick and a lock is stale after `StaleAfter`
of them; `Tick` waits for what is due at once, so that a live holder's heartbeat
is never late. `tree[c]` is what there is of a
compile's tree and under which name: private, renamed, with or without its
marker, or torn because somebody removed it meanwhile. `ServedTree` is
`resolvePublishedWikiDir()`. Only a compile without a project scope publishes.
`mistaken` and `blocked` are observers: an `rm()` that removed a lock other than
the one inspected, and a call that had to wait for one that was alive.

### ExtractionQueue

One action is one Redis command or one MULTI together with the turn that handles
its reply; every command may also be rejected, or take effect and lose its reply.
An entry of `stream` is its job, its attempt count and what became of it
(`waiting`, `pending`, `acked`, `deleted`), so that the gap between XACK and XDEL
is a state. `idle` holds the pending entries nobody touched for `idleReclaimMs`:
an entry without a live hand gets there in any case, one in a live hand up to
`MaxLapses` times. A consumer is `drainOnce()`: claim, read, then per entry
handle, acknowledge and delete, or requeue or dead-letter; a rejected requeue is
caught by the loop only, and the rest of the batch is left to be reclaimed.
`replaying` is the dead letter `replayDeadLetters()` has added again and not yet
deleted. Observers: the jobs accepted, extracted and failed, and `split`, the jobs
that were in two hands. `Status` maps all of it to `AtLeastOnce`.

### Ingestion

What a call's deduplication key depends on (tenant, agent and content) is `key`;
the key expires at any time after it was set (`MarkExpires`), also under a call that
is still under way, up to `MaxExpired` keys; `expired` records which. A call of
`store()` sets the mark, creates the episode, publishes its signals and
hands the job to the queue, each a command that may fail with or without effect;
a failure before the end takes the mark back, which may fail as well. When the enqueue is
rejected the process extracts in memory, up to `MaxTries` times (`tries`). A pass
is `_extractFactsOnce`: it reads the model's answer (any of `Says`), looks for the
fact, creates it or confirms it, and invalidates the rival it saw active when it
began; passes of queue consumers and of in-process substitutes run at the same
time. All facts are of one subject and predicate, because passes meet nowhere
else. A fact is its object, its source, who confirmed it and its status; whose
source and confirmation are episodes, as in the code, and not texts. A job added
before the consumer group exists (`GroupCreated`) is `"unseen"` and never given to
a worker; `Owed` is what the queue owes as `AtLeastOnce` counts it.

### EvidenceLedger

A writer locks the ledger node with its first statement, so that one writing
transaction is one action, except that `captureCase()` counts the raw edges, which
no lock covers, one statement before it appends (`tx`). `history` is the events
in sequence, and the state of a case or of the coverage is computed from it, as
the code's audit does. `reply` is the last answer a writer got; an answer may be
lost after the commit, and every operation may be repeated. The reader's clearance
is a reading of version, events and cases, then the outbox page, then the edges,
with anything in between. Edges are drawn by other components at any time.

## 3. What is checked

| Run | Instance | States | Shows |
|---|---|---|---|
| `coordinator_safety` | 2 scopes, 2 stores, 1 retry, 1 orphaned timer | 1 592 900 | no stored scope is forgotten, give-up is earned, failed discovery is tracked; once `stop()` resolves no run is in progress, nothing is queued and no timer that queues is armed |
| `coordinator_fifo` | 2 scopes, 1 store, no retry, fair | 16 466 | the queue drains; `ScopeWork` is implemented, liveness included |
| `publication_two` | 2 processes, 2 changes, 3 starts, no retry, no interval | 1 057 253 | equal counters mean a current wiki; the processes together implement the monotone `ServedView` |
| `publication_live` | 1 process, 1 change, 2 starts, 1 retry, fair | 98 118 | a change a process counted and the wiki lacks, or counters that differ, are always tended or reported; every change is served in the end |
| `publication_intent` | 1 process, 1 change, 1 start, 1 retry | - | **violated**: a rejected INCR is forgotten by the debounced publish |
| `signals_review` | 2 engines, 1 project's target, 2 signals, threshold 2, review mode, 1 crash, 2 rejected commands, fair | 88 874 | no signal is lost under review; two signals that are enough only together reach a proposal, whichever runs read them and whoever crashed |
| `signals_engines` | 2 engines, a project and the scope `global`, 1 target, 2 signals, threshold 1, automatic mode, 1 crash, 1 rejected command, 1 lapse | 774 735 | no proposal counts twice; a confidence is lowered only after a lapse or where a global run overlaps |
| `wiki_compile` | 2 global compiles and a scoped one, 1 commit, 1 fault, fair | 529 953 | one writer, complete trees, `ServedView` implemented, no call that gives up for a dead lock, none that hangs |
| `compile_lock` | the same | - | **violated**: an `rm()` removes a lock other than the inspected one |
| `extraction_queue` | 2 consumers, 1 job, 2 attempts, 2 faults, 1 lapse, 1 replay, fair | 49 425 | a job is in one place, handled by one hand, never lost, buried only after as many failed attempts as it may make; `AtLeastOnce` is implemented, liveness included |
| `ingestion` | 2 calls of one key, 2 workers, 3 objects, 2 faults, 1 expired key, 1 extra delivery, fair | 360 168 | one live key has one stored episode, an episode is confirmed only by another stored one, nothing established is superseded by less, a failed store can be repeated, something is always known, what was stored once the group exists is extracted |
| `evidence_ledger` | 2 signals, 1 principal, 5 events | 209 172 | the audit accepts every history, answers are true, a clearance is earned |

States are TLC's distinct states, after symmetry where the run uses it.

**Why the bounds are enough.** Two scopes are enough for every interaction in
the coordinator: one scope's end of run against another's entry in the queue.
Two stores let one arrive during a run and one after it; one retry makes the
attempts 0 and 1, hence the minimum in `enqueue`, the last attempt and the
give-up; one orphaned discovery timer is one that outlives `stop()`, and with one
retry it and the held timer have the same attempt. In publication a second change is what crosses a compile, a second
process is what crosses the counter, and a second start follows a crash;
`publication_two` leaves the interval out, because the properties it checks need
nobody to come back. For signals, two engines suffice because the stream, the
lock and the store are the only things shared; the second signal lets a
redelivery cross a new delivery. `signals_review` asks for two signals per
proposal, so that its two signals are of use only together; `signals_engines` asks
for one, so that two proposals, with two confidences, may cross. Three compiles are two that may both meet a
stale lock and one that keeps the lock for a scope without publishing; a lock is
stale after two ticks, before a contender's timeout of three, as in the code,
and one retained generation makes the cleanup remove something. The extraction
run has one job, because jobs share nothing but the batch they are read in; two
copies of it (a replay beside an entry, or one requeued under a slow handler) are
what batches of two are for. In `ingestion` both calls have one key, so that the second
is a duplicate, the retry of a failed store, or another episode once the key has
expired; the model may read either of two facts in the text, which contradict each
other and the one established before, and not the same one each time. Calls of
different keys never meet in the mark, and to the passes they are what two calls of
an expired key are. Five ledger events are coverage, a
case through its two transitions to its end, and one more: the other case or the
revocation. Each bound on crashes, rejected commands and lapses is a fault at
every possible point. More faults and more actors than these are covered by the
theorems below where there is one, and by no check where there is none.

`Count` is 100 in `run()` and its windows are then 38, 37 and 25 or more; the
models scale it to 4, which gives windows of 2, 1 and the rest, enough for the
signals there are. `signalThreshold` is 3 by default, 2 in `signals_review`, where
two is the least that needs signals to meet, and 1 in `signals_engines`: a proposal
of one delivery is as good as one of three for what is repeated or lowered.
Review mode is the default (`core/src/services-factory.ts:214-220`); that two
approvals of one proposal count once is checked by no run and proved for both modes
(`EarnedConfidence`).

`CHECK_DEADLOCK FALSE` is set where the system really stops: for the
coordinator, when `stop()` resolves; for `publication_two`, whose processes have
no interval and use up their starts; for `wiki_compile` and `compile_lock`,
when every call has returned; for `ingestion`, when everything stored is
extracted.

Symmetry is used in safety runs only. `Twins` permutes the two engines together
with their runs, which leaves `EngineOf` unchanged.

**Each property has a mutant**: a plausible wrong form of one definition
(an operator marked "mutant" next to the right one) under which TLC finds the
property violated in the same run. So none holds for want of behaviours.

### Fairness

- *Coordinator.* The event loop runs what is ready: weak fairness for the ends of
  runs and queries, strong for timers and the interval, because each can be
  disabled for a moment by the microtask gap. Discovery does not fail for ever.
  No fairness for stores and `stop()`.
- *Publication.* Weak fairness for timers, turns that handle a reply, starting
  a process that is down and ending one that was stopped. Publication fails any
  number of times but not for ever (`<>[][~PublishFails]`), and strong fairness
  for the success of the catch-up's discovery and of its INCR, since the
  interval repeats both.
- *Signals.* Weak fairness for the steps of a run, which end or abort; strong
  for acquiring the scope of each target, since the coordinator's catch-up keeps
  running it (none for `Global`, which is run when somebody asks for it);
  strong for claiming when everything pending is idle, since an entry no run
  reads becomes stale after 60 s; weak for the lease's expiry (30 s,
  renewed every 10 s). Crashes and rejected commands are bounded, so from some
  point on nothing fails.
- *Compiles.* Time passes, calls that have begun go on, due heartbeats and
  sleeps end: weak fairness each. None for calls that have not begun.
- *Extraction.* The host restarts a consumer, its loop goes on and its handler
  returns or throws, since the model call has a deadline: one weak fairness per
  consumer. Entries nobody holds become idle, and a replay that is not cut off
  deletes its dead letter.
- *Ingestion.* Weak fairness for an enqueue that was sent, for delivering a job
  that is owed, which is the liveness of `AtLeastOnce`, and for the steps of a pass.
  None for calls, for keys to expire or for the group to be created.

The evidence ledger waits for nothing and has no liveness to state.

### Disagreements found

Two are checked by a run that TLC must find violated:

1. **A rejected INCR is forgotten** (`publication_intent`,
   `mcp/src/consolidation-coordinator.ts:489`). After `markDirty()` rejects, the
   debounced `publish()` sees equal counters, clears `publicationNeededSince`
   and the error, and returns. The store is served only after the next
   catch-up, and `/readyz` is healthy meanwhile. `:245` calls it the "retrying
   publication hook for every successful graph store".
2. **A lock removed by mistake** (`compile_lock`, `wiki/src/compile.ts:451`). Two
   contenders that have both read a stale lock twice: the slower one's `rm()`
   removes the lock the faster one has made meanwhile, and both write. `:277`
   says "the compile lock proves no other writer is using a `.building-*` tree",
   `:443` "re-read before breaking so we do not remove a successor lock". The
   other runs and theorems about compiles are stated under `~mistaken`: this is
   the only way the lock fails.

The rest came out of modelling, and is recorded here. Where a model contains it,
its properties are stated so as to leave exactly this out.

3. *One flag for all scopes* (`mcp/src/consolidation-coordinator.ts:425`). `drain()`
   clears `exhaustedFailure` on any scope's success; `src/README.md:369` says
   `/readyz` returns 503 for exhausted automation.
4. *A stale proposal lowers confidence* (`core/src/consolidation.ts:1497`). A
   reinforce proposal carries an absolute value, so approving an older one
   after a newer one sets the confidence back; `:644` says reinforcement raises
   it. Engines that apply their own proposals do the same in two cases: a run
   that lost its lease and goes on, and a run for `global`, which
   `berry_consolidate` starts where no scope is given (`mcp/src/bootstrap.ts:509`).
   The global run takes another lock (`core/src/consolidation.ts:388`), overlaps a
   project's run on the same targets, and either may write a confidence it
   computed before the other's. `ReinforceNeverLowers` leaves out exactly these.
5. *Signals that never meet* (`redis/src/streams.ts:148`). A run clusters what
   one `consume()` returns. When more is pending than its windows hold, signals
   of one target further apart than a window never reach the threshold;
   `core/src/consolidation.ts:442` says "their pending entries safely accumulate
   across runs". `BacklogHandled` is checked for signals that fit the windows.
6. *Jobs before the group* (`redis/src/extraction.ts:54`). The group is created
   at `$`, so a job enqueued before the first consumer started is never
   delivered. The queue's properties speak of `accepted` jobs for this reason,
   and `StoredIsExtracted` of stored episodes whose job is not `"unseen"`.
7. *An acknowledgement that fails* (`core/src/extraction-consumer.ts`) is caught
   with the handler's failures: a job that was extracted may be requeued and
   handled again, also when only the XDEL after its XACK was rejected, and one whose
   handler returned every time may end in the dead letters. `DeadLetterEarned`
   therefore counts failed attempts, not failures of the handler. A crash between XACK and XDEL leaves an entry
   that `stats()` goes on counting.
8. *Both facts stay* (`core/src/service.ts:1241`). A pass that fails after
   corroborating and before invalidating leaves two contradicting facts active,
   "(recoverable)" says the comment; the repeated pass finds the first one
   active, has nothing to confirm, and invalidates nothing. `KnowledgeKept` is
   what is promised and holds: never the only fact lost.
9. *The duplicate of a store that fails later.* While the first call is under way
   a second one of the same content is answered `duplicate`, also when the first
   fails and takes the mark back. The caller that was told so has no memory
   stored. A crash between the episode's commit and its enqueue leaves an episode
   whose facts are not extracted, and a mark that swallows the retry for 24 h.
10. *One transaction is no snapshot* (`neo4j/src/evidence-authority-read.ts:553`,
    comment at `:504`, "version and rows are one consistent snapshot"). Under
    read-committed isolation the two statements see different states, and an
    event appended in between makes a sound ledger look corrupt, which a
    clearance answers as `SOURCE_UNAVAILABLE`. The verdict refuses, so
    `ClearEarned` is not touched.
11. *An arm called unreachable* (`neo4j/src/evidence-authority-clearance.ts:489`):
    the capture counts the edges before it appends, without a lock on them, so an
    edge dated before the coverage may be drawn in between on a healthy ledger.
    The model reaches it; the clearance then reports a coverage gap.
12. *Permanent refusals* (`neo4j/src/evidence-authority-capture.ts:194`). A
    capture refused for want of coverage over existing edges is called permanent,
    but is admitted once somebody opens the coverage by `openCoverage()`.
13. *A pending proposal dropped* (`redis/src/proposals.ts:64`). `listPending()`
    removes the ids whose bodies it found gone; one saved again in between loses
    its id, and no reviewer sees it until it is redelivered.
14. *Promotion without its scheduler* (`mcp/src/bootstrap.ts:485-491`). The engine
    gets neither `findPromotableKeyset` nor a store for the cursor, so that only
    the head window is scanned, and the backlog that
    `core/src/consolidation.ts:689` says "cannot starve newer evidence" does.

15. *A timer `stop()` does not know* (`mcp/src/consolidation-coordinator.ts:303`). A
    catch-up of the interval that fails while a discovery retry is armed overwrites
    the timer's handle. The timer stays armed, nulls the handle of the newer one
    when it fires, and outlives `stop()`, which clears the handle it has (`:387`).
    It then starts nothing, because `catchUp()` looks at `stopped` first:
    `StopQuiesces` says this and not that no timer is left.
16. *The same text as its own witness* (`core/src/service.ts:1190-1206`, "accepted
    residual"). Independent means another episode. The deduplication key holds back
    a repetition by the same tenant and agent, and for 24 hours only
    (`redis/src/dedup.ts:5`): stored a day later, or by another agent, the same text
    is another episode, confirms what it stated the first time and may supersede
    what was established. `CorroborationEarned` and `SupersessionEarned` speak of
    episodes for this reason.

## 4. What is proved

TLAPS proves these for every value of the constants that satisfies the module's
assumption (`ConstAssumption`, `QueueAssumption`, ...: finite sets of actors,
`None` outside them, bounds that are natural numbers, `Threshold`, `Count`,
`Batch` and `MaxAttempts` positive).

| Module | Theorem | States |
|---|---|---|
| `ConsolidationCoordinator_proofs` | `TypeCorrect` | `Spec => []TypeOK` |
| | `NothingForgotten` | `Spec => []NoForgottenScope` |
| | `StopsClean` | `Spec => []StopQuiesces` |
| | `DiscoveryTracked` | `Spec => []DiscoveryFailureTracked` |
| | `EarnedGiveUp` | `Spec => GiveUpEarned` |
| | `ImplementsWorkSafety` | `Spec => Work!Safety`, the safety part of `ScopeWork` |
| `WikiPublication_proofs` | `TypeCorrect` | `Spec => []TypeOK` |
| | `CleanIsPublished` | `Spec => []CleanMeansPublished` |
| | `LagTracked` | `Spec => []PublicationTracked` |
| | `ImplementsView` | `Spec => ImplementsServedView` |
| `WikiCompile_proofs` | `TypeCorrect` | `Spec => []TypeOK` |
| | `WritersAlone` | `Spec => []OneWriter` |
| | `ServesComplete` | `Spec => []ServedComplete` |
| | `ImplementsView` | `Spec => ImplementsServedView`, the safety of `ServedView` until a lock is removed by mistake |
| | `ViewWhileApart` | `Spec` and `[]~mistaken` imply `View!Safety`, with no exception |
| | `TimeoutIsEarned` | `Spec => []TimeoutEarned`, for `StaleAfter <= Timeout` |
| `SignalConsolidation_proofs` | `TypeCorrect` | `Spec => []TypeOK` |
| | `SignalsKept` | `Spec => []NoSignalLost` |
| | `SignalsOwed` | `Spec => Signal(i)!Safety`, the safety part of `AtLeastOnce`, for each signal |
| | `EarnedConfidence` | `Spec => []ConfidenceEarned` |
| | `RunsApart` | `Spec => []` of: while no lease lapses, no two runs are in progress for one scope |
| | `ReinforcementRises` | `Spec => ReinforceNeverLowers` in automatic mode: a confidence is lowered only after a lapse or while a global run overlaps another |
| `ExtractionQueue_proofs` | `TypeCorrect` | `Spec => []TypeOK` |
| | `HandlersAlone` | `Spec => []OneHandler` |
| | `NothingLost` | `Spec => []NoJobLost` |
| | `GivenUpLast` | `Spec => []DeadLetterEarned` |
| | `OneCopy` | `Spec => []SingleCopy` |
| | `ImplementsQueueSafety` | `Spec => Delivery!Safety`, the safety part of `AtLeastOnce` |
| `Ingestion_proofs` | `TypeCorrect` | `Spec => []TypeOK` |
| | `UniqueEpisode` | `Spec => []OneEpisodePerContent` |
| | `EarnedCorroboration` | `Spec => []CorroborationEarned` |
| | `RetryStaysPossible` | `Spec => []RetryNotSwallowed` |
| | `SomethingKnown` | `Spec => []KnowledgeKept` |
| | `SupersededFairly` | `Spec => SupersessionEarned` |
| | `UsesTheQueue` | `Spec => Queue!Safety`, the same safety part, from the producers' side |
| `EvidenceLedger_proofs` | `AuditNeverRefuses` | `Spec => []AuditAccepts` |
| | `TypeCorrect` | `Spec => []TypeOK` |
| | `TruthfulAnswers` | `Spec => []AnswersTruthful` |
| | `EarnedClearance` | `Spec => ClearEarned` |
| | `ImplementsAuthority` | `Spec => Authority!Safety`, the specification `CaseAuthority` |

**Coordinator.** `NoForgottenScope` is not inductive: a success clears the retry
of its scope, which is safe only if a store that came during the run waits
elsewhere. `RunInv` says so, and ties `runningScope` to the drain loop. `StopInv`
says that after `stop()` nothing is queued and nothing that queues is armed, so
that no run begins, which the refinement needs (orphaned discovery timers may be
armed: `catchUp()` returns when it finds `stopped`); `ResolvedInv` adds what the promise of `stop()` waits for.
`GiveUpEarned` needs `AttemptInv`: the attempt number of a queued or armed retry
never runs ahead of the failures since the last success. The refinement maps
`wanted` to the scopes owed a run, `serving` to `runningScope` and `halted` to
`stopped`; a drain step that ends one run and begins another in one turn is a
single `Begin` of the abstract worker.

**Publication.** The counters agree only after `markPublished`, so the argument
follows one publication: if no INCR took effect since its `compileVersion` was
read (`since = 0`), then what is marked is in the snapshot while it renders and
on the wiki while it records (`CoverInv`). With several processes this needs the
compile lock: one renders at a time, and what it read contains what the wiki
already shows (`LockInv`), so the wiki only grows. `GraphInv` keeps all of this
inside what the graph has committed. The refinement follows: publishing is
`Refresh`, or a stutter when nothing is new. `LagTracked` needs the converse: an
INCR that comes after `publish()` has read the counters leaves something behind
that will look again (a reply to be handled, a debounce, the queued flag or a
timer; `Tracked`, `Awaited`). With several processes the counters are no measure
of one process's work: another one may serve what this one counted, or move the
published counter back over what was served. What a process owes is the change it
counted itself. When its publication finds the counters equal, that change is
on the wiki by `CleanMeansPublished`, and it stays there because the wiki only
grows (`WikiKept`); so the steps of other processes can only take from what a
process lacks, and `TrackInv` is kept process by process (`TrackElsewhere`,
`OtherProcess`). Only for a process alone does the invariant speak of the
counters themselves: a counter moved back by another process is seen by nobody
until a catch-up.

**Compiles.** Under `~mistaken`, `HoldInv` says that whoever holds the lock is the
one whose inode the lock file is and keeps it fresh, and that whoever a contender
found stale is over, so that what it goes on to break is nobody's. `BornInv` says
that names differ and later ones sort after earlier ones; `WholeInv` that a tree
follows its own compile's progress and nobody else touches it; `OrderInv` that
later names have later contents and that the published generation stays, which is
why a reader that falls back never goes back. The refinement maps `served` to what
`ServedTree` shows: a commit to the graph leaves it alone, and any other step that
changes it, a pointer as much as a fallback to the newest generation, shows a newer
reading of the same graph and is a `Refresh`. `TimeoutEarned` counts: a contender
that never met a live holder began to wait on a lock nobody refreshes, so its
waiting is at most the lock's age, until the lock is stale and the contender breaks
it (`WaitInv`). It needs `StaleAfter <= Timeout`, which is the code's own choice of
its two constants (`wiki/src/compile.ts:300-304`).

**Signals.** `NoSignalLost` needs that the run's `durable` proposals are applied,
pending or rejected (`LossInv`), and that an approved proposal is removed only after
it was applied. Nothing in the argument mentions the lock: signals survive lost
leases because the acknowledgement is derived from what was made durable, and not
from what was read. `SignalsOwed` is the other half: what is kept (applied, pending
or rejected) only grows, since a removal follows an application and a rejection
is recorded (`KeptMoves`), and every key in it was made of delivered signals
(`SourceInv`), so that no signal is done before it is published. `ConfidenceEarned` needs that every proposal still open
anywhere (in a run, in review, being approved) offers at most one step more than
the proposals already applied to its target (`EarnInv`); applying one adds its key
to the ledger, which makes up for that step. Both hold for any `EngineOf`, hence
also for a project run and a global run that share a consumer name, which no run
instantiates. `ReinforceNeverLowers` is stated while no lease has lapsed and no run
in progress overlaps a global one, because with either it is false: a run writes
what it computed before another wrote. Its proof needs that only the lease's holder
has proposals of a scope (`HolderInv`, which also gives `RunsApart`), that a run in
progress beside a global one is known as overlapped (`OverlapInv`), that what the
others have to apply is not below the confidence there is (`OfferInv`), and that
nothing waits for a reviewer.
`TypeOK` needs `DeliveredInv`: everything read, proposed or pending was delivered.

**Extraction.** `KeptInv` follows a job through the five places it can be in, with
one more dead letter while it is replayed (`replaying`), so that the deletion that
ends a replay cannot remove the last copy. `AttemptInv` says an entry's attempt
count never exceeds the failed attempts of its job, and that the failure a consumer is
about to requeue is counted as well. `HandInv` says that only entries of split jobs are idle while held.
`SoleInv` strengthens `SingleCopy`: of a job that is not split at most one entry is
active, and one that is active leaves room among the dead letters. Active includes
an entry that is in a batch although it is already deleted, because its holder may
still requeue it when its acknowledgement was lost. For the refinement, `Standing`
is the function of the jobs' statuses: every step changes what is known of one job
at most, and for that one job the invariants above leave only the moves of
`AtLeastOnce`. A job is not owed again once it is extracted, because `Status` puts
`done` before everything a stray copy could say.

**Ingestion.** `MarkInv` says that a deduplication key is a lock, held by one call
from its check to its rollback or for good, until it expires under it. `PassInv` and
`FactInv` say that passes are about calls that returned and that facts were stated
and confirmed by two such calls; these cannot have had one key while it lasted,
which gives `CorroborationEarned`: an episode that a failed store left in the graph
and the one of its retry do not confirm each other. For `KnowledgeKept` the invariant is a ranking: order the
facts by when they were first confirmed; a pass sees its rival confirmed and its
own fact not yet, so that what it invalidates has the lower rank of the two and the
highest rank is never invalidated (`RankInv`). `SupersessionEarned` needs what a pass
carries from its reading to its writing: its rival has another object than its own
fact, objects stay what they are, and by the time it invalidates its own fact has
been confirmed, and a confirmation is never taken back (`ChosenInv`). `Queue!Safety`
needs that a call still handing over its job has none yet, and that every worker's
pass is about a job the group has seen (`JobInv`); adding a job before there is the
group is a stutter of the queue.

**Evidence.** That the audit never refuses is an invariant of the history alone,
with `PairInv` (coverage and the case that opened it are neighbours) and `LockInv`
(a capture that counted the edges holds the lock while there is no coverage). Answers are true because
an event is recorded at most once. For the clearance, `ListedInv` says that what
the reader listed was the state of its version, and a settled case stays settled.
The refinement of `CaseAuthority` asks what one more event does to the latest events
(`EventMoves`): it moves its target as its guard allows and nothing else. A
capture appends two, which is one `Cover` with its first case, and no case is
before the coverage (`NoneBeforeCoverage`).

**Only model-checked:** liveness (`QueueDrains`, `ServesEveryChange`,
`BacklogHandled`, `CallsReturn`, `StoredIsExtracted`, and the liveness part of
`ImplementsScopeWork` and `ImplementsAtLeastOnce`): fairness and ENABLED are
beyond the prover. Every invariant and every action property a passing run
checks is also a theorem.

## 5. Not modelled

Of modelled components:

- *Engine.* Supersede, promote, decay and reclass proposals. What they do is a
  handful of graph writes (`core/src/consolidation.ts:1178` invalidates the old
  fact in one transaction and creates its successor in the next), under the
  review and the ledger that are modelled; decay has half-lives in floating
  point. The advisory sorted set of scores, which no decision reads. A proposal
  redelivered together with newer signals has another id (`:634`) and is another
  proposal to the model too: `ConfidenceEarned` counts proposals, not signals.
  Proposals do not expire: operators may set a time to live
  (`redis/src/proposals.ts:11`, off by default), after which an acknowledged
  signal's pending proposal is gone; `NoSignalLost` is about the default.
- *Compiles.* What the pages say; a process that is suspended for longer than the
  lock takes to become stale, so that its own heartbeat is late; clocks of two
  hosts that differ.
- *Extraction.* Queues without `requeue()`, which only tests construct. How many
  attempts a replayed job gets before it is given up again: a replay starts the
  count of the entry anew, but not the observer `DeadLetterEarned` reads.
- *Store path.* Validation, embeddings and the admission shadow, which come
  before the mark or do not change what follows.
- *Facts.* Links between facts, staleness decay, facts written by consolidation;
  abductive hypotheses, which any explicit statement confirms (`core/src/service.ts:1223`).
- *Evidence ledger.* Facets and request parsing; one operation id used for another
  operation; the limits of 200 listed cases and of joined edges; the outbox beyond
  its first row.

Of the other components:

- *Dream pass* (`core/src/dream.ts:154`). It takes a scope's lease and never
  renews it: after 30 s a consolidation run may take the scope while the pass
  still writes. What it writes is a rewriting of facts by a model, of which
  nothing is promised that a lost lease could break.
- *Promotion* (`core/src/promotion-scheduler.ts`). Not wired in, see disagreement 14.
- *Lifecycle, hebbian, anti-entropy.* One timer-driven pass of queries and batched
  writes each. The protected ids are read when the pass plans
  (`core/src/lifecycle.ts:464`), so a memory a newer proposal refers to may be
  archived; archiving is reversible.
- *Memory blocks.* `core/src/blocks.ts:319` reads the version and writes the block
  in separate calls, as `:202` moves it between two stores: two writers with the
  same expected version both succeed. There is no promise to concurrent writers
  that could be checked.
- *Context cache* (`redis/src/cache.ts:61`). The context is written before its
  dependency sets, so an invalidation in between finds nothing to delete; a time to
  live bounds it, and no step of another component waits on it.
- *Episodic buffer.* Add and flush on one stream, without a caller.
- *Admission rules, retrieval, assembler, code index, wiki viewer, reports.* Pure
  functions over large records, ranking in floating point, parsing and rendering:
  a model would repeat the text. *MCP transport, tools, CLI, install.* Wiring and
  input parsing. *Queries, schema, migrations.* Cypher run by the database. *File
  watcher.* It re-indexes a file after its last event; two overlapping re-indexes
  are ordered by the database alone.

## 6. Running it

Each run is `tlc -config <run>.cfg <module>` with the module named in
`PROJECT.json`; none takes more than five minutes. The proofs are
`tlapm <module>_proofs.tla`.
