--------------------------- MODULE WikiPublication ---------------------------
(***************************************************************************)
(* How a change of the memory graph reaches the served wiki: the           *)
(* publication half of ConsolidationCoordinator                            *)
(* (packages/mcp/src/consolidation-coordinator.ts), the two Redis counters *)
(* it keeps (bootstrap.ts), and the compile that replaces the wiki.        *)
(*                                                                         *)
(* Several MCP processes share the graph, the counters and the wiki        *)
(* directory.  One action is one turn of a process's event loop, or one    *)
(* command taking effect at a datastore; a command and the turn that       *)
(* handles its reply are separate steps.  A process may crash between any  *)
(* two of them.  The compile lock is taken to exclude; how well the lock   *)
(* file does so is another module's question.                              *)
(***************************************************************************)
EXTENDS Naturals, FiniteSets

CONSTANTS Procs,       \* MCP processes
          Changes,     \* graph changes: stores, runs that applied something
          None,        \* "no process"
          MaxRetries,  \* config.maxRetries
          Sweepers,    \* bound: processes whose catch-up comes round
          MaxStarts    \* bound: process starts, the first ones included

ASSUME ConstAssumption ==
  /\ IsFiniteSet(Procs)
  /\ None \notin Procs
  /\ Sweepers \subseteq Procs
  /\ MaxRetries \in Nat
  /\ MaxStarts \in Nat

\* Shared by the processes.
VARIABLES
  hook,       \* hook[c]: how far the post-store hook of change c is
  owner,      \* owner[c]: the process that committed c
  lag,        \* generation:dirty - generation:published
  wiki,       \* changes the active wiki generation shows
  marked,     \* observer: changes whose INCR of generation:dirty took effect
  starts      \* process starts so far

\* Kept by each process.
VARIABLES
  proc,       \* "down", "up", or "stopped" after stop()
  needed,     \* publicationNeededSince # null
  lastError,  \* publicationLastError # null
  exhausted,  \* publicationExhausted
  queued,     \* publicationQueued
  debounce,   \* publicationDebounceTimer # null
  handle,     \* attempt of the timer in publicationRetryTimer, 0 if null
  orphans,    \* orphans[p][a]: armed retry timers of attempt a whose handle
              \* publicationRetryTimer no longer holds
  pubPc,      \* where publish() is; "idle" iff publicationPromise = null
  attempt,    \* its argument
  behind,     \* what the last reply to versions() said: dirty > published
  since,      \* INCRs that took effect after compileVersion was read
  snapshot,   \* changes the compile in progress has read from the graph
  startPc,    \* the startup timer and recoverPublicationIntent()
  catchPc     \* where catchUp() is

durable == <<hook, owner, lag, wiki, marked, starts>>
healthVars == <<needed, lastError, exhausted>>
timerVars == <<debounce, handle, orphans>>
publishVars == <<queued, pubPc, attempt, behind, since, snapshot>>
loopVars == <<startPc, catchPc>>
vars == <<durable, proc, healthVars, timerVars, publishVars, loopVars>>

HookStages == {"none", "hook", "marking", "replying", "done", "lost"}
PublishStages == {"idle", "versions", "decide", "compile", "render",
                  "record", "latest", "settle"}
NoOrphans == [a \in 1..MaxRetries |-> 0]

TypeOK ==
  /\ hook \in [Changes -> HookStages]
  /\ owner \in [Changes -> Procs \cup {None}]
  /\ lag \in Nat
  /\ wiki \subseteq Changes
  /\ marked \subseteq Changes
  /\ starts \in 0..MaxStarts
  /\ proc \in [Procs -> {"down", "up", "stopped"}]
  /\ needed \in [Procs -> BOOLEAN]
  /\ lastError \in [Procs -> BOOLEAN]
  /\ exhausted \in [Procs -> BOOLEAN]
  /\ queued \in [Procs -> BOOLEAN]
  /\ debounce \in [Procs -> BOOLEAN]
  /\ handle \in [Procs -> 0..MaxRetries]
  /\ orphans \in [Procs -> [1..MaxRetries -> Nat]]
  /\ pubPc \in [Procs -> PublishStages]
  /\ attempt \in [Procs -> 0..MaxRetries]
  /\ behind \in [Procs -> BOOLEAN]
  /\ since \in [Procs -> Nat]
  /\ snapshot \in [Procs -> SUBSET Changes]
  /\ startPc \in [Procs -> {"armed", "recover", "behind", "done"}]
  /\ catchPc \in [Procs -> {"idle", "discover", "marking", "replying"}]

Init ==
  /\ hook = [c \in Changes |-> "none"]
  /\ owner = [c \in Changes |-> None]
  /\ lag = 0 /\ wiki = {} /\ marked = {} /\ starts = 0
  /\ proc = [p \in Procs |-> "down"]
  /\ needed = [p \in Procs |-> FALSE]
  /\ lastError = [p \in Procs |-> FALSE]
  /\ exhausted = [p \in Procs |-> FALSE]
  /\ queued = [p \in Procs |-> FALSE]
  /\ debounce = [p \in Procs |-> FALSE]
  /\ handle = [p \in Procs |-> 0]
  /\ orphans = [p \in Procs |-> NoOrphans]
  /\ pubPc = [p \in Procs |-> "idle"]
  /\ attempt = [p \in Procs |-> 0]
  /\ behind = [p \in Procs |-> FALSE]
  /\ since = [p \in Procs |-> 0]
  /\ snapshot = [p \in Procs |-> {}]
  /\ startPc = [p \in Procs |-> "done"]
  /\ catchPc = [p \in Procs |-> "idle"]

Running(p) == proc[p] = "up"
Alive(p) == proc[p] # "down"
Committed == {c \in Changes : hook[c] # "none"}

-----------------------------------------------------------------------------
(* Marking the wiki dirty.                                                 *)

CapturedUntilCompiled(p) == pubPc[p] \in {"decide", "compile"}  \* mutant
\* INCR memberry:wiki:generation:dirty takes effect.  A publication that has
\* read its compileVersion does not cover it.
Captured(p) == pubPc[p] \in {"decide", "compile", "render", "record"}
Incr ==
  /\ lag' = lag + 1
  /\ since' = [p \in Procs |-> IF Captured(p) THEN since[p] + 1 ELSE since[p]]

ArmUnlessPublishing(p) ==  \* mutant
  debounce' = [debounce EXCEPT ![p] = @ \/ pubPc[p] = "idle"]
\* The debounce timer is replaced, also by a call that outlived stop().
ArmDebounce(p) == debounce' = [debounce EXCEPT ![p] = TRUE]

\* markDirty() rejected: the error is kept, and publish() still scheduled.
PersistFails(p) ==
  /\ lastError' = [lastError EXCEPT ![p] = TRUE]
  /\ exhausted' = [exhausted EXCEPT ![p] = TRUE]
  /\ ArmDebounce(p)

\* The graph commits change c for a store, or for a run of the engine.
Commit(p, c) ==
  /\ Alive(p)
  /\ hook[c] = "none"
  /\ hook' = [hook EXCEPT ![c] = "hook"]
  /\ owner' = [owner EXCEPT ![c] = p]
  /\ UNCHANGED <<lag, wiki, marked, starts, proc, healthVars, timerVars,
                 publishVars, loopVars>>

\* The hook calls schedulePublication(), which stop() has made a no-op.
ScheduleChange(c) ==
  /\ hook[c] = "hook"
  /\ hook' = [hook EXCEPT ![c] = IF Running(owner[c]) THEN "marking" ELSE "done"]
  /\ needed' = [needed EXCEPT ![owner[c]] = Running(owner[c]) \/ @]
  /\ UNCHANGED <<owner, lag, wiki, marked, starts, proc, lastError,
                 exhausted, timerVars, publishVars, loopVars>>

MarkChange(c) ==
  /\ hook[c] = "marking"
  /\ hook' = [hook EXCEPT ![c] = "replying"]
  /\ marked' = marked \cup {c}
  /\ Incr
  /\ UNCHANGED <<owner, wiki, starts, proc, healthVars, timerVars, queued,
                 pubPc, attempt, behind, snapshot, loopVars>>

ChangeMarked(c) ==
  /\ hook[c] = "replying"
  /\ hook' = [hook EXCEPT ![c] = "done"]
  /\ ArmDebounce(owner[c])
  /\ UNCHANGED <<owner, lag, wiki, marked, starts, proc, healthVars, handle,
                 orphans, publishVars, loopVars>>

\* The INCR is rejected, or its reply lost.
MarkChangeFails(c) ==
  /\ hook[c] \in {"marking", "replying"}
  /\ hook' = [hook EXCEPT ![c] = "done"]
  /\ PersistFails(owner[c])
  /\ UNCHANGED <<owner, lag, wiki, marked, starts, proc, needed, handle,
                 orphans, publishVars, loopVars>>

-----------------------------------------------------------------------------
(* publish().                                                              *)

\* publish(a) up to its first await.
Publish(p, a) ==
  LET begins == Running(p) /\ pubPc[p] = "idle" IN
  /\ queued' = [queued EXCEPT ![p] = @ \/ (Running(p) /\ ~begins)]
  /\ pubPc' = [pubPc EXCEPT ![p] = IF begins THEN "versions" ELSE @]
  /\ attempt' = [attempt EXCEPT ![p] = IF begins THEN a ELSE @]
  /\ UNCHANGED <<behind, since, snapshot>>

\* The outer finally block, with again as publicationQueued.
Settle(p, again) ==
  LET reruns == again /\ handle[p] = 0 /\ Running(p) IN
  /\ queued' = [queued EXCEPT ![p] = again /\ ~reruns]
  /\ pubPc' = [pubPc EXCEPT ![p] = IF reruns THEN "versions" ELSE "idle"]
  /\ attempt' = [attempt EXCEPT ![p] = 0]
  /\ since' = [since EXCEPT ![p] = 0]
  /\ snapshot' = [snapshot EXCEPT ![p] = {}]
  /\ behind' = [behind EXCEPT ![p] = FALSE]

DebounceFires(p) ==
  /\ debounce[p]
  /\ debounce' = [debounce EXCEPT ![p] = FALSE]
  /\ Publish(p, 0)
  /\ UNCHANGED <<durable, proc, healthVars, handle, orphans, loopVars>>

RetryFires(p) ==
  /\ handle[p] # 0
  /\ handle' = [handle EXCEPT ![p] = 0]
  /\ Publish(p, handle[p])
  /\ UNCHANGED <<durable, proc, healthVars, debounce, orphans, loopVars>>

\* The armed timer publicationRetryTimer holds, if any, loses its handle.
Orphan(p, left) ==
  [left EXCEPT ![p] = [a \in 1..MaxRetries |->
     IF a = handle[p] THEN @[a] + 1 ELSE @[a]]]

\* A timer whose handle was overwritten fires: it nulls the newer handle.
OrphanFires(p, a) ==
  /\ orphans[p][a] > 0
  /\ orphans' = Orphan(p, [orphans EXCEPT ![p][a] = @ - 1])
  /\ handle' = [handle EXCEPT ![p] = 0]
  /\ Publish(p, a)
  /\ UNCHANGED <<durable, proc, healthVars, debounce, loopVars>>

\* MGET takes effect; compileVersion is the dirty counter it reads.
ReadVersions(p) ==
  /\ pubPc[p] = "versions"
  /\ pubPc' = [pubPc EXCEPT ![p] = "decide"]
  /\ behind' = [behind EXCEPT ![p] = lag > 0]
  /\ since' = [since EXCEPT ![p] = 0]
  /\ UNCHANGED <<durable, proc, healthVars, timerVars, queued, attempt,
                 snapshot, loopVars>>

\* dirty <= published: nothing to do, and every error is forgotten.
AlreadyPublished(p) ==
  /\ pubPc[p] = "decide" /\ ~behind[p]
  /\ needed' = [needed EXCEPT ![p] = FALSE]
  /\ lastError' = [lastError EXCEPT ![p] = FALSE]
  /\ exhausted' = [exhausted EXCEPT ![p] = FALSE]
  /\ Settle(p, queued[p])
  /\ UNCHANGED <<durable, proc, timerVars, loopVars>>

CallCompile(p) ==
  /\ pubPc[p] = "decide" /\ behind[p]
  /\ pubPc' = [pubPc EXCEPT ![p] = "compile"]
  /\ UNCHANGED <<durable, proc, healthVars, timerVars, queued, attempt, behind,
                 since, snapshot, loopVars>>

NoCompileLock == TRUE  \* mutant
\* The compile lock is free: .compile.lock is created, the graph read.
CompileLockFree == \A q \in Procs : pubPc[q] # "render"
CompileStarts(p) ==
  /\ pubPc[p] = "compile"
  /\ CompileLockFree
  /\ pubPc' = [pubPc EXCEPT ![p] = "render"]
  /\ snapshot' = [snapshot EXCEPT ![p] = Committed]
  /\ UNCHANGED <<durable, proc, healthVars, timerVars, queued, attempt, behind,
                 since, loopVars>>

\* The active pointer is renamed.  The compile's later graph queries may also
\* have seen changes committed while it ran.
CompilePublishes(p) ==
  /\ pubPc[p] = "render"
  /\ \E late \in SUBSET (Committed \ snapshot[p]) :
       wiki' = snapshot[p] \cup late
  /\ pubPc' = [pubPc EXCEPT ![p] = "record"]
  /\ snapshot' = [snapshot EXCEPT ![p] = {}]
  /\ UNCHANGED <<hook, owner, lag, marked, starts, proc, healthVars, timerVars,
                 queued, attempt, behind, since, loopVars>>

NothingUnpublished(p) == 0  \* mutant
\* SET generation:published compileVersion takes effect.
Unpublished(p) == since[p]
MarkPublished(p) ==
  /\ pubPc[p] = "record"
  /\ lag' = Unpublished(p)
  /\ pubPc' = [pubPc EXCEPT ![p] = "latest"]
  /\ since' = [since EXCEPT ![p] = 0]
  /\ UNCHANGED <<hook, owner, wiki, marked, starts, proc, healthVars, timerVars,
                 queued, attempt, behind, snapshot, loopVars>>

ReadLatest(p) ==
  /\ pubPc[p] = "latest"
  /\ pubPc' = [pubPc EXCEPT ![p] = "settle"]
  /\ behind' = [behind EXCEPT ![p] = lag > 0]
  /\ UNCHANGED <<durable, proc, healthVars, timerVars, queued, attempt, since,
                 snapshot, loopVars>>

PublishSucceeds(p) ==
  LET again == queued[p] \/ behind[p] IN
  /\ pubPc[p] = "settle"
  /\ lastError' = [lastError EXCEPT ![p] = FALSE]
  /\ exhausted' = [exhausted EXCEPT ![p] = FALSE]
  /\ needed' = [needed EXCEPT ![p] = @ /\ again]
  /\ Settle(p, again)
  /\ UNCHANGED <<durable, proc, timerVars, loopVars>>

GivesUpLate(p) == attempt[p] > MaxRetries  \* mutant
\* A datastore command or the compile rejects: the next attempt is put on a
\* timer, over whatever timer publicationRetryTimer held, or given up.
GivesUp(p) == attempt[p] + 1 > MaxRetries
PublishFails(p) ==
  /\ pubPc[p] \in {"versions", "compile", "render", "record", "latest"}
  /\ lastError' = [lastError EXCEPT ![p] = TRUE]
  /\ exhausted' = [exhausted EXCEPT ![p] = @ \/ GivesUp(p)]
  /\ IF GivesUp(p)
     THEN UNCHANGED <<handle, orphans>>
     ELSE /\ handle' = [handle EXCEPT ![p] = attempt[p] + 1]
          /\ orphans' = Orphan(p, orphans)
  /\ Settle(p, FALSE)
  /\ UNCHANGED <<durable, proc, needed, debounce, loopVars>>

-----------------------------------------------------------------------------
(* Startup, catch-up, shutdown.                                            *)

Start(p) ==
  /\ proc[p] = "down" /\ starts < MaxStarts
  /\ starts' = starts + 1
  /\ proc' = [proc EXCEPT ![p] = "up"]
  /\ startPc' = [startPc EXCEPT ![p] = "armed"]
  /\ UNCHANGED <<hook, owner, lag, wiki, marked, healthVars, timerVars,
                 publishVars, catchPc>>

StartupFires(p) ==
  /\ startPc[p] = "armed"
  /\ startPc' = [startPc EXCEPT ![p] = "recover"]
  /\ UNCHANGED <<durable, proc, healthVars, timerVars, publishVars, catchPc>>

RecoveryReads(p) ==
  /\ startPc[p] = "recover"
  /\ startPc' = [startPc EXCEPT ![p] = IF lag > 0 THEN "behind" ELSE "done"]
  /\ UNCHANGED <<durable, proc, healthVars, timerVars, publishVars, catchPc>>

RecoveryPublishes(p) ==
  /\ startPc[p] = "behind"
  /\ startPc' = [startPc EXCEPT ![p] = "done"]
  /\ needed' = [needed EXCEPT ![p] = TRUE]
  /\ Publish(p, 0)
  /\ UNCHANGED <<durable, proc, lastError, exhausted, timerVars, catchPc>>

RecoveryFails(p) ==
  /\ startPc[p] = "recover"
  /\ startPc' = [startPc EXCEPT ![p] = "done"]
  /\ lastError' = [lastError EXCEPT ![p] = TRUE]
  /\ exhausted' = [exhausted EXCEPT ![p] = TRUE]
  /\ UNCHANGED <<durable, proc, needed, timerVars, publishVars, catchPc>>

\* catchUp(), from the startup timer, the interval or a discovery retry.
CatchUp(p) ==
  /\ p \in Sweepers
  /\ Running(p) /\ catchPc[p] = "idle"
  /\ catchPc' = [catchPc EXCEPT ![p] = "discover"]
  /\ UNCHANGED <<durable, proc, healthVars, timerVars, publishVars, startPc>>

UntendedIfHealthy(p) ==  \* mutant
  ~exhausted[p] /\ pubPc[p] = "idle" /\ handle[p] = 0 /\ ~debounce[p]
Untended(p) == pubPc[p] = "idle" /\ handle[p] = 0 /\ ~debounce[p]

ReconcilesIfDirty(p) ==  \* mutant
  Untended(p) /\ ~needed[p] /\ Running(p) /\ lag > 0
\* Nothing is known to need publication: the wiki is marked dirty anyway.
Reconciles(p) == Untended(p) /\ ~needed[p] /\ Running(p)
CatchUpReconciles(p) ==
  /\ catchPc[p] = "discover" /\ Reconciles(p)
  /\ catchPc' = [catchPc EXCEPT ![p] = "marking"]
  /\ needed' = [needed EXCEPT ![p] = TRUE]
  /\ UNCHANGED <<durable, proc, lastError, exhausted, timerVars, publishVars,
                 startPc>>

CatchUpMarks(p) ==
  /\ catchPc[p] = "marking"
  /\ catchPc' = [catchPc EXCEPT ![p] = "replying"]
  /\ Incr
  /\ UNCHANGED <<hook, owner, wiki, marked, starts, proc, healthVars, timerVars,
                 queued, pubPc, attempt, behind, snapshot, startPc>>

CatchUpMarked(p) ==
  /\ catchPc[p] = "replying"
  /\ catchPc' = [catchPc EXCEPT ![p] = "idle"]
  /\ ArmDebounce(p)
  /\ UNCHANGED <<durable, proc, healthVars, handle, orphans, publishVars,
                 startPc>>

CatchUpMarkFails(p) ==
  /\ catchPc[p] \in {"marking", "replying"}
  /\ catchPc' = [catchPc EXCEPT ![p] = "idle"]
  /\ PersistFails(p)
  /\ UNCHANGED <<durable, proc, needed, handle, orphans, publishVars, startPc>>

\* Publication is needed and nobody tends to it.
CatchUpPublishes(p) ==
  /\ catchPc[p] = "discover" /\ ~Reconciles(p)
  /\ catchPc' = [catchPc EXCEPT ![p] = "idle"]
  /\ IF needed[p] /\ Untended(p)
     THEN Publish(p, 0)
     ELSE UNCHANGED publishVars
  /\ UNCHANGED <<durable, proc, healthVars, timerVars, startPc>>

DiscoverFails(p) ==
  /\ catchPc[p] = "discover"
  /\ catchPc' = [catchPc EXCEPT ![p] = "idle"]
  /\ UNCHANGED <<durable, proc, healthVars, timerVars, publishVars, startPc>>

\* stop() clears the timers it holds; calls in flight go on.
Stop(p) ==
  /\ Running(p) /\ starts < MaxStarts
  /\ proc' = [proc EXCEPT ![p] = "stopped"]
  /\ debounce' = [debounce EXCEPT ![p] = FALSE]
  /\ handle' = [handle EXCEPT ![p] = 0]
  /\ startPc' = [startPc EXCEPT ![p] = IF @ = "armed" THEN "done" ELSE @]
  /\ UNCHANGED <<durable, healthVars, orphans, publishVars, catchPc>>

\* The process ends, by a crash or after stop(): only the durable state stays.
Exit(p) ==
  /\ Alive(p) /\ starts < MaxStarts
  /\ proc' = [proc EXCEPT ![p] = "down"]
  /\ hook' = [c \in Changes |->
       IF owner[c] = p /\ hook[c] # "done" THEN "lost" ELSE hook[c]]
  /\ needed' = [needed EXCEPT ![p] = FALSE]
  /\ lastError' = [lastError EXCEPT ![p] = FALSE]
  /\ exhausted' = [exhausted EXCEPT ![p] = FALSE]
  /\ queued' = [queued EXCEPT ![p] = FALSE]
  /\ debounce' = [debounce EXCEPT ![p] = FALSE]
  /\ handle' = [handle EXCEPT ![p] = 0]
  /\ orphans' = [orphans EXCEPT ![p] = NoOrphans]
  /\ pubPc' = [pubPc EXCEPT ![p] = "idle"]
  /\ attempt' = [attempt EXCEPT ![p] = 0]
  /\ behind' = [behind EXCEPT ![p] = FALSE]
  /\ since' = [since EXCEPT ![p] = 0]
  /\ snapshot' = [snapshot EXCEPT ![p] = {}]
  /\ startPc' = [startPc EXCEPT ![p] = "done"]
  /\ catchPc' = [catchPc EXCEPT ![p] = "idle"]
  /\ UNCHANGED <<owner, lag, wiki, marked, starts>>

-----------------------------------------------------------------------------
HookStep(c) == \/ ScheduleChange(c) \/ MarkChange(c) \/ ChangeMarked(c)
               \/ MarkChangeFails(c)

TimerStep(p) == \/ DebounceFires(p) \/ RetryFires(p) \/ StartupFires(p)
                \/ \E a \in 1..MaxRetries : OrphanFires(p, a)

PublishStep(p) ==
  \/ ReadVersions(p) \/ AlreadyPublished(p) \/ CallCompile(p)
  \/ CompileStarts(p) \/ CompilePublishes(p) \/ MarkPublished(p)
  \/ ReadLatest(p) \/ PublishSucceeds(p) \/ PublishFails(p)

CatchUpStep(p) ==
  \/ RecoveryReads(p) \/ RecoveryPublishes(p) \/ RecoveryFails(p)
  \/ CatchUp(p) \/ CatchUpReconciles(p) \/ CatchUpMarks(p) \/ CatchUpMarked(p)
  \/ CatchUpMarkFails(p) \/ CatchUpPublishes(p) \/ DiscoverFails(p)

Next ==
  \/ \E c \in Changes : HookStep(c) \/ \E p \in Procs : Commit(p, c)
  \/ \E p \in Procs : \/ TimerStep(p) \/ PublishStep(p) \/ CatchUpStep(p)
                      \/ Start(p) \/ Stop(p) \/ Exit(p)

Spec == Init /\ [][Next]_vars

\* A stopped process exits and is started again, timers fire and replies are
\* handled.  Publication does not fail for ever, and of the catch-ups that keep
\* coming some get an answer to the discovery and to the INCR.
Fairness ==
  /\ <>[][\A p \in Procs : ~PublishFails(p)]_vars
  /\ \A p \in Procs :
       /\ WF_vars(Start(p)) /\ WF_vars(~Running(p) /\ Exit(p))
       /\ WF_vars(TimerStep(p)) /\ WF_vars(PublishStep(p))
       /\ WF_vars(CatchUpStep(p))
       /\ SF_vars(CatchUpReconciles(p) \/ CatchUpPublishes(p))
       /\ SF_vars(CatchUpMarks(p))

FairSpec == Spec /\ Fairness

-----------------------------------------------------------------------------
(* Properties.                                                             *)

\* Counters that agree mean a wiki that is current: whatever stores, catch-ups,
\* retries, crashes and other processes do between publish()'s read of the
\* dirty counter and its write of the published one, a change counted in
\* generation:dirty is on the wiki once the two are equal.
CleanMeansPublished == lag = 0 => marked \subseteq wiki

\* A lag is never forgotten: while a change a process counted is not on the
\* wiki - and, for a process alone, whatever makes the counters differ - the
\* process, once it has finished recovering, either has something under way
\* that will look at them again or reports the failure in its health
\* (publicationNeededSince, publicationExhausted).
Unserved(p) == \E c \in marked \ wiki : owner[c] = p
Lags(p) == Unserved(p) \/ (lag > 0 /\ Procs = {p})
PublicationTracked ==
  \A p \in Procs :
    Running(p) /\ startPc[p] = "done" /\ Lags(p) =>
      \/ needed[p] \/ exhausted[p] \/ ~Untended(p)
      \/ \E a \in 1..MaxRetries : orphans[p][a] > 0
      \/ catchPc[p] = "replying"
      \/ \E c \in Changes : hook[c] = "replying" /\ owner[c] = p

\* Several coordinators publishing into one directory implement one lagging
\* view of the graph: the wiki never goes back to an older state, even when
\* compiles of two processes and their writes of the published counter cross.
View == INSTANCE ServedView WITH Changes <- Changes,
                                 committed <- Committed, served <- wiki
ImplementsServedView == View!Safety

\* Every committed change is served in the end, although the process may die
\* between the graph's commit and the INCR, or give up on its retries.
ServesEveryChange == View!Liveness

\* "Debounced, retrying publication hook for every successful graph store"
\* (consolidation-coordinator.ts:245): publish() does not forget that it is
\* needed, with no timer left to run it again, while a change whose hook has
\* returned is not on the wiki.
NeedKeptUntilServed ==
  [][\A p \in Procs :
       needed[p] /\ ~needed'[p] /\ Untended(p)' =>
         \A c \in Changes :
           hook[c] = "done" /\ owner[c] = p => c \in wiki]_vars
=============================================================================
