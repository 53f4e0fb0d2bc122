----------------------- MODULE WikiPublication_proofs -----------------------
(***************************************************************************)
(* Proofs about WikiPublication, for any number of processes, changes and  *)
(* retries: the counters never claim more than the wiki shows, and the     *)
(* processes together implement one monotone view of the graph.  One       *)
(* process never forgets that its wiki lags.                               *)
(***************************************************************************)
EXTENDS WikiPublication, TLAPS

(***************************************************************************)
(* Type correctness: no retry timer carries an attempt beyond maxRetries,  *)
(* and no counter goes below zero.                                         *)
(***************************************************************************)

LEMMA TypeInit == ASSUME Init PROVE TypeOK
BY ConstAssumption DEF Init, TypeOK, HookStages, PublishStages, NoOrphans

\* Dropping the handle of an armed timer keeps the timers well typed.
LEMMA TypeOrphan ==
  ASSUME NEW p \in Procs, NEW left \in [Procs -> [1..MaxRetries -> Nat]]
  PROVE  Orphan(p, left) \in [Procs -> [1..MaxRetries -> Nat]]
<1> DEFINE count == [a \in 1..MaxRetries |->
                       IF a = handle[p] THEN left[p][a] + 1 ELSE left[p][a]]
<1>1. \A a \in 1..MaxRetries : left[p][a] \in Nat
  OBVIOUS
<1>2. count \in [1..MaxRetries -> Nat]
  BY <1>1
<1>3. Orphan(p, left) = [left EXCEPT ![p] = count]
  BY DEF Orphan
<1> QED
  <2> HIDE DEF count
  <2> QED BY <1>2, <1>3

\* Exactly the committed changes have an owner.
OwnerInv == \A c \in Changes : hook[c] # "none" <=> owner[c] \in Procs

LEMMA TypeHook ==
  ASSUME TypeOK, OwnerInv, NEW c \in Changes, HookStep(c)
  PROVE  TypeOK'
<1>1. CASE ScheduleChange(c)
  BY <1>1 DEF ScheduleChange, TypeOK, OwnerInv, HookStages, Running,
     timerVars, publishVars, loopVars
<1>2. CASE MarkChange(c)
  BY <1>2 DEF MarkChange, Incr, TypeOK, HookStages, healthVars, timerVars,
     loopVars
<1>3. CASE ChangeMarked(c)
  BY <1>3 DEF ChangeMarked, ArmDebounce, TypeOK, OwnerInv, HookStages,
     healthVars, publishVars, loopVars
<1>4. CASE MarkChangeFails(c)
  BY <1>4 DEF MarkChangeFails, PersistFails, ArmDebounce, TypeOK, OwnerInv,
     HookStages, publishVars, loopVars
<1> QED BY <1>1, <1>2, <1>3, <1>4 DEF HookStep

LEMMA TypeCommit ==
  ASSUME TypeOK, NEW p \in Procs, NEW c \in Changes, Commit(p, c)
  PROVE  TypeOK'
BY DEF Commit, TypeOK, HookStages, healthVars, timerVars, publishVars, loopVars

\* publish() leaves its variables well typed.
LEMMA TypePublish ==
  ASSUME TypeOK, NEW p \in Procs, NEW a \in 0..MaxRetries, Publish(p, a)
  PROVE  /\ queued' \in [Procs -> BOOLEAN]
         /\ pubPc' \in [Procs -> PublishStages]
         /\ attempt' \in [Procs -> 0..MaxRetries]
         /\ UNCHANGED <<behind, since, snapshot>>
BY DEF Publish, TypeOK, PublishStages, Running

LEMMA TypeSettle ==
  ASSUME TypeOK, NEW p \in Procs, NEW again \in BOOLEAN, Settle(p, again)
  PROVE  /\ queued' \in [Procs -> BOOLEAN]
         /\ pubPc' \in [Procs -> PublishStages]
         /\ attempt' \in [Procs -> 0..MaxRetries]
         /\ behind' \in [Procs -> BOOLEAN]
         /\ since' \in [Procs -> Nat]
         /\ snapshot' \in [Procs -> SUBSET Changes]
BY ConstAssumption DEF Settle, TypeOK, PublishStages, Running

LEMMA TypeTimer ==
  ASSUME TypeOK, NEW p \in Procs, TimerStep(p)
  PROVE  TypeOK'
<1>0. 0 \in 0..MaxRetries
  BY ConstAssumption
<1>1. CASE DebounceFires(p)
  BY <1>0, <1>1, TypePublish
     DEF DebounceFires, TypeOK, durable, healthVars, loopVars
<1>2. CASE RetryFires(p)
  <2>1. handle[p] \in 0..MaxRetries
    BY DEF TypeOK
  <2> QED BY <1>0, <1>2, <2>1, TypePublish
          DEF RetryFires, TypeOK, durable, healthVars, loopVars
<1>3. CASE StartupFires(p)
  BY <1>3 DEF StartupFires, TypeOK, durable, healthVars, timerVars, publishVars
<1>4. ASSUME NEW a \in 1..MaxRetries, OrphanFires(p, a)
      PROVE  TypeOK'
  <2>1. orphans' \in [Procs -> [1..MaxRetries -> Nat]]
    <3>1. [orphans EXCEPT ![p][a] = @ - 1] \in [Procs -> [1..MaxRetries -> Nat]]
      BY <1>4, ConstAssumption DEF OrphanFires, TypeOK
    <3> QED BY <1>4, <3>1, TypeOrphan DEF OrphanFires
  <2>2. a \in 0..MaxRetries
    OBVIOUS
  <2>3. Publish(p, a)
    BY <1>4 DEF OrphanFires
  <2> QED BY <1>0, <1>4, <2>1, <2>2, <2>3, TypePublish
          DEF OrphanFires, TypeOK, durable, healthVars, loopVars
<1> QED BY <1>1, <1>2, <1>3, <1>4 DEF TimerStep

LEMMA TypeFails ==
  ASSUME TypeOK, NEW p \in Procs, PublishFails(p)
  PROVE  TypeOK'
<1>1. /\ handle' \in [Procs -> 0..MaxRetries]
      /\ orphans' \in [Procs -> [1..MaxRetries -> Nat]]
  <2>1. CASE GivesUp(p)
    BY <2>1 DEF PublishFails, TypeOK
  <2>2. CASE ~GivesUp(p)
    <3>1. attempt[p] + 1 \in 0..MaxRetries
      BY <2>2, ConstAssumption DEF GivesUp, TypeOK
    <3>2. Orphan(p, orphans) \in [Procs -> [1..MaxRetries -> Nat]]
      BY TypeOrphan DEF TypeOK
    <3> QED BY <2>2, <3>1, <3>2 DEF PublishFails, TypeOK
  <2> QED BY <2>1, <2>2
<1>2. Settle(p, FALSE)
  BY DEF PublishFails
<1>3. exhausted' \in [Procs -> BOOLEAN]
  BY DEF PublishFails, TypeOK, GivesUp
<1> QED BY <1>1, <1>2, <1>3, TypeSettle
        DEF PublishFails, TypeOK, durable, loopVars

LEMMA TypePublication ==
  ASSUME TypeOK, NEW p \in Procs, PublishStep(p)
  PROVE  TypeOK'
<1>1. CASE ReadVersions(p)
  BY <1>1 DEF ReadVersions, TypeOK, PublishStages, durable, healthVars,
     timerVars, loopVars
<1>2. CASE AlreadyPublished(p)
  <2>1. queued[p] \in BOOLEAN /\ Settle(p, queued[p])
    BY <1>2 DEF TypeOK, AlreadyPublished
  <2> QED BY <1>2, <2>1, TypeSettle
          DEF AlreadyPublished, TypeOK, durable, timerVars, loopVars
<1>3. CASE CallCompile(p)
  BY <1>3 DEF CallCompile, TypeOK, PublishStages, durable, healthVars,
     timerVars, loopVars
<1>4. CASE CompileStarts(p)
  BY <1>4 DEF CompileStarts, TypeOK, PublishStages, Committed, durable,
     healthVars, timerVars, loopVars
<1>5. CASE CompilePublishes(p)
  BY <1>5 DEF CompilePublishes, TypeOK, PublishStages, Committed, healthVars,
     timerVars, loopVars
<1>6. CASE MarkPublished(p)
  BY <1>6 DEF MarkPublished, Unpublished, TypeOK, PublishStages, healthVars,
     timerVars, loopVars
<1>7. CASE ReadLatest(p)
  BY <1>7 DEF ReadLatest, TypeOK, PublishStages, durable, healthVars,
     timerVars, loopVars
<1>8. CASE PublishSucceeds(p)
  <2>1. /\ (queued[p] \/ behind[p]) \in BOOLEAN
        /\ Settle(p, queued[p] \/ behind[p])
    BY <1>8 DEF TypeOK, PublishSucceeds
  <2>2. needed' \in [Procs -> BOOLEAN]
    BY <1>8 DEF TypeOK, PublishSucceeds
  <2> QED BY <1>8, <2>1, <2>2, TypeSettle
          DEF PublishSucceeds, TypeOK, durable, timerVars, loopVars
<1>9. CASE PublishFails(p)
  BY <1>9, TypeFails
<1> QED BY <1>1, <1>2, <1>3, <1>4, <1>5, <1>6, <1>7, <1>8, <1>9 DEF PublishStep

LEMMA TypeCatchUp ==
  ASSUME TypeOK, NEW p \in Procs, CatchUpStep(p)
  PROVE  TypeOK'
<1>0. 0 \in 0..MaxRetries
  BY ConstAssumption
<1>1. CASE RecoveryReads(p)
  BY <1>1 DEF RecoveryReads, TypeOK, durable, healthVars, timerVars, publishVars
<1>2. CASE RecoveryPublishes(p)
  BY <1>0, <1>2, TypePublish
     DEF RecoveryPublishes, TypeOK, durable, timerVars
<1>3. CASE RecoveryFails(p)
  BY <1>3 DEF RecoveryFails, TypeOK, durable, timerVars, publishVars
<1>4. CASE CatchUp(p)
  BY <1>4 DEF CatchUp, TypeOK, durable, healthVars, timerVars, publishVars
<1>5. CASE CatchUpReconciles(p)
  BY <1>5 DEF CatchUpReconciles, TypeOK, durable, timerVars, publishVars
<1>6. CASE CatchUpMarks(p)
  BY <1>6 DEF CatchUpMarks, Incr, TypeOK, healthVars, timerVars
<1>7. CASE CatchUpMarked(p)
  BY <1>7 DEF CatchUpMarked, ArmDebounce, TypeOK, durable, healthVars,
     publishVars
<1>8. CASE CatchUpMarkFails(p)
  BY <1>8 DEF CatchUpMarkFails, PersistFails, ArmDebounce, TypeOK, durable,
     publishVars
<1>9. CASE CatchUpPublishes(p)
  <2>1. CASE needed[p] /\ Untended(p)
    BY <1>0, <1>9, <2>1, TypePublish
       DEF CatchUpPublishes, TypeOK, durable, healthVars, timerVars
  <2>2. CASE ~(needed[p] /\ Untended(p))
    BY <1>9, <2>2
       DEF CatchUpPublishes, TypeOK, durable, healthVars, timerVars, publishVars
  <2> QED BY <2>1, <2>2
<1>10. CASE DiscoverFails(p)
  BY <1>10 DEF DiscoverFails, TypeOK, durable, healthVars, timerVars,
     publishVars
<1> QED BY <1>1, <1>2, <1>3, <1>4, <1>5, <1>6, <1>7, <1>8, <1>9, <1>10
        DEF CatchUpStep

LEMMA TypeProcess ==
  ASSUME TypeOK, NEW p \in Procs, Start(p) \/ Stop(p) \/ Exit(p)
  PROVE  TypeOK'
<1>1. CASE Start(p)
  BY <1>1, ConstAssumption
     DEF Start, TypeOK, healthVars, timerVars, publishVars
<1>2. CASE Stop(p)
  BY <1>2, ConstAssumption
     DEF Stop, TypeOK, durable, healthVars, publishVars
<1>3. CASE Exit(p)
  BY <1>3, ConstAssumption
     DEF Exit, TypeOK, NoOrphans, HookStages, PublishStages
<1> QED BY <1>1, <1>2, <1>3

LEMMA TypeNext ==
  ASSUME TypeOK, OwnerInv, [Next]_vars
  PROVE  TypeOK'
<1>1. CASE UNCHANGED vars
  BY <1>1 DEF vars, durable, healthVars, timerVars, publishVars, loopVars, TypeOK
<1>2. CASE Next
  BY <1>2, TypeHook, TypeCommit, TypeTimer, TypePublication, TypeCatchUp,
     TypeProcess DEF Next
<1> QED BY <1>1, <1>2

(***************************************************************************)
(* The inductive invariant behind CleanMeansPublished.  A publication that *)
(* has read compileVersion will write a lag of since[p]; if that is zero,  *)
(* every change marked so far must be in what it has read from the graph   *)
(* (render) or on the wiki (record).  For the second to survive the        *)
(* compile of another process, the compile lock has to make every compile  *)
(* start from a graph at least as new as the wiki it replaces.             *)
(***************************************************************************)

GraphInv == /\ OwnerInv
            /\ wiki \subseteq Committed
            /\ marked \subseteq Committed
            /\ \A p \in Procs : snapshot[p] \subseteq Committed

LockInv == /\ \A p, q \in Procs :
                pubPc[p] = "render" /\ pubPc[q] = "render" => p = q
           /\ \A p \in Procs : pubPc[p] = "render" => wiki \subseteq snapshot[p]

CoverInv ==
  \A p \in Procs : since[p] = 0 =>
    /\ pubPc[p] = "render" => marked \subseteq snapshot[p]
    /\ pubPc[p] = "record" => marked \subseteq wiki

PubInv == GraphInv /\ LockInv /\ CoverInv /\ CleanMeansPublished

LEMMA PubInit == ASSUME Init PROVE PubInv
BY ConstAssumption DEF Init, PubInv, GraphInv, OwnerInv, LockInv, CoverInv, CleanMeansPublished,
   Committed

\* What most steps have in common: the graph, the counters and the wiki stay,
\* and no publication enters or moves within the stages the invariant is about.
Quiet ==
  /\ UNCHANGED <<wiki, marked, lag>>
  /\ Committed' = Committed
  /\ OwnerInv'
  /\ \A p \in Procs : snapshot[p]' \subseteq snapshot[p]
  /\ \A p \in Procs : pubPc[p]' \in {"render", "record"} =>
       pubPc[p]' = pubPc[p] /\ since[p]' = since[p] /\ snapshot[p]' = snapshot[p]

LEMMA QuietStep ==
  ASSUME TypeOK, PubInv, Quiet
  PROVE  PubInv'
<1>1. GraphInv'
  BY DEF Quiet, PubInv, GraphInv
<1>2. LockInv'
  BY DEF Quiet, PubInv, LockInv
<1>3. CoverInv'
  BY DEF Quiet, PubInv, CoverInv
<1>4. CleanMeansPublished'
  BY DEF Quiet, PubInv, CleanMeansPublished
<1> QED BY <1>1, <1>2, <1>3, <1>4 DEF PubInv

LEMMA QuietPublish ==
  ASSUME TypeOK, NEW p \in Procs, NEW a \in 0..MaxRetries, PubInv,
         Publish(p, a), UNCHANGED durable
  PROVE  Quiet
BY DEF Publish, Quiet, TypeOK, durable, Committed, PubInv, GraphInv, OwnerInv

LEMMA QuietSettle ==
  ASSUME TypeOK, NEW p \in Procs, NEW again \in BOOLEAN, PubInv,
         Settle(p, again), UNCHANGED durable
  PROVE  Quiet
BY DEF Settle, Quiet, TypeOK, durable, Committed, PubInv, GraphInv, OwnerInv

LEMMA QuietIdle ==
  ASSUME TypeOK, PubInv, UNCHANGED <<durable, publishVars>>
  PROVE  Quiet
BY DEF Quiet, TypeOK, durable, publishVars, Committed, PubInv, GraphInv, OwnerInv

\* An INCR that takes effect, of a change set M that the graph already holds:
\* the lag is no longer zero, nor is the lag any publication will write.
LEMMA IncrStep ==
  ASSUME TypeOK, PubInv, Incr, NEW M \in SUBSET Committed,
         marked' = marked \cup M, Committed' = Committed, OwnerInv',
         UNCHANGED <<wiki, pubPc, snapshot>>
  PROVE  PubInv'
<1>1. GraphInv'
  BY DEF PubInv, GraphInv
<1>2. LockInv'
  BY DEF PubInv, LockInv
<1>3. CoverInv'
  <2> SUFFICES ASSUME NEW p \in Procs, since[p]' = 0,
                      pubPc[p] \in {"render", "record"}
               PROVE  FALSE
    BY DEF CoverInv
  <2> QED BY DEF Incr, Captured, TypeOK
<1>4. CleanMeansPublished'
  BY DEF Incr, CleanMeansPublished, TypeOK
<1> QED BY <1>1, <1>2, <1>3, <1>4 DEF PubInv

LEMMA PubHook ==
  ASSUME TypeOK, PubInv, NEW c \in Changes, HookStep(c)
  PROVE  PubInv'
<1>0. OwnerInv
  BY DEF PubInv, GraphInv
<1>1. CASE ScheduleChange(c)
  <2>1. Committed' = Committed /\ OwnerInv'
    BY <1>0, <1>1 DEF ScheduleChange, Committed, OwnerInv, TypeOK
  <2> QED BY <1>1, <2>1, QuietStep DEF ScheduleChange, Quiet, publishVars
<1>2. CASE MarkChange(c)
  <2>1. Committed' = Committed /\ OwnerInv'
    BY <1>0, <1>2 DEF MarkChange, Committed, OwnerInv, TypeOK
  <2>2. {c} \in SUBSET Committed
    BY <1>2 DEF MarkChange, Committed
  <2> QED BY <1>2, <2>1, <2>2, IncrStep DEF MarkChange
<1>3. CASE ChangeMarked(c)
  <2>1. Committed' = Committed /\ OwnerInv'
    BY <1>0, <1>3 DEF ChangeMarked, Committed, OwnerInv, TypeOK
  <2> QED BY <1>3, <2>1, QuietStep DEF ChangeMarked, Quiet, publishVars
<1>4. CASE MarkChangeFails(c)
  <2>1. Committed' = Committed /\ OwnerInv'
    BY <1>0, <1>4 DEF MarkChangeFails, Committed, OwnerInv, TypeOK
  <2> QED BY <1>4, <2>1, QuietStep DEF MarkChangeFails, Quiet, publishVars
<1> QED BY <1>1, <1>2, <1>3, <1>4 DEF HookStep

LEMMA PubCommit ==
  ASSUME TypeOK, PubInv, NEW p \in Procs, NEW c \in Changes, Commit(p, c)
  PROVE  PubInv'
<1>1. Committed' = Committed \cup {c} /\ OwnerInv'
  BY DEF Commit, Committed, OwnerInv, TypeOK, PubInv, GraphInv
<1>2. UNCHANGED <<wiki, marked, lag, pubPc, since, snapshot>>
  BY DEF Commit, publishVars
<1> QED BY <1>1, <1>2 DEF PubInv, GraphInv, LockInv, CoverInv,
           CleanMeansPublished

LEMMA PubTimer ==
  ASSUME TypeOK, PubInv, NEW p \in Procs, TimerStep(p)
  PROVE  PubInv'
<1>0. 0 \in 0..MaxRetries /\ handle[p] \in 0..MaxRetries
  BY ConstAssumption DEF TypeOK
<1>1. CASE DebounceFires(p)
  BY <1>0, <1>1, QuietPublish, QuietStep DEF DebounceFires
<1>2. CASE RetryFires(p)
  BY <1>0, <1>2, QuietPublish, QuietStep DEF RetryFires
<1>3. CASE StartupFires(p)
  BY <1>3, QuietIdle, QuietStep DEF StartupFires
<1>4. ASSUME NEW a \in 1..MaxRetries, OrphanFires(p, a)
      PROVE  PubInv'
  <2>1. a \in 0..MaxRetries
    OBVIOUS
  <2>2. Publish(p, a) /\ UNCHANGED durable
    BY <1>4 DEF OrphanFires
  <2> QED BY <2>1, <2>2, QuietPublish, QuietStep
<1> QED BY <1>1, <1>2, <1>3, <1>4 DEF TimerStep

LEMMA PubCompile ==
  ASSUME TypeOK, PubInv, NEW p \in Procs,
         CompileStarts(p) \/ CompilePublishes(p)
  PROVE  PubInv' /\ wiki \subseteq wiki'
<1>1. CASE CompileStarts(p)
  <2>1. /\ UNCHANGED durable
        /\ pubPc' = [pubPc EXCEPT ![p] = "render"]
        /\ snapshot' = [snapshot EXCEPT ![p] = Committed]
        /\ since' = since
        /\ \A q \in Procs : pubPc[q] # "render"
    BY <1>1 DEF CompileStarts, CompileLockFree
  <2>2. Committed' = Committed /\ OwnerInv'
    BY <2>1 DEF durable, Committed, OwnerInv, PubInv, GraphInv
  <2>3. GraphInv'
    BY <2>1, <2>2 DEF PubInv, GraphInv, durable, TypeOK
  <2>4. LockInv'
    BY <2>1 DEF PubInv, GraphInv, LockInv, durable, TypeOK
  <2>5. CoverInv'
    BY <2>1 DEF PubInv, GraphInv, CoverInv, durable, TypeOK
  <2>6. CleanMeansPublished'
    BY <2>1 DEF PubInv, CleanMeansPublished, durable
  <2> QED BY <2>1, <2>3, <2>4, <2>5, <2>6 DEF PubInv, durable
<1>2. CASE CompilePublishes(p)
  <2>1. /\ UNCHANGED <<hook, owner, lag, marked, since>>
        /\ pubPc[p] = "render"
        /\ pubPc' = [pubPc EXCEPT ![p] = "record"]
        /\ snapshot' = [snapshot EXCEPT ![p] = {}]
    BY <1>2 DEF CompilePublishes
  <2>2. snapshot[p] \subseteq wiki' /\ wiki' \subseteq Committed
    BY <1>2 DEF CompilePublishes, PubInv, GraphInv
  <2>3. wiki \subseteq wiki'
    BY <2>1, <2>2 DEF PubInv, LockInv
  <2>4. Committed' = Committed /\ OwnerInv'
    BY <2>1 DEF Committed, OwnerInv, PubInv, GraphInv
  <2>5. GraphInv'
    BY <2>1, <2>2, <2>4 DEF PubInv, GraphInv, TypeOK
  <2>6. LockInv'
    BY <2>1 DEF PubInv, LockInv, TypeOK
  <2>7. CoverInv'
    BY <2>1, <2>2, <2>3 DEF PubInv, CoverInv, LockInv, TypeOK
  <2>8. CleanMeansPublished'
    BY <2>1, <2>3 DEF PubInv, CleanMeansPublished
  <2> QED BY <2>3, <2>5, <2>6, <2>7, <2>8 DEF PubInv
<1> QED BY <1>1, <1>2

\* The lag a publication writes is the number of INCRs it does not cover.
LEMMA PubMark ==
  ASSUME TypeOK, PubInv, NEW p \in Procs, MarkPublished(p)
  PROVE  PubInv'
<1>1. /\ UNCHANGED <<hook, owner, wiki, marked, snapshot>>
      /\ pubPc[p] = "record"
      /\ pubPc' = [pubPc EXCEPT ![p] = "latest"]
      /\ lag' = since[p]
      /\ since' = [since EXCEPT ![p] = 0]
  BY DEF MarkPublished, Unpublished
<1>2. Committed' = Committed /\ OwnerInv'
  BY <1>1 DEF Committed, OwnerInv, PubInv, GraphInv
<1>3. GraphInv'
  BY <1>1, <1>2 DEF PubInv, GraphInv
<1>4. LockInv'
  BY <1>1 DEF PubInv, LockInv, TypeOK
<1>5. CoverInv'
  BY <1>1 DEF PubInv, CoverInv, TypeOK
<1>6. CleanMeansPublished'
  BY <1>1 DEF PubInv, CoverInv, CleanMeansPublished
<1> QED BY <1>3, <1>4, <1>5, <1>6 DEF PubInv

LEMMA PubPublication ==
  ASSUME TypeOK, PubInv, NEW p \in Procs, PublishStep(p)
  PROVE  PubInv'
<1>1. CASE ReadVersions(p)
  <2>1. Quiet
    BY <1>1 DEF ReadVersions, Quiet, TypeOK, durable, Committed, PubInv,
       GraphInv, OwnerInv
  <2> QED BY <2>1, QuietStep
<1>2. CASE AlreadyPublished(p)
  <2>1. queued[p] \in BOOLEAN /\ Settle(p, queued[p]) /\ UNCHANGED durable
    BY <1>2 DEF TypeOK, AlreadyPublished
  <2> QED BY <2>1, QuietSettle, QuietStep
<1>3. CASE CallCompile(p)
  <2>1. Quiet
    BY <1>3 DEF CallCompile, Quiet, TypeOK, durable, Committed, PubInv,
       GraphInv, OwnerInv
  <2> QED BY <2>1, QuietStep
<1>4. CASE CompileStarts(p) \/ CompilePublishes(p)
  BY <1>4, PubCompile
<1>5. CASE MarkPublished(p)
  BY <1>5, PubMark
<1>6. CASE ReadLatest(p)
  <2>1. Quiet
    BY <1>6 DEF ReadLatest, Quiet, TypeOK, durable, Committed, PubInv,
       GraphInv, OwnerInv
  <2> QED BY <2>1, QuietStep
<1>7. CASE PublishSucceeds(p)
  <2>1. /\ (queued[p] \/ behind[p]) \in BOOLEAN
        /\ Settle(p, queued[p] \/ behind[p]) /\ UNCHANGED durable
    BY <1>7 DEF TypeOK, PublishSucceeds
  <2> QED BY <2>1, QuietSettle, QuietStep
<1>8. CASE PublishFails(p)
  <2>1. Settle(p, FALSE) /\ UNCHANGED durable
    BY <1>8 DEF PublishFails
  <2> QED BY <2>1, QuietSettle, QuietStep
<1> QED BY <1>1, <1>2, <1>3, <1>4, <1>5, <1>6, <1>7, <1>8 DEF PublishStep

LEMMA PubCatchUp ==
  ASSUME TypeOK, PubInv, NEW p \in Procs, CatchUpStep(p)
  PROVE  PubInv'
<1>0. 0 \in 0..MaxRetries
  BY ConstAssumption
<1>1. CASE RecoveryReads(p) \/ RecoveryFails(p) \/ CatchUp(p)
           \/ CatchUpReconciles(p) \/ CatchUpMarked(p) \/ CatchUpMarkFails(p)
           \/ DiscoverFails(p)
  BY <1>1, QuietIdle, QuietStep
     DEF RecoveryReads, RecoveryFails, CatchUp, CatchUpReconciles,
         CatchUpMarked, CatchUpMarkFails, DiscoverFails
<1>2. CASE RecoveryPublishes(p)
  BY <1>0, <1>2, QuietPublish, QuietStep DEF RecoveryPublishes
<1>3. CASE CatchUpMarks(p)
  <2>1. /\ UNCHANGED <<hook, owner, wiki, marked, pubPc, snapshot>>
        /\ Incr
    BY <1>3 DEF CatchUpMarks
  <2>2. Committed' = Committed /\ OwnerInv'
    BY <2>1 DEF Committed, OwnerInv, PubInv, GraphInv
  <2>3. {} \in SUBSET Committed /\ marked' = marked \cup {}
    BY <2>1
  <2> QED BY <2>1, <2>2, <2>3, IncrStep
<1>4. CASE CatchUpPublishes(p)
  <2>1. CASE needed[p] /\ Untended(p)
    BY <1>0, <1>4, <2>1, QuietPublish, QuietStep DEF CatchUpPublishes
  <2>2. CASE ~(needed[p] /\ Untended(p))
    BY <1>4, <2>2, QuietIdle, QuietStep DEF CatchUpPublishes
  <2> QED BY <2>1, <2>2
<1> QED BY <1>1, <1>2, <1>3, <1>4 DEF CatchUpStep

LEMMA PubProcess ==
  ASSUME TypeOK, PubInv, NEW p \in Procs, Start(p) \/ Stop(p) \/ Exit(p)
  PROVE  PubInv'
<1>1. CASE Start(p)
  <2>1. UNCHANGED <<hook, owner, lag, wiki, marked, publishVars>>
    BY <1>1 DEF Start
  <2>2. Quiet
    BY <2>1 DEF Quiet, publishVars, Committed, PubInv, GraphInv, OwnerInv
  <2> QED BY <2>2, QuietStep
<1>2. CASE Stop(p)
  BY <1>2, QuietIdle, QuietStep DEF Stop
<1>3. CASE Exit(p)
  <2>1. Committed' = Committed /\ OwnerInv'
    BY <1>3 DEF Exit, Committed, OwnerInv, TypeOK, PubInv, GraphInv, HookStages
  <2>2. Quiet
    BY <1>3, <2>1 DEF Exit, Quiet, TypeOK
  <2> QED BY <2>2, QuietStep
<1> QED BY <1>1, <1>2, <1>3

LEMMA PubNext ==
  ASSUME TypeOK, PubInv, [Next]_vars
  PROVE  PubInv'
<1>1. CASE UNCHANGED vars
  BY <1>1, QuietIdle, QuietStep DEF vars
<1>2. CASE Next
  BY <1>2, PubHook, PubCommit, PubTimer, PubPublication, PubCatchUp, PubProcess
     DEF Next
<1> QED BY <1>1, <1>2

LEMMA Invariance == Spec => [](TypeOK /\ PubInv)
<1>1. Init => TypeOK /\ PubInv
  BY TypeInit, PubInit
<1>2. TypeOK /\ PubInv /\ [Next]_vars => (TypeOK /\ PubInv)'
  BY TypeNext, PubNext DEF PubInv, GraphInv
<1> QED BY <1>1, <1>2, PTL DEF Spec

\* The processes' states stay well typed; in particular no publication retry
\* is armed beyond maxRetries, whatever timers were overwritten.
THEOREM TypeCorrect == Spec => []TypeOK
BY Invariance, PTL

\* For any number of processes and changes: whenever generation:dirty and
\* generation:published agree, every change counted in the former is served.
THEOREM CleanIsPublished == Spec => []CleanMeansPublished
<1>1. PubInv => CleanMeansPublished
  BY DEF PubInv
<1> QED BY <1>1, Invariance, PTL

(***************************************************************************)
(* The processes together implement ServedView.  Only the compile changes  *)
(* the wiki, and it only adds to it: the lock makes it start from a graph  *)
(* that holds everything the wiki shows.                                   *)
(***************************************************************************)

\* What one step does to the graph and the wiki.
LEMMA WikiGrows ==
  ASSUME TypeOK, PubInv, [Next]_vars
  PROVE  \/ \E c \in Changes : View!Commit(c)
         \/ UNCHANGED <<Committed, wiki>>
         \/ View!Refresh
<1>1. ASSUME NEW p \in Procs, NEW c \in Changes, Commit(p, c)
      PROVE  View!Commit(c)
  BY <1>1 DEF Commit, View!Commit, Committed, TypeOK
<1>2. ASSUME NEW c \in Changes, HookStep(c)
      PROVE  UNCHANGED <<Committed, wiki>>
  BY <1>2 DEF HookStep, ScheduleChange, MarkChange, ChangeMarked,
     MarkChangeFails, Committed, TypeOK
<1>3. ASSUME NEW p \in Procs, TimerStep(p)
      PROVE  UNCHANGED <<Committed, wiki>>
  BY <1>3 DEF TimerStep, DebounceFires, RetryFires, StartupFires, OrphanFires,
     durable, Committed
<1>4. ASSUME NEW p \in Procs, CatchUpStep(p)
      PROVE  UNCHANGED <<Committed, wiki>>
  BY <1>4 DEF CatchUpStep, RecoveryReads, RecoveryPublishes, RecoveryFails,
     CatchUp, CatchUpReconciles, CatchUpMarks, CatchUpMarked, CatchUpMarkFails,
     CatchUpPublishes, DiscoverFails, durable, Committed
<1>5. ASSUME NEW p \in Procs, Start(p) \/ Stop(p)
      PROVE  UNCHANGED <<Committed, wiki>>
  BY <1>5 DEF Start, Stop, durable, Committed
<1>6. ASSUME NEW p \in Procs, Exit(p)
      PROVE  UNCHANGED <<Committed, wiki>>
  BY <1>6 DEF Exit, Committed, TypeOK, PubInv, GraphInv, OwnerInv
<1>7. ASSUME NEW p \in Procs, CompilePublishes(p)
      PROVE  View!Refresh \/ UNCHANGED <<Committed, wiki>>
  <2>1. wiki \subseteq wiki' /\ wiki' \subseteq Committed /\ UNCHANGED hook
    BY <1>7, PubCompile DEF CompilePublishes, PubInv, GraphInv
  <2>2. UNCHANGED Committed
    BY <2>1 DEF Committed
  <2>3. wiki' = wiki \cup wiki'
    BY <2>1
  <2> QED BY <2>1, <2>2, <2>3 DEF View!Refresh
<1>8. ASSUME NEW p \in Procs, PublishStep(p), ~CompilePublishes(p)
      PROVE  UNCHANGED <<Committed, wiki>>
  BY <1>8 DEF PublishStep, ReadVersions, AlreadyPublished, CallCompile,
     CompileStarts, MarkPublished, ReadLatest, PublishSucceeds, PublishFails,
     durable, Committed
<1>9. CASE UNCHANGED vars
  BY <1>9 DEF vars, durable, Committed
<1> QED BY <1>1, <1>2, <1>3, <1>4, <1>5, <1>6, <1>7, <1>8, <1>9 DEF Next

\* For any number of processes that publish into one directory, the wiki is a
\* lagging view of the graph that never loses a change it has shown.
THEOREM ImplementsView == Spec => ImplementsServedView
<1>1. Init => View!ViewInit
  BY DEF Init, View!ViewInit, Committed
<1>2. TypeOK /\ PubInv /\ [Next]_vars => [View!ViewNext]_(View!view)
  BY WikiGrows DEF View!ViewNext, View!view
<1> QED BY <1>1, <1>2, Invariance, PTL
        DEF Spec, ImplementsServedView, View!Safety

(***************************************************************************)
(* A lag is never forgotten.  publish() forgets it in two places, when it  *)
(* has found the counters equal before its compile or after it: then every *)
(* change counted so far is on the wiki, and stays there.  If the process  *)
(* lags when it acts on that, its own INCR came after its reading, and     *)
(* whoever sent it will run publish() once more: the reply is still to be  *)
(* handled, the debounce it armed is pending, or has fired and is noted in *)
(* queued, or a retry timer is there in its place.  Other processes can    *)
(* only help: none of them counts a change of this one, or takes one off   *)
(* the wiki.                                                               *)
(***************************************************************************)

\* A process that is down publishes nothing.
DownIdle == \A p \in Procs : proc[p] = "down" => pubPc[p] = "idle"

LEMMA DownInit == ASSUME Init PROVE DownIdle
BY DEF Init, DownIdle

LEMMA DownPublish ==
  ASSUME TypeOK, DownIdle, NEW p \in Procs, NEW a, Publish(p, a), proc' = proc
  PROVE  DownIdle'
BY DEF DownIdle, Publish, Running, TypeOK

LEMMA DownNext ==
  ASSUME TypeOK, DownIdle, [Next]_vars
  PROVE  DownIdle'
<1>1. CASE UNCHANGED <<proc, pubPc>>
  BY <1>1 DEF DownIdle
<1>2. ASSUME NEW p \in Procs, TimerStep(p)
      PROVE  DownIdle'
  BY <1>1, <1>2, DownPublish
     DEF TimerStep, DebounceFires, RetryFires, StartupFires, OrphanFires,
         publishVars
<1>3. ASSUME NEW p \in Procs, PublishStep(p)
      PROVE  DownIdle'
  <2>1. pubPc[p] # "idle" /\ proc' = proc
    BY <1>3
       DEF PublishStep, ReadVersions, AlreadyPublished, CallCompile,
           CompileStarts, CompilePublishes, MarkPublished, ReadLatest,
           PublishSucceeds, PublishFails
  <2>2. \A q \in Procs : q # p => pubPc'[q] = pubPc[q]
    BY <1>3
       DEF PublishStep, ReadVersions, AlreadyPublished, CallCompile,
           CompileStarts, CompilePublishes, MarkPublished, ReadLatest,
           PublishSucceeds, PublishFails, Settle, TypeOK
  <2> QED BY <2>1, <2>2 DEF DownIdle
<1>4. ASSUME NEW p \in Procs, CatchUpStep(p)
      PROVE  DownIdle'
  BY <1>1, <1>4, DownPublish
     DEF CatchUpStep, RecoveryReads, RecoveryPublishes, RecoveryFails, CatchUp,
         CatchUpReconciles, CatchUpMarks, CatchUpMarked, CatchUpMarkFails,
         CatchUpPublishes, DiscoverFails, publishVars
<1>5. ASSUME NEW p \in Procs, Start(p) \/ Stop(p) \/ Exit(p)
      PROVE  DownIdle'
  BY <1>5 DEF Start, Stop, Exit, DownIdle, publishVars, TypeOK
<1>6. ASSUME NEW c \in Changes, HookStep(c) \/ \E p \in Procs : Commit(p, c)
      PROVE  UNCHANGED <<proc, pubPc>>
  BY <1>6
     DEF HookStep, ScheduleChange, MarkChange, ChangeMarked, MarkChangeFails,
         Commit, publishVars
<1> QED BY <1>1, <1>2, <1>3, <1>4, <1>5, <1>6 DEF Next, vars, publishVars

Orphaned(p) == \E a \in 1..MaxRetries : orphans[p][a] > 0
Replying(p) == \/ catchPc[p] = "replying"
               \/ \E c \in Changes : hook[c] = "replying" /\ owner[c] = p

\* Something will call publish() again although one is under way.
Awaits(p) == debounce[p] \/ handle[p] # 0 \/ queued[p] \/ Orphaned(p) \/ Replying(p)

Tracked(p) ==
  Running(p) /\ startPc[p] = "done" /\ Lags(p) =>
    needed[p] \/ exhausted[p] \/ ~Untended(p) \/ Orphaned(p) \/ Replying(p)
Awaited(p) ==
  Running(p) /\ pubPc[p] \in {"decide", "settle"} /\ ~behind[p] /\ Lags(p)
    => Awaits(p)
TrackInv == \A p \in Procs : Tracked(p) /\ Awaited(p)

LEMMA TrackInit == ASSUME Init PROVE TrackInv
BY DEF Init, TrackInv, Tracked, Awaited, Running

\* Whoever lags sees the counters differ.
LEMMA LagSeen ==
  ASSUME TypeOK, CleanMeansPublished, NEW p \in Procs, Lags(p)
  PROVE  lag > 0
BY DEF TypeOK, CleanMeansPublished, Lags, Unserved

LEMMA LagsSame ==
  ASSUME NEW p, UNCHANGED <<lag, marked, wiki, owner>>
  PROVE  Lags(p)' = Lags(p)
BY DEF Lags, Unserved

\* publish() called: it is under way from now on, or will be run again.
LEMMA TrackPublish ==
  ASSUME NEW p \in Procs, TypeOK, NEW a, Publish(p, a), UNCHANGED proc
  PROVE  Tracked(p)' /\ Awaited(p)'
<1>1. CASE Running(p)
  <2>1. pubPc'[p] # "idle"
    BY <1>1 DEF Publish, TypeOK
  <2>2. pubPc'[p] \in {"decide", "settle"} => queued'[p]
    BY <1>1 DEF Publish, TypeOK
  <2> QED BY <2>1, <2>2 DEF Tracked, Awaited, Awaits, Untended
<1>2. CASE ~Running(p)
  BY <1>2 DEF Tracked, Awaited, Running
<1> QED BY <1>1, <1>2

LEMMA TrackTimer ==
  ASSUME NEW p \in Procs, TypeOK, Tracked(p), Awaited(p), TimerStep(p)
  PROVE  Tracked(p)' /\ Awaited(p)'
<1>1. CASE StartupFires(p)
  <2>1. Lags(p)' = Lags(p)
    BY <1>1, LagsSame DEF StartupFires, durable
  <2> QED BY <1>1, <2>1
     DEF StartupFires, Tracked, Awaited, Awaits, Untended, Orphaned, Replying,
         Running, TypeOK, durable, healthVars, timerVars, publishVars
<1>2. CASE DebounceFires(p) \/ RetryFires(p)
           \/ \E a \in 1..MaxRetries : OrphanFires(p, a)
  BY <1>2, TrackPublish DEF DebounceFires, RetryFires, OrphanFires
<1> QED BY <1>1, <1>2 DEF TimerStep

LEMMA TrackHook ==
  ASSUME NEW p \in Procs, TypeOK, Tracked(p), Awaited(p), NEW c \in Changes,
         owner[c] = p, HookStep(c)
  PROVE  Tracked(p)' /\ Awaited(p)'
<1>1. CASE ScheduleChange(c)
  <2>1. Replying(p) => Replying(p)'
    BY <1>1 DEF ScheduleChange, Replying, TypeOK, loopVars
  <2>2. Lags(p)' = Lags(p)
    BY <1>1, LagsSame DEF ScheduleChange
  <2> QED BY <1>1, <2>1, <2>2
          DEF ScheduleChange, Tracked, Awaited, Awaits, Untended, Orphaned,
              Running, TypeOK, timerVars, publishVars, loopVars
<1>2. CASE MarkChange(c)
  <2>1. Replying(p)'
    BY <1>2 DEF MarkChange, Replying, TypeOK
  <2> QED BY <2>1 DEF Tracked, Awaited, Awaits
<1>3. CASE ChangeMarked(c) \/ MarkChangeFails(c)
  <2>1. debounce'[p]
    BY <1>3
       DEF ChangeMarked, MarkChangeFails, PersistFails, ArmDebounce, TypeOK
  <2> QED BY <2>1 DEF Tracked, Awaited, Awaits, Untended
<1> QED BY <1>1, <1>2, <1>3 DEF HookStep

\* The end of a publication: it is run again, or something else is left.
LEMMA TrackSettle ==
  ASSUME NEW p \in Procs, TypeOK, NEW again \in BOOLEAN, Settle(p, again),
         UNCHANGED proc, Lags(p)' = Lags(p),
         handle' = handle \/ ~again,
         Running(p) /\ Lags(p) =>
           again \/ handle'[p] # 0 \/ debounce'[p] \/ exhausted'[p]
             \/ Orphaned(p)' \/ Replying(p)'
  PROVE  Tracked(p)' /\ Awaited(p)'
<1>1. pubPc'[p] \notin {"decide", "settle"}
  BY DEF Settle, TypeOK
<1>2. Tracked(p)'
  <2> SUFFICES ASSUME Running(p), Lags(p), Untended(p)', ~exhausted'[p],
                      ~Orphaned(p)', ~Replying(p)'
               PROVE  FALSE
    BY DEF Tracked, Running
  <2>1. again /\ handle[p] = 0
    BY DEF Untended
  <2> QED BY <2>1 DEF Settle, Untended, TypeOK
<1> QED BY <1>1, <1>2 DEF Awaited

LEMMA TrackPublication ==
  ASSUME NEW p \in Procs, TypeOK, CleanMeansPublished, Tracked(p), Awaited(p),
         PublishStep(p)
  PROVE  Tracked(p)' /\ Awaited(p)'
<1>1. CASE ReadVersions(p) \/ ReadLatest(p)
  <2>1. pubPc'[p] # "idle" /\ behind'[p] = (lag > 0)
    BY <1>1 DEF ReadVersions, ReadLatest, TypeOK
  <2>2. Lags(p)' = Lags(p)
    BY <1>1, LagsSame DEF ReadVersions, ReadLatest, durable
  <2> QED BY <2>1, <2>2, LagSeen DEF Tracked, Awaited, Untended
<1>2. CASE CallCompile(p) \/ CompileStarts(p) \/ CompilePublishes(p)
           \/ MarkPublished(p)
  <2>1. pubPc'[p] \in {"compile", "render", "record", "latest"}
    BY <1>2
       DEF CallCompile, CompileStarts, CompilePublishes, MarkPublished, TypeOK
  <2> QED BY <2>1 DEF Tracked, Awaited, Untended
<1>3. CASE AlreadyPublished(p) \/ PublishSucceeds(p)
  <2> DEFINE again == queued[p] \/ (pubPc[p] = "settle" /\ behind[p])
  <2>1. Settle(p, again)
    BY <1>3 DEF AlreadyPublished, PublishSucceeds, TypeOK
  <2>2. UNCHANGED <<durable, proc, timerVars, loopVars>>
    BY <1>3 DEF AlreadyPublished, PublishSucceeds
  <2>3. again \in BOOLEAN
    BY DEF TypeOK
  <2>4. Running(p) /\ Lags(p) => again \/ Awaits(p)
    BY <1>3 DEF AlreadyPublished, PublishSucceeds, Awaited
  <2>5. Running(p) /\ Lags(p) =>
          again \/ handle'[p] # 0 \/ debounce'[p] \/ exhausted'[p]
            \/ Orphaned(p)' \/ Replying(p)'
    BY <2>2, <2>4
       DEF Awaits, Orphaned, Replying, durable, timerVars, loopVars
  <2>6. Lags(p)' = Lags(p)
    BY <2>2, LagsSame DEF durable
  <2> QED
    <3> HIDE DEF again
    <3> QED BY <2>1, <2>2, <2>3, <2>5, <2>6, TrackSettle DEF timerVars
<1>4. CASE PublishFails(p)
  <2>1. Settle(p, FALSE) /\ UNCHANGED proc
    BY <1>4 DEF PublishFails
  <2>2. handle'[p] # 0 \/ exhausted'[p]
    <3>1. CASE GivesUp(p)
      BY <1>4, <3>1 DEF PublishFails, TypeOK
    <3>2. CASE ~GivesUp(p)
      <4>1. attempt[p] + 1 # 0
        BY ConstAssumption DEF TypeOK
      <4> QED BY <1>4, <3>2, <4>1 DEF PublishFails, TypeOK
    <3> QED BY <3>1, <3>2
  <2>3. Lags(p)' = Lags(p)
    BY <1>4, LagsSame DEF PublishFails, durable
  <2> QED BY <2>1, <2>2, <2>3, TrackSettle
<1> QED BY <1>1, <1>2, <1>3, <1>4 DEF PublishStep

LEMMA TrackCatchUp ==
  ASSUME NEW p \in Procs, TypeOK, CleanMeansPublished, Tracked(p), Awaited(p),
         CatchUpStep(p)
  PROVE  Tracked(p)' /\ Awaited(p)'
<1>1. CASE RecoveryReads(p)
  <2>1. Lags(p)' = Lags(p)
    BY <1>1, LagsSame DEF RecoveryReads, durable
  <2> QED BY <1>1, <2>1, LagSeen
     DEF RecoveryReads, Tracked, Awaited, Awaits, Untended, Orphaned, Replying,
         Running, TypeOK, durable, healthVars, timerVars, publishVars
<1>2. CASE RecoveryPublishes(p)
  BY <1>2, TrackPublish DEF RecoveryPublishes
<1>3. CASE RecoveryFails(p)
  <2>1. Lags(p)' = Lags(p)
    BY <1>3, LagsSame DEF RecoveryFails, durable
  <2> QED BY <1>3, <2>1
     DEF RecoveryFails, Tracked, Awaited, Awaits, Orphaned, Replying, Running,
         TypeOK, durable, timerVars, publishVars
<1>4. CASE CatchUp(p) \/ DiscoverFails(p)
  <2>1. Lags(p)' = Lags(p)
    BY <1>4, LagsSame DEF CatchUp, DiscoverFails, durable
  <2> QED BY <1>4, <2>1
     DEF CatchUp, DiscoverFails, Tracked, Awaited, Awaits, Untended, Orphaned,
         Replying, Running, TypeOK, durable, healthVars, timerVars, publishVars
<1>5. CASE CatchUpReconciles(p)
  <2>1. Lags(p)' = Lags(p)
    BY <1>5, LagsSame DEF CatchUpReconciles, durable
  <2> QED BY <1>5, <2>1
     DEF CatchUpReconciles, Tracked, Awaited, Awaits, Orphaned, Replying,
         Running, TypeOK, durable, timerVars, publishVars
<1>6. CASE CatchUpMarks(p)
  <2>1. Replying(p)'
    BY <1>6 DEF CatchUpMarks, Replying, TypeOK
  <2> QED BY <2>1 DEF Tracked, Awaited, Awaits
<1>7. CASE CatchUpMarked(p) \/ CatchUpMarkFails(p)
  <2>1. debounce'[p]
    BY <1>7
       DEF CatchUpMarked, CatchUpMarkFails, PersistFails, ArmDebounce, TypeOK
  <2> QED BY <2>1 DEF Tracked, Awaited, Awaits, Untended
<1>8. CASE CatchUpPublishes(p)
  <2>1. CASE needed[p] /\ Untended(p)
    BY <1>8, <2>1, TrackPublish DEF CatchUpPublishes
  <2>2. CASE ~(needed[p] /\ Untended(p))
    <3>1. Lags(p)' = Lags(p)
      BY <1>8, LagsSame DEF CatchUpPublishes, durable
    <3> QED BY <1>8, <2>2, <3>1
       DEF CatchUpPublishes, Tracked, Awaited, Awaits, Untended, Orphaned,
           Replying, Running, TypeOK, durable, healthVars, timerVars, publishVars
  <2> QED BY <2>1, <2>2
<1> QED BY <1>1, <1>2, <1>3, <1>4, <1>5, <1>6, <1>7, <1>8 DEF CatchUpStep

\* What a step leaves alone that is not of process p: all p keeps, and p lags
\* no more than before.
Elsewhere(p) ==
  /\ Lags(p)' => Lags(p)
  /\ Replying(p) => Replying(p)'
  /\ orphans'[p] = orphans[p]
  /\ proc'[p] = proc[p] /\ startPc'[p] = startPc[p]
  /\ needed'[p] = needed[p] /\ exhausted'[p] = exhausted[p]
  /\ queued'[p] = queued[p] /\ pubPc'[p] = pubPc[p] /\ behind'[p] = behind[p]
  /\ debounce'[p] = debounce[p] /\ handle'[p] = handle[p]

LEMMA TrackElsewhere ==
  ASSUME NEW p \in Procs, Tracked(p), Awaited(p), Elsewhere(p)
  PROVE  Tracked(p)' /\ Awaited(p)'
BY DEF Tracked, Awaited, Awaits, Elsewhere, Untended, Orphaned, Running

\* The wiki of another process's compile is no loss.
LEMMA WikiKept == ASSUME TypeOK, PubInv, [Next]_vars PROVE wiki \subseteq wiki'
<1>1. CASE View!Refresh
  BY <1>1 DEF View!Refresh
<1>2. CASE \E c \in Changes : View!Commit(c)
  BY <1>2 DEF View!Commit
<1> QED BY <1>1, <1>2, WikiGrows

LEMMA LagsElsewhere ==
  ASSUME TypeOK, PubInv, [Next]_vars, NEW p \in Procs, NEW q \in Procs, p # q,
         owner' = owner, \A c \in marked' : c \in marked \/ owner[c] # p
  PROVE  Lags(p)' => Lags(p)
<1>1. wiki \subseteq wiki'
  BY WikiKept
<1> QED BY <1>1 DEF Lags, Unserved

LEMMA OtherProcess ==
  ASSUME TypeOK, PubInv, NEW p \in Procs, NEW q \in Procs, p # q,
         TimerStep(q) \/ PublishStep(q) \/ CatchUpStep(q) \/ Start(q) \/ Stop(q)
           \/ Exit(q)
  PROVE  Elsewhere(p)
<1>0. [Next]_vars
  BY DEF Next
<1>1. UNCHANGED <<owner, marked>>
  BY DEF TimerStep, DebounceFires, RetryFires, StartupFires, OrphanFires,
         PublishStep, ReadVersions, AlreadyPublished, CallCompile,
         CompileStarts, CompilePublishes, MarkPublished, ReadLatest,
         PublishSucceeds, PublishFails, CatchUpStep, RecoveryReads,
         RecoveryPublishes, RecoveryFails, CatchUp, CatchUpReconciles,
         CatchUpMarks, CatchUpMarked, CatchUpMarkFails, CatchUpPublishes,
         DiscoverFails, Start, Stop, Exit, durable
<1>2. Lags(p)' => Lags(p)
  BY <1>0, <1>1, LagsElsewhere
<1>3. CASE TimerStep(q)
  BY <1>2, <1>3
     DEF Elsewhere, TimerStep, DebounceFires, RetryFires, StartupFires,
         OrphanFires, Orphan, Publish, Replying, TypeOK, durable, healthVars,
         timerVars, publishVars, loopVars
<1>4. CASE PublishStep(q)
  BY <1>2, <1>4
     DEF Elsewhere, PublishStep, ReadVersions, AlreadyPublished, CallCompile,
         CompileStarts, CompilePublishes, MarkPublished, ReadLatest,
         PublishSucceeds, PublishFails, Orphan, Settle, Replying, TypeOK,
         durable, healthVars, timerVars, publishVars, loopVars
<1>5. CASE CatchUpStep(q)
  BY <1>2, <1>5
     DEF Elsewhere, CatchUpStep, RecoveryReads, RecoveryPublishes,
         RecoveryFails, CatchUp, CatchUpReconciles, CatchUpMarks,
         CatchUpMarked, CatchUpMarkFails, CatchUpPublishes, DiscoverFails,
         PersistFails, ArmDebounce, Publish, Replying, TypeOK, durable,
         healthVars, timerVars, publishVars, loopVars
<1>6. CASE Start(q) \/ Stop(q) \/ Exit(q)
  BY <1>2, <1>6
     DEF Elsewhere, Start, Stop, Exit, Replying, TypeOK, durable, healthVars,
         timerVars, publishVars, loopVars
<1> QED BY <1>3, <1>4, <1>5, <1>6

\* A change of another process goes through its hook.
LEMMA OtherHook ==
  ASSUME TypeOK, PubInv, NEW p \in Procs, NEW c \in Changes, owner[c] # p,
         HookStep(c)
  PROVE  Elsewhere(p)
<1>1. owner[c] \in Procs
  BY DEF PubInv, GraphInv, OwnerInv, HookStep, ScheduleChange, MarkChange,
         ChangeMarked, MarkChangeFails
<1>2. [Next]_vars /\ owner' = owner /\ marked' \subseteq marked \cup {c}
  BY DEF Next, HookStep, ScheduleChange, MarkChange, ChangeMarked,
         MarkChangeFails
<1>3. Lags(p)' => Lags(p)
  BY <1>1, <1>2, LagsElsewhere
<1> QED BY <1>1, <1>3
  DEF Elsewhere, HookStep, ScheduleChange, MarkChange, ChangeMarked,
      MarkChangeFails, PersistFails, ArmDebounce, Replying, TypeOK, healthVars,
      timerVars, publishVars, loopVars

\* A commit counts nothing yet.
LEMMA CommitElsewhere ==
  ASSUME TypeOK, PubInv, NEW p \in Procs, NEW q \in Procs, NEW c \in Changes,
         Commit(q, c)
  PROVE  Elsewhere(p)
<1>1. c \notin marked
  BY DEF Commit, PubInv, GraphInv, Committed
<1>2. Lags(p)' => Lags(p)
  BY <1>1 DEF Commit, Lags, Unserved, TypeOK
<1>3. Replying(p) => Replying(p)'
  BY DEF Commit, Replying, TypeOK, loopVars
<1> QED BY <1>2, <1>3
  DEF Elsewhere, Commit, healthVars, timerVars, publishVars, loopVars

LEMMA TrackNext ==
  ASSUME TypeOK, PubInv, DownIdle, TrackInv, [Next]_vars
  PROVE  TrackInv'
<1> SUFFICES ASSUME NEW p \in Procs PROVE Tracked(p)' /\ Awaited(p)'
  BY DEF TrackInv
<1>0. Tracked(p) /\ Awaited(p) /\ CleanMeansPublished
  BY DEF TrackInv, PubInv
<1>1. CASE UNCHANGED vars
  <2>1. Lags(p)' = Lags(p)
    BY <1>1, LagsSame DEF vars, durable
  <2> QED BY <1>0, <1>1, <2>1
     DEF vars, Tracked, Awaited, Awaits, Untended, Orphaned, Replying, Running,
         durable, healthVars, timerVars, publishVars, loopVars
<1>2. ASSUME NEW c \in Changes, HookStep(c) \/ \E q \in Procs : Commit(q, c)
      PROVE  Tracked(p)' /\ Awaited(p)'
  BY <1>0, <1>2, TrackHook, OtherHook, CommitElsewhere, TrackElsewhere
<1>3. CASE Start(p)
  <2>1. startPc'[p] = "armed" /\ pubPc'[p] = "idle"
    BY <1>3 DEF Start, DownIdle, TypeOK, publishVars
  <2> QED BY <2>1 DEF Tracked, Awaited
<1>4. CASE Stop(p) \/ Exit(p)
  <2>1. ~Running(p)'
    BY <1>4 DEF Stop, Exit, Running, TypeOK
  <2> QED BY <2>1 DEF Tracked, Awaited
<1>5. CASE TimerStep(p) \/ PublishStep(p) \/ CatchUpStep(p)
  BY <1>0, <1>5, TrackTimer, TrackPublication, TrackCatchUp
<1>6. ASSUME NEW q \in Procs, q # p,
             TimerStep(q) \/ PublishStep(q) \/ CatchUpStep(q) \/ Start(q)
               \/ Stop(q) \/ Exit(q)
      PROVE  Tracked(p)' /\ Awaited(p)'
  BY <1>0, <1>6, OtherProcess, TrackElsewhere
<1> QED BY <1>1, <1>2, <1>3, <1>4, <1>5, <1>6 DEF Next

\* No process forgets that the wiki lacks a change it counted, and a process
\* alone that its counters differ: something will look at them again, or its
\* health reports a failure, for any number of processes, changes, retries,
\* orphaned timers and crashes.
THEOREM LagTracked == Spec => []PublicationTracked
<1>1. Init => DownIdle /\ TrackInv
  BY DownInit, TrackInit
<1>2. TypeOK /\ PubInv /\ DownIdle /\ TrackInv /\ [Next]_vars
        => (DownIdle /\ TrackInv)'
  BY DownNext, TrackNext
<1>3. TrackInv => PublicationTracked
  BY DEF TrackInv, Tracked, PublicationTracked, Orphaned, Replying
<1> QED BY <1>1, <1>2, <1>3, Invariance, PTL DEF Spec
=============================================================================
