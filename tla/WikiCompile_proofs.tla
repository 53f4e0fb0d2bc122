------------------------- MODULE WikiCompile_proofs -------------------------
(***************************************************************************)
(* Proofs about WikiCompile for any number of compiles, faults and commits *)
(* and any staleness and retention: as long as no rm() met a lock other    *)
(* than the inspected one, compiles write one at a time, readers get       *)
(* complete trees, and what they get never goes back.                      *)
(***************************************************************************)
EXTENDS WikiCompile, FiniteSetTheorems, WellFoundedInduction, TLAPS

-----------------------------------------------------------------------------
(* Type correctness.  Only a compile that publishes gets to the pointer.   *)

PublishInv == \A c \in Compiles : pc[c] = "publish" => c \in Global
TypeInv == TypeOK /\ PublishInv

LEMMA TypeInit == ASSUME Init PROVE TypeInv
<1>1. TypeOK
  <2>1. listed \in [Compiles -> SUBSET (Compiles \X {"building", "gen"})]
    BY Zenon DEF Init
  <2>2. /\ 0 \in 0..StaleAfter /\ 0 \in 0..Timeout /\ 0 \in 0..MaxCommits
        /\ 0 \in 0..MaxFaults
    BY ConstAssumption
  <2> QED BY <2>1, <2>2 DEF Init, TypeOK, Trees
<1>2. PublishInv
  BY DEF Init, PublishInv
<1> QED BY <1>1, <1>2 DEF TypeInv

\* The places a call goes to are places.
LEMMA Places ==
  /\ Contending = {"open", "inspect", "recheck", "break", "sleep"}
  /\ Building = {"begin", "build", "mark", "rename", "publish", "list", "remove", "undo"}
  /\ Releasing = {"read", "unlink"}
  /\ Over = {"done", "failed", "crashed"}
BY DEF Contending, Building, Releasing, Over

LEMMA TypeAcquire ==
  ASSUME TypeInv, NEW c \in Compiles, AcquireStep(c) \/ Wake(c) \/ Heartbeat(c)
  PROVE  TypeInv'
<1> USE DEF TypeInv, TypeOK, PublishInv, At, GoTo, treeVars, bounds, observers
<1>1. CASE Begin(c) \/ Wake(c)
  BY <1>1, Places DEF Begin, Wake, lockVars
<1>2. CASE Open(c)
  BY <1>2, Places, ConstAssumption DEF Open, Contenders
<1>3. CASE WritePayload(c)
  <2>1. Cardinality({d \in Compiles : born[d] > 0}) \in Nat
    BY ConstAssumption, FS_Subset, FS_CardinalityType
  <2> HIDE DEF TypeOK
  <2>2. born' \in [Compiles -> Nat]
    BY <1>3, <2>1 DEF WritePayload, TypeOK
  <2> QED BY <1>3, <2>2, Places, ConstAssumption DEF WritePayload, TypeOK
<1>4. CASE WritePayloadFails(c)
  BY <1>4, Places, ConstAssumption DEF WritePayloadFails, MayFail, lockVars
<1>5. CASE Inspect(c)
  BY <1>5, Places DEF Inspect, NextPoll
<1>6. CASE Recheck(c)
  BY <1>6, Places DEF Recheck, lockVars
<1>7. CASE BreakLock(c)
  BY <1>7, Places, ConstAssumption DEF BreakLock
<1>8. CASE Heartbeat(c)
  BY <1>8, ConstAssumption DEF Heartbeat
<1> QED BY <1>1, <1>2, <1>3, <1>4, <1>5, <1>6, <1>7, <1>8 DEF AcquireStep

LEMMA TypeBuild ==
  ASSUME TypeInv, NEW c \in Compiles, BuildStep(c)
  PROVE  TypeInv'
<1> USE DEF TypeInv, TypeOK, PublishInv, At, GoTo, lockVars, bounds, observers
<1>1. CASE StartBuild(c)
  BY <1>1, Places DEF StartBuild, Trees
<1>2. CASE WritePages(c)
  BY <1>2, Places DEF WritePages, Trees
<1>3. CASE MarkCompiled(c)
  BY <1>3, Places DEF MarkCompiled, Trees
<1>4. CASE Complete(c)
  BY <1>4, Places DEF Complete, AfterComplete, Trees
<1>5. CASE PublishPointer(c)
  BY <1>5, Places DEF PublishPointer
<1>6. CASE BuildFails(c)
  BY <1>6, Places, ConstAssumption DEF BuildFails, MayFail, treeVars
<1>7. CASE Undo(c)
  BY <1>7, Places DEF Undo, Trees
<1>8. CASE ListTrees(c)
  <2>1. /\ {d \in Parent(c) : InBuilding(d)} \subseteq Compiles
        /\ {d \in Parent(c) : Generation(d)} \subseteq Compiles
    BY ConstAssumption DEF Parent
  <2> QED BY <1>8, <2>1, Places DEF ListTrees
<1>9. CASE Remove(c)
  BY <1>9, Places DEF Remove, Trees
<1>10. CASE CleanupFails(c)
  BY <1>10, Places, ConstAssumption DEF CleanupFails, MayFail
<1> QED BY <1>1, <1>2, <1>3, <1>4, <1>5, <1>6, <1>7, <1>8, <1>9, <1>10 DEF BuildStep

LEMMA TypeRelease ==
  ASSUME TypeInv, NEW c \in Compiles, ReleaseStep(c) \/ Crash(c)
  PROVE  TypeInv'
<1> USE DEF TypeInv, TypeOK, PublishInv, At, GoTo, observers
<1>1. CASE ReadOwnLock(c)
  BY <1>1, Places DEF ReadOwnLock, lockVars, treeVars, bounds
<1>2. CASE Unlink(c)
  BY <1>2, Places, ConstAssumption DEF Unlink, treeVars, bounds
<1>3. CASE ReleaseFails(c)
  BY <1>3, Places, ConstAssumption DEF ReleaseFails, MayFail, lockVars, treeVars
<1>4. CASE Crash(c)
  BY <1>4, Places, ConstAssumption DEF Crash, MayFail
<1> QED BY <1>1, <1>2, <1>3, <1>4 DEF ReleaseStep

LEMMA TypeAround ==
  ASSUME TypeInv, Commit \/ Tick \/ UNCHANGED vars
  PROVE  TypeInv'
<1> USE DEF TypeInv, TypeOK, PublishInv
<1>1. CASE Commit
  BY <1>1, ConstAssumption DEF Commit, lockVars, treeVars, observers
<1>2. CASE Tick
  BY <1>2, ConstAssumption DEF Tick, treeVars, bounds, Contenders
<1>3. CASE UNCHANGED vars
  BY <1>3 DEF vars, lockVars, treeVars, bounds, observers
<1> QED BY <1>1, <1>2, <1>3

LEMMA TypeNext == ASSUME TypeInv, [Next]_vars PROVE TypeInv'
BY TypeAcquire, TypeBuild, TypeRelease, TypeAround DEF Next

\* Every tree is in one of its states and every call in one of its places; in
\* particular only a compile without a project scope sets the pointer.
THEOREM TypeCorrect == Spec => []TypeOK
<1>1. TypeInv => TypeOK
  BY DEF TypeInv
<1> QED BY <1>1, TypeInit, TypeNext, PTL DEF Spec

-----------------------------------------------------------------------------
(* The lock.                                                               *)

Holding == {"write"} \cup Building \cup Releasing

\* Until an rm() meets another lock than it should: who holds the lock is named
\* by it and keeps it from getting stale, and who a contender found stale is
\* no longer there.
HoldInv ==
  /\ \A c \in Compiles : pc[c] \in Holding => lock = c
  /\ lock # None => pc[lock] \in Holding \cup Over
  /\ lock # None /\ pc[lock] \in Holding => age < StaleAfter
  /\ \A c \in Compiles : pc[c] \in Building => c \in beating
  /\ \A c \in Compiles :
       pc[c] \in {"recheck", "break"} /\ seen[c] # None => pc[seen[c]] \in Over
LockInv == ~mistaken => HoldInv

LEMMA HoldAcquire ==
  ASSUME TypeInv, HoldInv, ~mistaken', NEW c \in Compiles,
         AcquireStep(c) \/ Wake(c) \/ Heartbeat(c)
  PROVE  HoldInv'
<1> USE Places DEF TypeInv, TypeOK, HoldInv, Holding, At, GoTo, treeVars, bounds, observers
<1>1. CASE Begin(c) \/ Wake(c)
  BY <1>1 DEF Begin, Wake, lockVars
<1>2. CASE Open(c)
  BY <1>2, ConstAssumption DEF Open
<1>3. CASE WritePayload(c)
  BY <1>3, ConstAssumption DEF WritePayload
<1>4. CASE WritePayloadFails(c)
  BY <1>4 DEF WritePayloadFails, lockVars
<1>5. CASE Inspect(c)
  <2>1. Stale /\ lock # None => pc[lock] \in Over
    BY ConstAssumption DEF Stale
  <2> QED BY <1>5, <2>1, ConstAssumption DEF Inspect, NextPoll
<1>6. CASE Recheck(c)
  BY <1>6 DEF Recheck, UnderInspection, lockVars
<1>7. CASE BreakLock(c)
  <2>1. lock \in {None, seen[c]} /\ (lock # None => pc[lock] \in Over)
    BY <1>7 DEF BreakLock
  <2>2. \A d \in Compiles : pc[d] \notin Holding
    BY <2>1, ConstAssumption
  <2>3. /\ lock' = None /\ UNCHANGED beating
        /\ pc' = [pc EXCEPT ![c] = "open"]
        /\ seen' = [seen EXCEPT ![c] = None]
    BY <1>7 DEF BreakLock
  <2>4. \A d \in Compiles : pc'[d] \notin Holding
    BY <2>2, <2>3
  <2>5. \A d \in Compiles :
          pc'[d] \in {"recheck", "break"} /\ seen'[d] # None => pc'[seen'[d]] \in Over
    <3>1. ASSUME NEW d \in Compiles, pc'[d] \in {"recheck", "break"}, seen'[d] # None
          PROVE  pc'[seen'[d]] \in Over
      <4>1. d # c /\ seen'[d] = seen[d] /\ pc'[d] = pc[d] /\ seen[d] \in Compiles
        BY <2>3, <3>1
      <4>2. pc[seen[d]] \in Over
        BY <3>1, <4>1
      <4>3. pc[c] = "break"
        BY <1>7 DEF BreakLock
      <4> QED BY <2>3, <4>1, <4>2, <4>3
    <3> QED BY <3>1
  <2> QED BY <2>3, <2>4, <2>5
<1>8. CASE Heartbeat(c)
  BY <1>8, ConstAssumption DEF Heartbeat
<1> QED BY <1>1, <1>2, <1>3, <1>4, <1>5, <1>6, <1>7, <1>8 DEF AcquireStep

LEMMA HoldBuild ==
  ASSUME TypeInv, HoldInv, NEW c \in Compiles, BuildStep(c)
  PROVE  HoldInv'
<1>1. PICK place \in Building \cup {"read"} :
        /\ pc' = [pc EXCEPT ![c] = place]
        /\ beating' = beating \/ (place = "read" /\ beating' = beating \ {c})
  BY Places DEF BuildStep, StartBuild, WritePages, MarkCompiled, Complete,
     AfterComplete, PublishPointer, BuildFails, Undo, ListTrees, Remove,
     CleanupFails, GoTo, lockVars
<1>2. pc[c] \in Building /\ UNCHANGED <<lock, age, seen>>
  BY Places DEF BuildStep, StartBuild, WritePages, MarkCompiled, Complete,
     PublishPointer, BuildFails, Undo, ListTrees, Remove, CleanupFails, At, lockVars
<1> QED
  BY <1>1, <1>2, Places DEF TypeInv, TypeOK, HoldInv, Holding

LEMMA HoldElse ==
  ASSUME TypeInv, HoldInv,
         \/ \E c \in Compiles : ReleaseStep(c) \/ Crash(c)
         \/ Commit \/ Tick \/ UNCHANGED vars
  PROVE  HoldInv'
<1> USE Places DEF TypeInv, TypeOK, HoldInv, Holding, At, GoTo
<1>1. ASSUME NEW c \in Compiles, ReadOwnLock(c) \/ ReleaseFails(c) PROVE HoldInv'
  BY <1>1 DEF ReadOwnLock, ReleaseFails, lockVars
<1>2. ASSUME NEW c \in Compiles, Unlink(c) PROVE HoldInv'
  BY <1>2, ConstAssumption DEF Unlink
<1>3. ASSUME NEW c \in Compiles, Crash(c) PROVE HoldInv'
  BY <1>3, ConstAssumption DEF Crash
<1>4. CASE Commit \/ UNCHANGED vars
  BY <1>4 DEF Commit, vars, lockVars
<1>5. CASE Tick
  BY <1>5, ConstAssumption DEF Tick, Waiting
<1> QED BY <1>1, <1>2, <1>3, <1>4, <1>5 DEF ReleaseStep

LEMMA MistakenStays == ASSUME [Next]_vars PROVE ~mistaken' => ~mistaken
BY DEF Next, AcquireStep, Begin, Open, WritePayload, WritePayloadFails, Inspect,
     Recheck, BreakLock, BuildStep, StartBuild, WritePages, MarkCompiled, Complete,
     PublishPointer, BuildFails, Undo, ListTrees, Remove, CleanupFails,
     ReleaseStep, ReadOwnLock, Unlink, ReleaseFails, Wake, Heartbeat, Crash,
     Commit, Tick, vars, observers

LEMMA HoldNext == ASSUME TypeInv, HoldInv, [Next]_vars, ~mistaken' PROVE HoldInv'
BY HoldAcquire, HoldBuild, HoldElse DEF Next

LEMMA LockNext == ASSUME TypeInv, LockInv, [Next]_vars PROVE LockInv'
BY MistakenStays, HoldNext DEF LockInv

\* Two compiles never write at a time, unless a contender's rm() removed a lock
\* younger than the one it had inspected (acquireCompileLock).
THEOREM WritersAlone == Spec => []OneWriter
<1>1. Init => LockInv
  BY Places, ConstAssumption DEF Init, LockInv, HoldInv, Holding
<1>2. ASSUME TypeInv, LockInv PROVE OneWriter
  <2>1. CASE ~mistaken
    <3>1. Writers \in SUBSET {lock}
      BY <1>2, <2>1 DEF Writers, LockInv, HoldInv, Holding
    <3>2. Writers = {} \/ Writers = {lock}
      BY <3>1
    <3>3. Cardinality(Writers) \in {0, 1}
      BY <3>2, FS_EmptySet, FS_Singleton
    <3> QED BY <3>3 DEF OneWriter
  <2>2. CASE mistaken
    BY <2>2 DEF OneWriter
  <2> QED BY <2>1, <2>2
<1> QED BY <1>1, <1>2, TypeInit, TypeNext, LockNext, PTL DEF Spec

-----------------------------------------------------------------------------
(* Names.  A compile's generation is named once it holds the lock; names   *)
(* differ, and a later one sorts after all the earlier ones.               *)

Named == {d \in Compiles : born[d] > 0}
BornInv ==
  /\ \A c \in Compiles : pc[c] \in {"idle", "write"} \cup Contending => born[c] = 0
  /\ \A c \in Compiles : pc[c] \in Building => born[c] > 0
  /\ \A c \in Compiles : born[c] = 0 \/ pc[c] = "begin" => tree[c] = "none"
  /\ \A c \in Compiles : born[c] <= Cardinality(Named)
  /\ \A c, d \in Compiles : c # d /\ born[c] > 0 => born[c] # born[d]
  /\ \A c \in Compiles : snapshot[c] <= graph
  /\ \A c \in Compiles : \A x \in listed[c] : x[1] \in Parent(c)

\* A step that names no tree, and gives no contents to one that has no name.
LEMMA BornQuiet ==
  ASSUME TypeInv, BornInv, UNCHANGED <<born, snapshot>>, graph' \in Nat, graph <= graph',
         \A c \in Compiles :
           /\ \/ pc'[c] = pc[c]
              \/ pc[c] \in {"idle"} \cup Contending
                   /\ pc'[c] \in {"write", "failed", "crashed"} \cup Contending
              \/ pc[c] = "write" /\ pc'[c] \in Over
              \/ pc[c] \in Building \cup Releasing /\ pc'[c] \in Over \cup Releasing
              \/ pc[c] \in Building /\ pc'[c] \in Building \ {"begin"}
           /\ tree'[c] = tree[c] \/ tree'[c] = "none" \/ (pc[c] \in Building /\ pc'[c] # "begin")
           /\ listed'[c] \subseteq listed[c]
  PROVE  BornInv'
<1>1. Named' = Named
  BY DEF Named
<1>2. ASSUME NEW c \in Compiles
      PROVE  /\ pc'[c] \in {"idle", "write"} \cup Contending => born[c] = 0
             /\ pc'[c] \in Building => born[c] > 0
             /\ born[c] = 0 \/ pc'[c] = "begin" => tree'[c] = "none"
  BY <1>2, Places DEF BornInv, TypeInv, TypeOK
<1>3. ASSUME NEW c \in Compiles
      PROVE  /\ snapshot'[c] <= graph'
             /\ \A x \in listed'[c] : x[1] \in Parent(c)
  BY <1>3 DEF BornInv, TypeInv, TypeOK
<1> QED
  BY <1>1, <1>2, <1>3 DEF BornInv, Parent

LEMMA BornWrite ==
  ASSUME TypeInv, BornInv, NEW c \in Compiles, WritePayload(c)
  PROVE  BornInv'
<1>1. /\ pc[c] = "write" /\ pc' = [pc EXCEPT ![c] = "begin"]
      /\ born' = [born EXCEPT ![c] = 1 + Cardinality(Named)]
      /\ UNCHANGED <<snapshot, tree, listed, graph>>
  BY DEF WritePayload, At, GoTo, bounds, Named
<1>2. IsFiniteSet(Named) /\ Cardinality(Named) \in Nat
  BY ConstAssumption, FS_Subset, FS_CardinalityType DEF Named
<1>3. born[c] = 0 /\ c \notin Named
  BY <1>1 DEF BornInv, Named
<1>4. Named' = Named \cup {c}
  <2>1. \A d \in Compiles : d \in Named' <=> d \in Named \/ d = c
    BY <1>1, <1>2 DEF Named, TypeInv, TypeOK
  <2> QED BY <2>1 DEF Named
<1>5. Cardinality(Named') = 1 + Cardinality(Named)
  BY <1>2, <1>3, <1>4, FS_AddElement
<1>6. ASSUME NEW d \in Compiles
      PROVE  /\ pc'[d] \in {"idle", "write"} \cup Contending => born'[d] = 0
             /\ pc'[d] \in Building => born'[d] > 0
             /\ born'[d] = 0 \/ pc'[d] = "begin" => tree'[d] = "none"
             /\ born'[d] <= Cardinality(Named')
  BY <1>1, <1>2, <1>3, <1>5, <1>6, Places DEF BornInv, TypeInv, TypeOK
<1>7. ASSUME NEW d \in Compiles, NEW e \in Compiles, d # e, born'[d] > 0
      PROVE  born'[d] # born'[e]
  BY <1>1, <1>2, <1>7 DEF BornInv, TypeInv, TypeOK
<1> QED BY <1>1, <1>6, <1>7 DEF BornInv, Parent

LEMMA BornBuild ==
  ASSUME TypeInv, BornInv, NEW c \in Compiles, BuildStep(c)
  PROVE  BornInv'
<1>1. CASE StartBuild(c)
  <2>1. /\ pc[c] = "begin" /\ pc' = [pc EXCEPT ![c] = "build"]
        /\ tree' = [tree EXCEPT ![c] = "building"]
        /\ snapshot' = [snapshot EXCEPT ![c] = graph]
        /\ UNCHANGED <<born, listed, graph>>
    BY <1>1 DEF StartBuild, At, GoTo, bounds
  <2>2. Named' = Named
    BY <2>1 DEF Named
  <2>3. ASSUME NEW d \in Compiles
        PROVE  /\ pc'[d] \in {"idle", "write"} \cup Contending => born'[d] = 0
               /\ pc'[d] \in Building => born'[d] > 0
               /\ born'[d] = 0 \/ pc'[d] = "begin" => tree'[d] = "none"
               /\ snapshot'[d] <= graph'
    BY <2>1, <2>3, Places DEF BornInv, TypeInv, TypeOK
  <2> QED BY <2>1, <2>2, <2>3 DEF BornInv, Parent
<1>2. CASE ListTrees(c)
  <2>1. /\ pc[c] = "list" /\ pc' = [pc EXCEPT ![c] = "remove"]
        /\ UNCHANGED <<born, tree, snapshot, graph>>
        /\ \A d \in Compiles : \A x \in listed'[d] :
             d # c => x \in listed[d]
        /\ \A x \in listed'[c] : x[1] \in Parent(c)
    BY <1>2 DEF ListTrees, At, GoTo, bounds, TypeInv, TypeOK
  <2>2. Named' = Named
    BY <2>1 DEF Named
  <2>3. ASSUME NEW d \in Compiles
        PROVE  /\ pc'[d] \in {"idle", "write"} \cup Contending => born'[d] = 0
               /\ pc'[d] \in Building => born'[d] > 0
               /\ born'[d] = 0 \/ pc'[d] = "begin" => tree'[d] = "none"
    BY <2>1, <2>3, Places DEF BornInv, TypeInv, TypeOK
  <2>4. \A d \in Compiles : \A x \in listed'[d] : x[1] \in Parent(d)
    BY <2>1 DEF BornInv
  <2> QED BY <2>1, <2>2, <2>3, <2>4 DEF BornInv, Parent
<1>3. CASE \/ WritePages(c) \/ MarkCompiled(c) \/ Complete(c) \/ PublishPointer(c)
           \/ BuildFails(c) \/ Undo(c) \/ Remove(c) \/ CleanupFails(c)
  <2>1. /\ pc[c] \in Building
        /\ \E place \in (Building \ {"begin"}) \cup {"read"} : pc' = [pc EXCEPT ![c] = place]
        /\ UNCHANGED <<born, snapshot, graph>>
    BY <1>3, Places DEF WritePages, MarkCompiled, Complete, AfterComplete,
       PublishPointer, BuildFails, Undo, Remove, CleanupFails, MayFail, At, GoTo, bounds,
       treeVars
  <2>2. \A d \in Compiles : tree'[d] = tree[d] \/ tree'[d] = "none" \/ d = c
    BY <1>3 DEF WritePages, MarkCompiled, Complete, PublishPointer, BuildFails,
       Undo, Remove, CleanupFails, treeVars, TypeInv, TypeOK
  <2>3. \A d \in Compiles : listed'[d] \subseteq listed[d]
    BY <1>3 DEF WritePages, MarkCompiled, Complete, PublishPointer, BuildFails,
       Undo, Remove, CleanupFails, treeVars, TypeInv, TypeOK
  <2>4. graph \in Nat
    BY ConstAssumption DEF TypeInv, TypeOK
  <2>5. \A d \in Compiles :
          /\ \/ pc'[d] = pc[d]
             \/ pc[d] \in Building /\ pc'[d] \in Releasing
             \/ pc[d] \in Building /\ pc'[d] \in Building \ {"begin"}
          /\ d = c => pc[d] \in Building /\ pc'[d] # "begin"
    BY <2>1, Places DEF TypeInv, TypeOK
  <2> QED BY <2>1, <2>2, <2>3, <2>4, <2>5, BornQuiet
<1> QED BY <1>1, <1>2, <1>3 DEF BuildStep

LEMMA BornElse ==
  ASSUME TypeInv, BornInv, NEW c \in Compiles,
         \/ Begin(c) \/ Open(c) \/ WritePayloadFails(c) \/ Inspect(c) \/ Recheck(c)
         \/ BreakLock(c) \/ Wake(c) \/ Heartbeat(c) \/ ReleaseStep(c) \/ Crash(c)
         \/ Commit \/ Tick \/ UNCHANGED vars
  PROVE  BornInv'
<1>1. /\ UNCHANGED <<born, snapshot, tree>>
      /\ graph' \in {graph, graph + 1}
  BY DEF Begin, Open, WritePayloadFails, Inspect, Recheck, BreakLock, Wake, Heartbeat,
     ReleaseStep, ReadOwnLock, Unlink, ReleaseFails, Crash, Commit, Tick, MayFail, vars,
     treeVars, bounds
<1>2. \A d \in Compiles : listed'[d] \subseteq listed[d]
  BY DEF Begin, Open, WritePayloadFails, Inspect, Recheck, BreakLock, Wake, Heartbeat,
     ReleaseStep, ReadOwnLock, Unlink, ReleaseFails, Crash, Commit, Tick, vars,
     treeVars, TypeInv, TypeOK
<1>3. \/ UNCHANGED pc
      \/ \E place : /\ pc' = [pc EXCEPT ![c] = place]
                    /\ \/ /\ pc[c] \in {"idle"} \cup Contending
                          /\ place \in {"write", "failed", "crashed"} \cup Contending
                       \/ pc[c] = "write" /\ place \in Over
                       \/ pc[c] \in Building \cup Releasing /\ place \in Over \cup Releasing
  <2>1. CASE Begin(c) \/ Open(c) \/ Inspect(c) \/ Recheck(c) \/ BreakLock(c) \/ Wake(c)
    BY <2>1, Places DEF Begin, Open, Inspect, NextPoll, Recheck, BreakLock, Wake, At, GoTo
  <2>2. CASE WritePayloadFails(c) \/ ReleaseStep(c)
    BY <2>2, Places DEF WritePayloadFails, ReleaseStep, ReadOwnLock, Unlink,
       ReleaseFails, At, GoTo
  <2>3. CASE Crash(c)
    <3>1. pc[c] \in {"write"} \cup Contending \cup Building \cup Releasing
      BY <2>3, Places DEF Crash, Live, TypeInv, TypeOK
    <3> QED BY <2>3, <3>1, Places DEF Crash, GoTo
  <2>4. CASE Heartbeat(c) \/ Commit \/ Tick \/ UNCHANGED vars
    BY <2>4 DEF Heartbeat, Commit, Tick, vars
  <2> QED BY <2>1, <2>2, <2>3, <2>4
<1>4. \A d \in Compiles :
        \/ pc'[d] = pc[d]
        \/ pc[d] \in {"idle"} \cup Contending
             /\ pc'[d] \in {"write", "failed", "crashed"} \cup Contending
        \/ pc[d] = "write" /\ pc'[d] \in Over
        \/ pc[d] \in Building \cup Releasing /\ pc'[d] \in Over \cup Releasing
  BY <1>3 DEF TypeInv, TypeOK
<1>5. graph \in Nat /\ graph' \in Nat /\ graph <= graph'
  BY <1>1, ConstAssumption DEF TypeInv, TypeOK
<1> QED BY <1>1, <1>2, <1>4, <1>5, BornQuiet

LEMMA BornNext == ASSUME TypeInv, BornInv, [Next]_vars PROVE BornInv'
<1>1. CASE UNCHANGED vars
  <2>1. CASE Compiles = {}
    BY <1>1, <2>1 DEF vars, lockVars, treeVars, bounds, BornInv, Named, Parent
  <2>2. CASE Compiles # {}
    BY <1>1, <2>2, BornElse
  <2> QED BY <2>1, <2>2
<1>2. ASSUME NEW c \in Compiles,
             \/ AcquireStep(c) \/ BuildStep(c) \/ ReleaseStep(c)
             \/ Wake(c) \/ Heartbeat(c) \/ Crash(c)
      PROVE  BornInv'
  <2>1. CASE WritePayload(c)
    BY <2>1, BornWrite
  <2>2. CASE BuildStep(c)
    BY <2>2, BornBuild
  <2>3. CASE \/ Begin(c) \/ Open(c) \/ WritePayloadFails(c) \/ Inspect(c) \/ Recheck(c)
             \/ BreakLock(c) \/ Wake(c) \/ Heartbeat(c) \/ ReleaseStep(c) \/ Crash(c)
    BY <2>3, BornElse
  <2> QED BY <1>2, <2>1, <2>2, <2>3 DEF AcquireStep
<1>3. CASE Commit \/ Tick
  <2>1. CASE Compiles = {}
    BY <1>3, <2>1 DEF Commit, Tick, vars, lockVars, treeVars, bounds, BornInv, Named, Parent
  <2>2. CASE Compiles # {}
    BY <1>3, <2>2, BornElse
  <2> QED BY <2>1, <2>2
<1> QED BY <1>1, <1>2, <1>3 DEF Next

-----------------------------------------------------------------------------
(* Trees and their contents, as long as the lock keeps compiles apart.     *)

\* A tree follows its compile's progress, and nobody else touches it.
WholeInv ==
  \A c \in Compiles :
    /\ tree[c] \in {"none", "building", "marked", "complete"}
    /\ pc[c] \in {"build", "mark"} => tree[c] = "building"
    /\ pc[c] = "rename" => tree[c] = "marked"
    /\ pc[c] \in {"publish", "list", "remove"} => tree[c] = "complete"

\* Later names have later contents, those of the compile under way are the
\* latest, and the published generation stays.
OrderInv ==
  /\ \A c, d \in Compiles :
       Generation(c) /\ Generation(d) /\ born[c] <= born[d] => snapshot[c] <= snapshot[d]
  /\ \A c, d \in Compiles : pc[c] \in Building => born[d] <= born[c]
  /\ \A c, d \in Compiles :
       pc[c] \in Building \ {"begin", "undo"} /\ Generation(d) => snapshot[d] <= snapshot[c]
  /\ pointer # None => Generation(pointer)
  /\ \A c \in Global : pc[c] \in {"list", "remove"} => pointer = c

ApartInv == ~mistaken => HoldInv /\ WholeInv /\ OrderInv

\* Only one compile writes, and the others are not among the writers afterwards.
LEMMA Alone ==
  ASSUME TypeInv, HoldInv, NEW c \in Compiles, pc[c] \in Holding
  PROVE  \A d \in Compiles \ {c} : pc[d] \notin Building
BY Places DEF HoldInv, Holding

\* Steps that touch no tree and lead no compile on with its own.
LEMMA ApartQuiet ==
  ASSUME TypeInv, WholeInv, OrderInv, UNCHANGED <<snapshot, born, tree, pointer>>,
         \A c \in Compiles : pc'[c] = pc[c] \/ pc'[c] \notin Building
  PROVE  WholeInv' /\ OrderInv'
<1>1. WholeInv'
  BY Places DEF WholeInv
<1>2. \A c \in Compiles : Generation(c)' <=> Generation(c)
  BY DEF Generation
<1>3. pointer # None => Generation(pointer)'
  BY DEF OrderInv, Generation
<1>4. \A c \in Global : c \in Compiles
  BY ConstAssumption
<1> QED BY <1>1, <1>2, <1>3, <1>4, Places DEF OrderInv

LEMMA ApartWrite ==
  ASSUME TypeInv, BornInv, HoldInv, WholeInv, OrderInv, NEW c \in Compiles, WritePayload(c)
  PROVE  WholeInv' /\ OrderInv'
<1>1. /\ pc[c] = "write" /\ pc' = [pc EXCEPT ![c] = "begin"]
      /\ born' = [born EXCEPT ![c] = 1 + Cardinality(Named)]
      /\ UNCHANGED <<snapshot, tree, pointer>>
  BY DEF WritePayload, At, GoTo, Named
<1>2. Cardinality(Named) \in Nat
  BY ConstAssumption, FS_Subset, FS_CardinalityType DEF Named
<1>3. tree[c] = "none"
  BY <1>1 DEF BornInv
<1>4. \A d \in Compiles \ {c} : pc'[d] \notin Building
  BY <1>1, Alone DEF Holding, TypeInv, TypeOK
<1>5. WholeInv'
  BY <1>1 DEF WholeInv, TypeInv, TypeOK
<1>6. \A d \in Compiles : Generation(d)' => Generation(d) /\ d # c
  BY <1>1, <1>3 DEF Generation
<1>7. \A d, e \in Compiles :
        Generation(d)' /\ Generation(e)' /\ born'[d] <= born'[e] => snapshot'[d] <= snapshot'[e]
  BY <1>1, <1>6 DEF OrderInv, TypeInv, TypeOK
<1>8. \A d \in Compiles : born'[d] <= born'[c]
  BY <1>1, <1>2 DEF BornInv, TypeInv, TypeOK
<1>9. /\ \A d, e \in Compiles : pc'[d] \in Building => born'[e] <= born'[d]
      /\ \A d, e \in Compiles :
           pc'[d] \in Building \ {"begin", "undo"} /\ Generation(e)' => snapshot'[e] <= snapshot'[d]
  BY <1>1, <1>4, <1>8 DEF TypeInv, TypeOK
<1>10. pointer' # None => Generation(pointer)'
  BY <1>1 DEF OrderInv, Generation
<1>11. \A d \in Global : pc'[d] \in {"list", "remove"} => pointer' = d
  BY <1>1, ConstAssumption DEF OrderInv, TypeInv, TypeOK
<1> QED BY <1>5, <1>7, <1>9, <1>10, <1>11 DEF OrderInv

\* What Remove keeps.
LEMMA RemoveKeeps ==
  ASSUME TypeInv, BornInv, OrderInv, NEW c \in Compiles, Remove(c),
         NEW g \in Global, Generation(g), pointer = None \/ g = pointer
  PROVE  tree'[g] = tree[g]
<1>1. g \in Compiles /\ ~InBuilding(g)
  BY ConstAssumption DEF Generation, InBuilding
<1>2. CASE c \in Global
  <2>1. g = c
    BY <1>2, ConstAssumption DEF OrderInv, Remove, At
  <2> QED BY <1>1, <2>1 DEF Remove, Keep
<1>3. CASE c \notin Global
  <2>1. <<g, "gen">> \notin listed[c]
    BY <1>3 DEF BornInv, Parent
  <2> QED BY <1>1, <2>1 DEF Remove
<1> QED BY <1>2, <1>3

LEMMA WholeBuild ==
  ASSUME TypeInv, BornInv, HoldInv, WholeInv, NEW c \in Compiles, BuildStep(c)
  PROVE  WholeInv'
<1>1. pc[c] \in Building
  BY Places DEF BuildStep, StartBuild, WritePages, MarkCompiled, Complete,
     PublishPointer, BuildFails, Undo, ListTrees, Remove, CleanupFails, At
<1>2. \E place \in Building \cup Releasing : pc' = [pc EXCEPT ![c] = place]
  BY Places DEF BuildStep, StartBuild, WritePages, MarkCompiled, Complete,
     AfterComplete, PublishPointer, BuildFails, Undo, ListTrees, Remove, CleanupFails, GoTo
<1>3. \A d \in Compiles \ {c} : pc[d] \notin Building /\ pc'[d] = pc[d]
  BY <1>1, <1>2, Alone DEF Holding, TypeInv, TypeOK
<1>4. \A d \in Compiles \ {c} : tree'[d] = tree[d] \/ tree'[d] = "none"
  BY DEF BuildStep, StartBuild, WritePages, MarkCompiled, Complete, PublishPointer,
     BuildFails, Undo, ListTrees, Remove, CleanupFails, treeVars, TypeInv, TypeOK
<1>5. /\ tree'[c] \in {"none", "building", "marked", "complete"}
      /\ pc'[c] \in {"build", "mark"} => tree'[c] = "building"
      /\ pc'[c] = "rename" => tree'[c] = "marked"
      /\ pc'[c] \in {"publish", "list", "remove"} => tree'[c] = "complete"
  <2> USE DEF At, GoTo, TypeInv, TypeOK, WholeInv
  <2>1. CASE StartBuild(c) \/ WritePages(c)
    BY <2>1 DEF StartBuild, WritePages
  <2>2. CASE MarkCompiled(c)
    BY <2>2 DEF MarkCompiled
  <2>3. CASE Complete(c)
    BY <2>3 DEF Complete, AfterComplete
  <2>4. CASE PublishPointer(c) \/ BuildFails(c) \/ CleanupFails(c) \/ ListTrees(c)
    BY <2>4 DEF PublishPointer, BuildFails, CleanupFails, ListTrees, treeVars
  <2>5. CASE Undo(c) \/ Remove(c)
    BY <2>5 DEF Undo, Remove
  <2> QED BY <2>1, <2>2, <2>3, <2>4, <2>5 DEF BuildStep
<1> QED BY <1>3, <1>4, <1>5, Places DEF WholeInv

\* The order of contents after a step of the one compile that writes.
LEMMA OrderBuild ==
  ASSUME TypeInv, BornInv, HoldInv, WholeInv, OrderInv, NEW c \in Compiles, BuildStep(c)
  PROVE  OrderInv'
<1>1. pc[c] \in Building
  BY Places DEF BuildStep, StartBuild, WritePages, MarkCompiled, Complete,
     PublishPointer, BuildFails, Undo, ListTrees, Remove, CleanupFails, At
<1>2. \E place \in Building \cup Releasing : pc' = [pc EXCEPT ![c] = place]
  BY Places DEF BuildStep, StartBuild, WritePages, MarkCompiled, Complete,
     AfterComplete, PublishPointer, BuildFails, Undo, ListTrees, Remove, CleanupFails, GoTo
<1>3. \A d \in Compiles \ {c} : pc'[d] \notin Building
  BY <1>1, <1>2, Alone DEF Holding, TypeInv, TypeOK
<1>4. born' = born
  BY DEF BuildStep, StartBuild, WritePages, MarkCompiled, Complete, PublishPointer,
     BuildFails, Undo, ListTrees, Remove, CleanupFails, treeVars
<1>5. \A d, e \in Compiles : pc'[d] \in Building => born'[e] <= born'[d]
  BY <1>1, <1>3, <1>4 DEF OrderInv
<1>6. CASE StartBuild(c)
  <2>1. /\ pc' = [pc EXCEPT ![c] = "build"]
        /\ tree' = [tree EXCEPT ![c] = "building"]
        /\ snapshot' = [snapshot EXCEPT ![c] = graph]
        /\ pointer' = pointer /\ tree[c] = "none"
    BY <1>6 DEF StartBuild, GoTo, At, BornInv
  <2>2. \A d \in Compiles : Generation(d)' <=> Generation(d) /\ d # c
    BY <2>1 DEF Generation, TypeInv, TypeOK
  <2>3. \A d, e \in Compiles :
          Generation(d)' /\ Generation(e)' /\ born'[d] <= born'[e] => snapshot'[d] <= snapshot'[e]
    BY <1>4, <2>1, <2>2 DEF OrderInv, TypeInv, TypeOK
  <2>4. \A d \in Compiles : Generation(d)' => snapshot'[d] <= snapshot'[c]
    BY <2>1, <2>2 DEF BornInv, TypeInv, TypeOK
  <2>5. \A d, e \in Compiles :
          pc'[d] \in Building \ {"begin", "undo"} /\ Generation(e)' => snapshot'[e] <= snapshot'[d]
    BY <1>3, <2>4
  <2>6. pointer' # None => Generation(pointer)'
    BY <2>1, <2>2, ConstAssumption DEF OrderInv, TypeInv, TypeOK, Generation
  <2>7. \A d \in Global : pc'[d] \in {"list", "remove"} => pointer' = d
    BY <2>1, ConstAssumption DEF OrderInv, TypeInv, TypeOK
  <2> QED BY <1>5, <2>3, <2>5, <2>6, <2>7 DEF OrderInv
<1>7. CASE Complete(c)
  <2>1. /\ pc[c] = "rename" /\ tree[c] = "marked"
        /\ tree' = [tree EXCEPT ![c] = "complete"]
        /\ pc' = [pc EXCEPT ![c] = IF c \in Global THEN "publish" ELSE "list"]
        /\ UNCHANGED <<snapshot, pointer>>
    BY <1>7 DEF Complete, AfterComplete, GoTo, At, WholeInv
  <2>2. \A d \in Compiles : Generation(d)' <=> Generation(d) \/ d = c
    BY <2>1 DEF Generation, TypeInv, TypeOK
  <2>3. \A d \in Compiles : Generation(d) => snapshot[d] <= snapshot[c]
    BY <2>1, Places DEF OrderInv
  <2>4. ASSUME NEW d \in Compiles, NEW e \in Compiles,
               Generation(d)', Generation(e)', born'[d] <= born'[e]
        PROVE  snapshot'[d] <= snapshot'[e]
    <3>1. CASE d = e
      BY <2>1, <3>1, ConstAssumption DEF TypeInv, TypeOK
    <3>2. CASE d # e /\ d = c
      <4>1. born[e] <= born[c] /\ born[c] > 0 /\ born[c] <= born[e]
        BY <1>1, <1>4, <2>4, <3>2 DEF OrderInv, BornInv
      <4>2. born[e] = born[c]
        BY <4>1 DEF TypeInv, TypeOK
      <4> QED BY <3>2, <4>1, <4>2 DEF BornInv
    <3>3. CASE d # c /\ e = c
      BY <2>1, <2>2, <2>3, <2>4, <3>3
    <3>4. CASE d # c /\ e # c
      BY <1>4, <2>1, <2>2, <2>4, <3>4 DEF OrderInv
    <3> QED BY <3>1, <3>2, <3>3, <3>4
  <2>5. \A d, e \in Compiles :
          pc'[d] \in Building \ {"begin", "undo"} /\ Generation(e)' => snapshot'[e] <= snapshot'[d]
    BY <1>3, <2>1, <2>2, <2>3, ConstAssumption DEF TypeInv, TypeOK
  <2>6. pointer' # None => Generation(pointer)'
    BY <2>1, <2>2, ConstAssumption DEF OrderInv, TypeInv, TypeOK, Generation
  <2>7. \A d \in Global : pc'[d] \in {"list", "remove"} => pointer' = d
    BY <2>1, ConstAssumption DEF OrderInv, TypeInv, TypeOK
  <2> QED BY <1>5, <2>4, <2>5, <2>6, <2>7 DEF OrderInv
<1>8. CASE \/ WritePages(c) \/ MarkCompiled(c) \/ PublishPointer(c) \/ BuildFails(c)
           \/ Undo(c) \/ ListTrees(c) \/ Remove(c) \/ CleanupFails(c)
  <2>1. snapshot' = snapshot
    BY <1>8 DEF WritePages, MarkCompiled, PublishPointer, BuildFails, Undo, ListTrees,
       Remove, CleanupFails, treeVars
  <2>2. \A d \in Compiles : Generation(d)' => Generation(d)
    <3> USE DEF TypeInv, TypeOK, Generation
    <3>1. CASE WritePages(c) \/ MarkCompiled(c) \/ Undo(c)
      BY <3>1 DEF WritePages, MarkCompiled, Undo
    <3>2. CASE PublishPointer(c) \/ BuildFails(c) \/ ListTrees(c) \/ CleanupFails(c)
      BY <3>2 DEF PublishPointer, BuildFails, ListTrees, CleanupFails, treeVars
    <3>3. CASE Remove(c)
      BY <3>3 DEF Remove
    <3> QED BY <1>8, <3>1, <3>2, <3>3
  <2>3. \A d, e \in Compiles :
          Generation(d)' /\ Generation(e)' /\ born'[d] <= born'[e] => snapshot'[d] <= snapshot'[e]
    BY <1>4, <2>1, <2>2 DEF OrderInv
  <2>4. pc'[c] \in Building \ {"begin", "undo"} => pc[c] \in Building \ {"begin", "undo"}
    BY <1>8, Places DEF WritePages, MarkCompiled, PublishPointer, BuildFails, Undo,
       ListTrees, Remove, CleanupFails, At, GoTo, TypeInv, TypeOK
  <2>5. \A d, e \in Compiles :
          pc'[d] \in Building \ {"begin", "undo"} /\ Generation(e)' => snapshot'[e] <= snapshot'[d]
    BY <1>3, <2>1, <2>2, <2>4 DEF OrderInv
  <2>6. CASE PublishPointer(c)
    <3>1. /\ pc[c] = "publish" /\ pc' = [pc EXCEPT ![c] = "list"]
          /\ pointer' = c /\ tree' = tree
      BY <2>6 DEF PublishPointer, At, GoTo
    <3>2. Generation(pointer)'
      BY <3>1 DEF WholeInv, Generation
    <3>3. \A d \in Global : pc'[d] \in {"list", "remove"} => pointer' = d
      BY <1>3, <3>1, Places, ConstAssumption
    <3> QED BY <1>5, <2>3, <2>5, <3>2, <3>3 DEF OrderInv
  <2>7. CASE ~PublishPointer(c)
    <3>1. pointer' = pointer
      BY <1>8, <2>7 DEF WritePages, MarkCompiled, BuildFails, Undo, ListTrees,
         Remove, CleanupFails, treeVars
    <3>2. pc'[c] \in {"list", "remove"} => pc[c] \in {"list", "remove"}
      BY <1>8, <2>7, Places DEF WritePages, MarkCompiled, BuildFails, Undo, ListTrees,
         Remove, CleanupFails, At, GoTo, TypeInv, TypeOK
    <3>3. \A d \in Global : pc'[d] \in {"list", "remove"} => pointer' = d
      BY <1>3, <3>1, <3>2, Places, ConstAssumption DEF OrderInv
    <3>4. ASSUME pointer # None PROVE Generation(pointer)'
      <4>1. pointer \in Global /\ pointer \in Compiles /\ Generation(pointer)
        BY <3>4, ConstAssumption DEF OrderInv, TypeInv, TypeOK
      <4>2. tree'[pointer] = tree[pointer]
        <5>1. CASE Remove(c)
          BY <4>1, <5>1, RemoveKeeps
        <5>2. CASE Undo(c)
          BY <4>1, <5>2 DEF Undo, InBuilding, Generation, TypeInv, TypeOK
        <5>3. CASE WritePages(c) \/ MarkCompiled(c)
          BY <4>1, <5>3 DEF WritePages, MarkCompiled, WholeInv, Generation, At, TypeInv, TypeOK
        <5>4. CASE BuildFails(c) \/ ListTrees(c) \/ CleanupFails(c)
          BY <5>4 DEF BuildFails, ListTrees, CleanupFails, treeVars
        <5> QED BY <1>8, <2>7, <5>1, <5>2, <5>3, <5>4
      <4> QED BY <3>1, <4>1, <4>2 DEF Generation
    <3> QED BY <1>5, <2>3, <2>5, <3>1, <3>3, <3>4 DEF OrderInv
  <2> QED BY <2>6, <2>7
<1> QED BY <1>6, <1>7, <1>8 DEF BuildStep

LEMMA ApartNext ==
  ASSUME TypeInv, BornInv, ApartInv, [Next]_vars
  PROVE  ApartInv'
<1> SUFFICES ASSUME ~mistaken' PROVE HoldInv' /\ WholeInv' /\ OrderInv'
  BY DEF ApartInv
<1>1. HoldInv /\ WholeInv /\ OrderInv
  BY MistakenStays DEF ApartInv
<1>2. HoldInv'
  BY <1>1, HoldNext
<1>3. ASSUME NEW c \in Compiles, WritePayload(c) PROVE WholeInv' /\ OrderInv'
  BY <1>1, <1>3, ApartWrite
<1>4. ASSUME NEW c \in Compiles, BuildStep(c) PROVE WholeInv' /\ OrderInv'
  BY <1>1, <1>4, WholeBuild, OrderBuild
<1>5. ASSUME NEW c \in Compiles,
             \/ Begin(c) \/ Open(c) \/ WritePayloadFails(c) \/ Inspect(c) \/ Recheck(c)
             \/ BreakLock(c) \/ Wake(c) \/ Heartbeat(c) \/ ReleaseStep(c) \/ Crash(c)
      PROVE  WholeInv' /\ OrderInv'
  <2>1. UNCHANGED <<snapshot, born, tree, pointer>>
    BY <1>5 DEF Begin, Open, WritePayloadFails, Inspect, Recheck, BreakLock, Wake,
       Heartbeat, ReleaseStep, ReadOwnLock, Unlink, ReleaseFails, Crash, treeVars
  <2>2. \A d \in Compiles : pc'[d] = pc[d] \/ pc'[d] \notin Building
    BY <1>5, Places DEF Begin, Open, WritePayloadFails, Inspect, NextPoll, Recheck,
       BreakLock, Wake, Heartbeat, ReleaseStep, ReadOwnLock, Unlink, ReleaseFails,
       Crash, GoTo, TypeInv, TypeOK
  <2> QED BY <1>1, <2>1, <2>2, ApartQuiet
<1>6. CASE Commit \/ Tick \/ UNCHANGED vars
  <2>1. UNCHANGED <<snapshot, born, tree, pointer>>
    BY <1>6 DEF Commit, Tick, vars, treeVars
  <2>2. \A d \in Compiles : pc'[d] = pc[d] \/ pc'[d] \notin Building
    BY <1>6 DEF Commit, Tick, vars
  <2> QED BY <1>1, <1>2, <2>1, <2>2, ApartQuiet
<1>7. ASSUME NEW c \in Compiles,
             \/ AcquireStep(c) \/ BuildStep(c) \/ ReleaseStep(c)
             \/ Wake(c) \/ Heartbeat(c) \/ Crash(c)
      PROVE  WholeInv' /\ OrderInv'
  <2>1. CASE WritePayload(c)
    BY <1>3, <2>1
  <2>2. CASE BuildStep(c)
    BY <1>4, <2>2
  <2>3. CASE \/ Begin(c) \/ Open(c) \/ WritePayloadFails(c) \/ Inspect(c) \/ Recheck(c)
             \/ BreakLock(c) \/ Wake(c) \/ Heartbeat(c) \/ ReleaseStep(c) \/ Crash(c)
    BY <1>5, <2>3
  <2> QED BY <1>7, <2>1, <2>2, <2>3 DEF AcquireStep
<1> QED BY <1>2, <1>6, <1>7 DEF Next

LEMMA ApartInit == ASSUME Init PROVE BornInv /\ ApartInv
<1>1. BornInv
  <2>1. Named = {}
    BY DEF Init, Named
  <2>2. Cardinality(Named) = 0
    BY <2>1, FS_EmptySet
  <2> QED BY <2>2, Places DEF Init, BornInv
<1>2. HoldInv /\ WholeInv
  BY Places DEF Init, HoldInv, Holding, WholeInv
<1>3. OrderInv
  BY Places, ConstAssumption DEF Init, OrderInv, Generation
<1> QED BY <1>1, <1>2, <1>3 DEF ApartInv

-----------------------------------------------------------------------------
(* What readers are given.                                                 *)

Eligible == {c \in Global : Generation(c)}

\* Of the eligible generations one has the last name.
LEMMA NewestExists ==
  ASSUME TypeInv, BornInv, Eligible # {}
  PROVE  \E c \in Eligible : \A d \in Eligible : born[d] <= born[c]
<1> DEFINE top == Cardinality(Named)
           gap == {top - born[c] : c \in Eligible}
<1>1. top \in Nat
  BY ConstAssumption, FS_Subset, FS_CardinalityType DEF Named
<1>2. \A c \in Eligible : born[c] \in Nat /\ born[c] <= top /\ top - born[c] \in Nat
  BY <1>1, ConstAssumption DEF Eligible, BornInv, TypeInv, TypeOK
<1>3. gap \in SUBSET Nat /\ gap # {}
  BY <1>2
<1>4. PICK g \in gap : \A h \in gap : <<h, g>> \notin OpToRel(<, Nat)
  <2> HIDE DEF gap
  <2> QED BY <1>3, NatLessThanWellFounded, WFMin
<1>5. PICK c \in Eligible : g = top - born[c]
  OBVIOUS
<1>6. ASSUME NEW d \in Eligible PROVE born[d] <= born[c]
  <2>1. top - born[d] \in gap
    OBVIOUS
  <2>2. ~(top - born[d] < g)
    <3>1. <<top - born[d], g>> \in OpToRel(<, Nat) <=> top - born[d] < g
      BY <1>2, <1>5 DEF OpToRel
    <3> QED BY <1>4, <2>1, <3>1, Zenon
  <2> QED BY <1>1, <1>2, <1>5, <2>2
<1> QED BY <1>6

\* What resolvePublishedWikiDir() answers.
Answer ==
  /\ pointer \in Eligible => ServedTree = pointer
  /\ Eligible = {} => ServedTree = None
  /\ Eligible # {} /\ pointer \notin Eligible =>
       /\ ServedTree \in Eligible
       /\ \A d \in Eligible : born[d] <= born[ServedTree]

LEMMA ServedIs == ASSUME TypeInv, BornInv PROVE Answer
<1> USE DEF Answer
<1>1. CASE pointer \in Eligible
  BY <1>1 DEF ServedTree, Eligible
<1>2. CASE Eligible = {}
  BY <1>2 DEF ServedTree, Eligible
<1>3. CASE Eligible # {} /\ pointer \notin Eligible
  <2>1. ServedTree = CHOOSE c \in Eligible : \A d \in Eligible : born[d] <= born[c]
    BY <1>3, Zenon DEF ServedTree, Eligible
  <2> QED BY <1>3, <2>1, NewestExists
<1> QED BY <1>1, <1>2, <1>3

\* A reader is given a complete tree or none (resolvePublishedWikiDir), unless
\* an rm() removed a lock it had not inspected.
THEOREM ServesComplete == Spec => []ServedComplete
<1>1. ASSUME TypeInv, BornInv, ApartInv PROVE ServedComplete
  <2> SUFFICES ASSUME ~mistaken, ServedTree # None PROVE tree[ServedTree] = "complete"
    BY DEF ServedComplete
  <2>1. ServedTree \in Eligible
    BY <1>1, ServedIs DEF Answer
  <2>2. ServedTree \in Compiles /\ Generation(ServedTree)
    BY <2>1, ConstAssumption DEF Eligible
  <2> QED BY <1>1, <2>2 DEF ApartInv, WholeInv, Generation
<1>2. TypeInv /\ BornInv /\ ApartInv /\ [Next]_vars => TypeInv' /\ BornInv' /\ ApartInv'
  BY TypeNext, BornNext, ApartNext
<1> QED BY <1>1, <1>2, TypeInit, ApartInit, PTL DEF Spec

\* A published generation's contents stay as they are; the tree stays unless
\* another one is published.
LEMMA ContentsStay ==
  ASSUME TypeInv, BornInv, HoldInv, WholeInv, OrderInv, [Next]_vars, NEW g \in Eligible
  PROVE  /\ snapshot'[g] = snapshot[g] /\ born'[g] = born[g]
         /\ pointer = None => Generation(g)'
<1>0. g \in Global /\ g \in Compiles /\ Generation(g) /\ tree[g] = "complete"
  BY ConstAssumption DEF Eligible, WholeInv, Generation
<1>1. CASE \E c \in Compiles : BuildStep(c)
  <2>1. PICK c \in Compiles : BuildStep(c)
    BY <1>1
  <2> USE <1>0 DEF TypeInv, TypeOK, Generation, WholeInv, At
  <2>2. CASE StartBuild(c)
    BY <2>2 DEF StartBuild, BornInv
  <2>3. CASE WritePages(c) \/ MarkCompiled(c) \/ Complete(c)
    BY <2>3 DEF WritePages, MarkCompiled, Complete
  <2>4. CASE PublishPointer(c) \/ BuildFails(c) \/ ListTrees(c) \/ CleanupFails(c)
    BY <2>4 DEF PublishPointer, BuildFails, ListTrees, CleanupFails, treeVars
  <2>5. CASE Undo(c)
    BY <2>5 DEF Undo, InBuilding
  <2>6. CASE Remove(c)
    <3>1. pointer = None => tree'[g] = tree[g]
      BY <2>6, RemoveKeeps
    <3> QED BY <2>6, <3>1 DEF Remove
  <2> QED BY <2>1, <2>2, <2>3, <2>4, <2>5, <2>6 DEF BuildStep
<1>2. CASE \E c \in Compiles : WritePayload(c)
  BY <1>0, <1>2 DEF WritePayload, At, BornInv, Generation, TypeInv, TypeOK
<1>3. CASE UNCHANGED <<snapshot, born, tree>>
  BY <1>0, <1>3 DEF Generation
<1>4. \/ \E c \in Compiles : BuildStep(c) \/ WritePayload(c)
      \/ UNCHANGED <<snapshot, born, tree>>
  BY DEF Next, AcquireStep, Begin, Open, WritePayloadFails, Inspect, Recheck, BreakLock,
     Wake, Heartbeat, ReleaseStep, ReadOwnLock, Unlink, ReleaseFails, Crash, Commit,
     Tick, vars, treeVars
<1> QED BY <1>1, <1>2, <1>3, <1>4

LEMMA PointerAdvances ==
  ASSUME TypeInv, BornInv, HoldInv, WholeInv, OrderInv, [Next]_vars, pointer' # pointer
  PROVE  /\ pointer' \in Compiles /\ snapshot' = snapshot
         /\ \A d \in Eligible : snapshot[d] <= snapshot[pointer']
<1>1. PICK c \in Compiles : PublishPointer(c)
  BY DEF Next, AcquireStep, Begin, Open, WritePayload, WritePayloadFails, Inspect,
     Recheck, BreakLock, BuildStep, StartBuild, WritePages, MarkCompiled, Complete,
     BuildFails, Undo, ListTrees, Remove, CleanupFails, ReleaseStep, ReadOwnLock,
     Unlink, ReleaseFails, Wake, Heartbeat, Crash, Commit, Tick, vars, treeVars
<1>2. pointer' = c /\ pc[c] = "publish" /\ snapshot' = snapshot
  BY <1>1 DEF PublishPointer, At
<1>3. \A d \in Eligible : snapshot[d] <= snapshot[c]
  BY <1>2, Places, ConstAssumption DEF OrderInv, Eligible
<1> QED BY <1>2, <1>3

\* What readers are given never goes back: not by a publication, and not by a
\* crash or a cleanup after which resolvePublishedWikiDir falls back on the
\* newest generation.
LEMMA ServedAdvances ==
  ASSUME TypeInv, BornInv, ApartInv, [Next]_vars, TypeInv', BornInv', ApartInv',
         Answer, Answer', ~mistaken'
  PROVE  Served \subseteq Served'
<1> SUFFICES ASSUME ServedTree # None PROVE Served \subseteq Served'
  BY DEF Served
<1>0. HoldInv /\ WholeInv /\ OrderInv /\ OrderInv'
  BY MistakenStays DEF ApartInv
<1>1. ServedTree \in Eligible
  BY DEF Answer
<1>2. ServedTree \in Compiles /\ snapshot[ServedTree] \in Nat
  BY <1>1, ConstAssumption DEF Eligible, TypeInv, TypeOK
<1>3. /\ pointer # None => pointer \in Eligible
      /\ pointer' # None => pointer' \in Eligible'
  BY <1>0 DEF OrderInv, Eligible, TypeInv, TypeOK
<1>4. None \notin Eligible /\ (None \notin Eligible)'
  BY ConstAssumption DEF Eligible
<1>5. ServedTree' \in Eligible' /\ snapshot[ServedTree] <= snapshot'[ServedTree']
  <2>1. CASE pointer' # pointer
    <3>1. pointer' # None /\ ServedTree' = pointer' /\ pointer' \in Eligible'
      BY <1>0, <1>3, <2>1, PointerAdvances, ConstAssumption DEF Answer
    <3> QED BY <1>0, <1>1, <2>1, <3>1, PointerAdvances
  <2>2. CASE pointer' = pointer /\ pointer # None
    <3>1. ServedTree = pointer /\ ServedTree' = pointer /\ pointer \in Eligible'
      BY <1>3, <2>2 DEF Answer
    <3>2. snapshot'[pointer] = snapshot[pointer]
      BY <1>0, <1>3, <2>2, ContentsStay
    <3> QED BY <1>2, <3>1, <3>2
  <2>3. CASE pointer' = pointer /\ pointer = None
    <3>1. /\ snapshot'[ServedTree] = snapshot[ServedTree]
          /\ ServedTree \in Eligible'
      BY <1>0, <1>1, <2>3, ContentsStay DEF Eligible
    <3>2. ServedTree' \in Eligible' /\ born'[ServedTree] <= born'[ServedTree']
      BY <1>4, <2>3, <3>1 DEF Answer
    <3>3. \A d, e \in Eligible' : born'[d] <= born'[e] => snapshot'[d] <= snapshot'[e]
      BY <1>0, ConstAssumption DEF OrderInv, Eligible, Generation
    <3> QED BY <3>1, <3>2, <3>3
  <2> QED BY <2>1, <2>2, <2>3
<1>6. ServedTree' # None /\ snapshot'[ServedTree'] \in Nat
  BY <1>5, ConstAssumption DEF Eligible, TypeInv, TypeOK
<1> QED BY <1>2, <1>5, <1>6 DEF Served

Shown == Answer /\ Served \in SUBSET (1..graph)

\* They are given nothing but commits a compile has read.
LEMMA ServedIsCommitted ==
  ASSUME TypeInv, BornInv, Answer
  PROVE  Served \in SUBSET (1..graph)
<1> SUFFICES ASSUME ServedTree # None PROVE Served \in SUBSET (1..graph)
  BY DEF Served
<1>1. ServedTree \in Compiles
  BY ConstAssumption DEF Answer, Eligible
<1>2. snapshot[ServedTree] \in Nat /\ graph \in Nat /\ snapshot[ServedTree] <= graph
  BY <1>1 DEF BornInv, TypeInv, TypeOK
<1> QED BY <1>2 DEF Served

\* A commit to the graph leaves what readers are given alone, and whatever
\* changes that is a newer reading of the same graph.
LEMMA ViewStep ==
  ASSUME TypeInv, BornInv, ApartInv, [Next]_vars, TypeInv', BornInv', ApartInv',
         Shown, Shown', ~mistaken'
  PROVE  [View!ViewNext]_(View!view)
<1>1. CASE Commit
  <2>1. graph \in 0..MaxCommits /\ graph < MaxCommits /\ graph' = graph + 1
    BY <1>1 DEF Commit, TypeInv, TypeOK
  <2>2. Served' = Served
    BY <1>1 DEF Commit, treeVars, Served, ServedTree, Generation
  <2>3. graph + 1 \in 1..MaxCommits /\ 1..graph' = (1..graph) \cup {graph + 1}
    BY <2>1, ConstAssumption
  <2>4. View!Commit(graph + 1)
    BY <2>1, <2>2, <2>3 DEF View!Commit
  <2> QED BY <2>3, <2>4 DEF View!ViewNext
<1>2. CASE ~Commit
  <2>1. graph' = graph
    BY <1>2 DEF Next, AcquireStep, Begin, Open, WritePayload, WritePayloadFails, Inspect,
       Recheck, BreakLock, BuildStep, StartBuild, WritePages, MarkCompiled, Complete,
       PublishPointer, BuildFails, Undo, ListTrees, Remove, CleanupFails, ReleaseStep,
       ReadOwnLock, Unlink, ReleaseFails, Wake, Heartbeat, Crash, Tick, vars, bounds
  <2>2. Served \subseteq Served' /\ Served' \in SUBSET (1..graph)
    <3>1. Served' \in SUBSET (1..graph')
      BY DEF Shown
    <3> QED BY <2>1, <3>1, ServedAdvances DEF Shown
  <2>3. Served' = Served \cup Served'
    BY <2>2
  <2>4. CASE Served' # Served
    BY <2>1, <2>2, <2>3, <2>4 DEF View!ViewNext, View!Refresh
  <2>5. CASE Served' = Served
    BY <2>1, <2>5 DEF View!view
  <2> QED BY <2>4, <2>5
<1> QED BY <1>1, <1>2

LEMMA ReadersInv ==
  /\ Init => TypeInv /\ BornInv /\ ApartInv
  /\ TypeInv /\ BornInv /\ ApartInv /\ [Next]_vars => TypeInv' /\ BornInv' /\ ApartInv'
  /\ TypeInv /\ BornInv => Shown
BY TypeInit, ApartInit, TypeNext, BornNext, ApartNext, ServedIs, ServedIsCommitted
DEF Shown

LEMMA ViewStart == Init => View!ViewInit
<1> SUFFICES ASSUME Init PROVE View!ViewInit
  OBVIOUS
<1>1. Eligible = {} /\ 1..graph = {}
  BY ConstAssumption DEF Init, Eligible, Generation
<1>2. ServedTree = None
  BY <1>1, TypeInit, ApartInit, ServedIs DEF Answer
<1> QED BY <1>1, <1>2 DEF Served, View!ViewInit

\* What resolvePublishedWikiDir() gives readers is a lagging view of the graph,
\* unless an rm() removed a lock it had not inspected.
THEOREM ImplementsView == Spec => ImplementsServedView
<1>1. (/\ TypeInv /\ BornInv /\ ApartInv /\ Shown /\ [Next]_vars
       /\ TypeInv' /\ BornInv' /\ ApartInv' /\ Shown')
      => [mistaken' \/ [View!ViewNext]_(View!view)]_vars
  BY ViewStep
<1> QED BY <1>1, ViewStart, ReadersInv, PTL DEF Spec, ImplementsServedView

\* A system whose contenders never do so implements ServedView's safety.
THEOREM ViewWhileApart == Spec /\ [](~mistaken) => View!Safety
<1>1. (/\ TypeInv /\ BornInv /\ ApartInv /\ Shown /\ [Next]_vars
       /\ TypeInv' /\ BornInv' /\ ApartInv' /\ Shown' /\ ~mistaken')
      => [View!ViewNext]_(View!view)
  BY ViewStep
<1> QED BY <1>1, ViewStart, ReadersInv, PTL DEF Spec, View!Safety

-----------------------------------------------------------------------------
(* Giving up.                                                              *)

\* As long as no contender has met a live holder, its waiting is accounted for
\* by the age of the lock: it began on a lock nobody was left to refresh.
Unblocked == {d \in Compiles : pc[d] \in Contending /\ d \notin blocked}
WaitInv ==
  /\ lock # None => pc[lock] # "idle"
  /\ \A c \in Compiles : pc[c] = "idle" => waited[c] = 0
  /\ \A c \in Compiles : pc[c] = "write" /\ lock = c => age = 0
  /\ lock # None => \A c \in Unblocked : waited[c] <= age \/ age = StaleAfter
  /\ lock # None /\ pc[lock] \notin Over => \A c \in Unblocked : waited[c] = 0

\* A step that leaves the lock's age and the waiting alone.
LEMMA WaitQuiet ==
  ASSUME TypeInv, WaitInv, UNCHANGED <<lock, age, waited, blocked>>,
         \A c \in Compiles :
           /\ pc[c] # "idle" => pc'[c] # "idle"
           /\ pc'[c] = "write" => pc[c] = "write"
           /\ pc[c] \in Over => pc'[c] \in Over
           /\ pc'[c] \in Contending => pc[c] \in {"idle"} \cup Contending
           /\ pc'[c] = "idle" => pc[c] = "idle"
  PROVE  WaitInv'
<1>1. ASSUME NEW c \in Unblocked'
      PROVE  c \in Unblocked \/ (c \in Compiles /\ waited[c] = 0)
  BY <1>1 DEF Unblocked, WaitInv
<1>2. \A c \in Unblocked' :
        /\ lock # None => waited[c] <= age \/ age = StaleAfter
        /\ lock # None /\ pc[lock] \notin Over => waited[c] = 0
  BY <1>1 DEF WaitInv, TypeInv, TypeOK
<1>3. /\ \A c \in Compiles : pc'[c] = "idle" => waited[c] = 0
      /\ \A c \in Compiles : pc'[c] = "write" /\ lock = c => age = 0
      /\ lock # None => pc'[lock] # "idle"
      /\ lock # None /\ pc'[lock] \notin Over => pc[lock] \notin Over
  BY DEF WaitInv, TypeInv, TypeOK
<1> QED BY <1>2, <1>3 DEF WaitInv

LEMMA WaitOpen ==
  ASSUME TypeInv, WaitInv, NEW c \in Compiles, Open(c)
  PROVE  WaitInv'
<1> USE Places DEF TypeInv, TypeOK, At, GoTo
<1>1. CASE lock = None
  <2>1. /\ lock' = c /\ age' = 0 /\ pc' = [pc EXCEPT ![c] = "write"]
        /\ waited' = [waited EXCEPT ![c] = 0]
        /\ blocked' = (blocked \cup Contenders) \ {c}
    BY <1>1 DEF Open
  <2>2. Unblocked' = {}
    BY <2>1 DEF Unblocked, Contenders
  <2> QED BY <2>1, <2>2, ConstAssumption DEF WaitInv
<1>2. CASE lock # None
  <2>1. pc' = [pc EXCEPT ![c] = "inspect"] /\ pc[c] = "open"
        /\ UNCHANGED <<lock, age, waited, blocked>>
    BY <1>2 DEF Open
  <2> QED BY <2>1, WaitQuiet
<1> QED BY <1>1, <1>2

LEMMA WaitTick == ASSUME TypeInv, WaitInv, Tick PROVE WaitInv'
<1> USE Places DEF TypeInv, TypeOK
<1>1. /\ UNCHANGED <<lock, pc>>
      /\ \A c \in Compiles : pc[c] # "write"
      /\ \A c \in Compiles : pc[c] = "idle" => waited'[c] = waited[c]
      /\ \A c \in Compiles : waited'[c] \in Nat /\ waited'[c] <= waited[c] + 1
      /\ age' = IF lock # None /\ age < StaleAfter THEN age + 1 ELSE age
      /\ blocked' = IF lock # None /\ Live(lock) THEN blocked \cup Contenders
                    ELSE blocked
  BY DEF Tick, Waiting
<1>2. CASE lock = None
  BY <1>1, <1>2 DEF WaitInv
<1>3. CASE lock # None /\ pc[lock] \notin Over
  <2>1. blocked' = blocked \cup Contenders
    BY <1>1, <1>3 DEF Live, WaitInv
  <2>2. Unblocked' = {}
    BY <1>1, <2>1 DEF Unblocked, Contenders
  <2> QED BY <1>1, <2>2 DEF WaitInv
<1>4. CASE lock # None /\ pc[lock] \in Over
  <2>1. blocked' = blocked
    BY <1>1, <1>4 DEF Live
  <2>2. Unblocked' = Unblocked
    BY <1>1, <2>1 DEF Unblocked
  <2>3. \A c \in Unblocked : waited'[c] <= age' \/ age' = StaleAfter
    <3>1. age' = StaleAfter \/ age' = age + 1
      BY <1>1, <1>4, ConstAssumption
    <3>2. \A c \in Unblocked : waited[c] <= age \/ age = StaleAfter
      BY <1>4 DEF WaitInv
    <3>3. age = StaleAfter => age' = StaleAfter
      BY <1>1, ConstAssumption
    <3> QED BY <1>1, <3>1, <3>2, <3>3, ConstAssumption DEF Unblocked
  <2> QED BY <1>1, <1>4, <2>2, <2>3 DEF WaitInv
<1> QED BY <1>2, <1>3, <1>4

LEMMA WaitStep ==
  ASSUME TypeInv, WaitInv, NEW c \in Compiles,
         \/ AcquireStep(c) \/ BuildStep(c) \/ ReleaseStep(c)
         \/ Wake(c) \/ Heartbeat(c) \/ Crash(c)
  PROVE  WaitInv'
<1> USE Places DEF TypeInv, TypeOK, At, GoTo
<1>1. CASE Begin(c) \/ Wake(c) \/ WritePayloadFails(c) \/ Inspect(c) \/ Recheck(c)
  <2>1. /\ UNCHANGED <<lock, age, waited, blocked>>
        /\ \A d \in Compiles : d # c => pc'[d] = pc[d]
        /\ pc[c] \notin Over /\ pc'[c] \in Contending \cup {"failed"}
        /\ pc'[c] = "failed" \/ pc[c] \in {"idle"} \cup Contending
    BY <1>1 DEF Begin, Wake, WritePayloadFails, Inspect, NextPoll, Recheck,
       lockVars, observers
  <2> QED BY <2>1, WaitQuiet
<1>2. CASE Open(c)
  BY <1>2, WaitOpen
<1>3. CASE WritePayload(c)
  <2>1. pc[c] = "write" /\ pc' = [pc EXCEPT ![c] = "begin"] /\ age' = age
        /\ UNCHANGED <<lock, waited, blocked>>
    BY <1>3 DEF WritePayload, WaitInv, observers
  <2> QED BY <2>1, WaitQuiet
<1>4. CASE BreakLock(c)
  <2>1. lock' = None /\ pc[c] = "break" /\ pc' = [pc EXCEPT ![c] = "open"]
        /\ UNCHANGED waited
    BY <1>4 DEF BreakLock
  <2> QED BY <2>1, ConstAssumption DEF WaitInv
<1>5. CASE BuildStep(c)
  <2>1. /\ pc[c] \in Building /\ UNCHANGED <<lock, age, waited, blocked>>
        /\ \A d \in Compiles : d # c => pc'[d] = pc[d]
        /\ pc'[c] \in Building \cup {"read"}
    BY <1>5 DEF BuildStep, StartBuild, WritePages, MarkCompiled, Complete,
       AfterComplete, PublishPointer, BuildFails, Undo, ListTrees, Remove,
       CleanupFails, lockVars, observers
  <2> QED BY <2>1, WaitQuiet
<1>6. CASE ReadOwnLock(c) \/ ReleaseFails(c)
  <2>1. /\ pc[c] \in Releasing /\ UNCHANGED <<lock, age, waited, blocked>>
        /\ \A d \in Compiles : d # c => pc'[d] = pc[d]
        /\ pc'[c] \in {"unlink", "done"}
    BY <1>6 DEF ReadOwnLock, ReleaseFails, lockVars, observers
  <2> QED BY <2>1, WaitQuiet
<1>7. CASE Unlink(c)
  <2>1. lock' = None /\ pc' = [pc EXCEPT ![c] = "done"] /\ UNCHANGED waited
    BY <1>7 DEF Unlink
  <2> QED BY <2>1, ConstAssumption DEF WaitInv
<1>8. CASE Heartbeat(c)
  <2>1. /\ pc[c] \in Building /\ UNCHANGED <<lock, pc, waited, blocked>>
        /\ age' = age \/ (lock = c /\ age' = 0)
    BY <1>8 DEF Heartbeat, observers
  <2>2. CASE age' = age
    BY <2>1, <2>2, WaitQuiet
  <2>3. CASE lock = c /\ age' = 0
    <3>1. \A d \in Unblocked : waited[d] = 0
      BY <2>1, <2>3, ConstAssumption DEF WaitInv
    <3>2. Unblocked' = Unblocked
      BY <2>1 DEF Unblocked
    <3> QED BY <2>1, <2>3, <3>1, <3>2 DEF WaitInv
  <2> QED BY <2>1, <2>2, <2>3
<1>9. CASE Crash(c)
  <2>1. /\ UNCHANGED <<lock, age>> /\ pc' = [pc EXCEPT ![c] = "crashed"]
        /\ waited' = [waited EXCEPT ![c] = 0]
        /\ blocked' = blocked \ {c}
    BY <1>9 DEF Crash
  <2>2. Unblocked' \subseteq Unblocked \ {c}
    BY <2>1 DEF Unblocked
  <2>3. \A d \in Unblocked' : waited'[d] = waited[d]
    BY <2>1, <2>2 DEF Unblocked
  <2>4. lock # None => pc'[lock] # "idle" /\ (pc'[lock] \notin Over => pc[lock] \notin Over)
    BY <2>1 DEF WaitInv
  <2>5. \A d \in Compiles : /\ pc'[d] = "idle" => waited'[d] = 0
                            /\ pc'[d] = "write" /\ lock = d => age = 0
    BY <2>1 DEF WaitInv
  <2> QED BY <2>1, <2>2, <2>3, <2>4, <2>5 DEF WaitInv
<1> QED
  BY <1>1, <1>2, <1>3, <1>4, <1>5, <1>6, <1>7, <1>8, <1>9 DEF AcquireStep, ReleaseStep

LEMMA WaitNext == ASSUME TypeInv, WaitInv, [Next]_vars PROVE WaitInv'
<1>1. CASE Commit \/ UNCHANGED vars
  BY <1>1, WaitQuiet DEF Commit, vars, lockVars, observers
<1> QED BY <1>1, WaitStep, WaitTick DEF Next

\* With the timeout no shorter than the staleness, as the defaults of compile()
\* are (35 and 30 minutes), a call gives up only if a live call made or held the
\* lock while it waited: a lock left behind by a crash is broken before.
THEOREM TimeoutIsEarned ==
  ASSUME StaleAfter <= Timeout
  PROVE  Spec => TimeoutEarned
<1>1. Init => WaitInv
  BY Places, ConstAssumption DEF Init, WaitInv, Unblocked
<1>2. ASSUME TypeInv, WaitInv, [Next]_vars, NEW c \in Compiles,
             At(c, "inspect"), pc'[c] = "failed"
      PROVE  c \in blocked'
  <2>1. Inspect(c)
    <3>1. ASSUME NEW d \in Compiles,
                 \/ AcquireStep(d) \/ BuildStep(d) \/ ReleaseStep(d)
                 \/ Wake(d) \/ Heartbeat(d) \/ Crash(d)
          PROVE  Inspect(c)
      <4> USE <1>2, Places DEF TypeInv, TypeOK, At, GoTo
      <4>1. CASE AcquireStep(d)
        <5>1. CASE d = c
          BY <4>1, <5>1 DEF AcquireStep, Begin, Open, WritePayload, WritePayloadFails,
             Recheck, BreakLock
        <5>2. CASE d # c
          <6>1. PICK place : pc' = [pc EXCEPT ![d] = place]
            BY <4>1 DEF AcquireStep, Begin, Open, WritePayload, WritePayloadFails,
               Inspect, Recheck, BreakLock
          <6> QED BY <5>2, <6>1
        <5> QED BY <5>1, <5>2
      <4>2. CASE BuildStep(d)
        BY <4>2 DEF BuildStep, StartBuild, WritePages, MarkCompiled, Complete,
           AfterComplete, PublishPointer, BuildFails, Undo, ListTrees, Remove,
           CleanupFails
      <4>3. CASE ReleaseStep(d) \/ Wake(d) \/ Heartbeat(d) \/ Crash(d)
        BY <4>3 DEF ReleaseStep, ReadOwnLock, Unlink, ReleaseFails, Wake, Heartbeat,
           Crash
      <4> QED BY <3>1, <4>1, <4>2, <4>3
    <3>2. CASE Commit \/ Tick \/ UNCHANGED vars
      BY <1>2, <3>2 DEF Commit, Tick, vars, At
    <3> QED BY <1>2, <3>1, <3>2 DEF Next
  <2>2. lock # None /\ age < StaleAfter /\ waited[c] >= Timeout /\ blocked' = blocked
    BY <1>2, <2>1, ConstAssumption
    DEF Inspect, NextPoll, TimedOut, Stale, GoTo, TypeInv, TypeOK, observers
  <2>3. c \in Unblocked => waited[c] <= age
    BY <1>2, <2>2, ConstAssumption DEF WaitInv, TypeInv, TypeOK
  <2>4. c \notin Unblocked
    BY <1>2, <2>2, <2>3, ConstAssumption DEF TypeInv, TypeOK
  <2> QED BY <1>2, <2>2, <2>4, Places DEF Unblocked, At
<1>3. TypeInv /\ WaitInv /\ [Next]_vars
        => [\A c \in Compiles : At(c, "inspect") /\ pc'[c] = "failed" => c \in blocked']_vars
  BY <1>2
<1> QED BY <1>1, <1>3, TypeInit, TypeNext, WaitNext, PTL DEF Spec, TimeoutEarned
=============================================================================
