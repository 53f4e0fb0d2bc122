----------------------------- MODULE WikiCompile -----------------------------
(***************************************************************************)
(* WikiCompiler.compile() (packages/wiki/src/compile.ts): the lock file    *)
(* that keeps compiles of several processes apart, the private tree each   *)
(* one builds, the rename that completes a generation, the pointer that    *)
(* publishes it and the cleanup of old generations.                        *)
(*                                                                         *)
(* One action is one file system call, or the calls between two points     *)
(* where another process can tell the difference.  Time passes in ticks: a *)
(* heartbeat is due every tick, a lock is stale after StaleAfter of them,  *)
(* and only waiting and building take as long as one.                      *)
(***************************************************************************)
EXTENDS Naturals, FiniteSets

CONSTANTS Compiles,    \* calls of compile(), each in a process of its own
          Global,      \* those without a project scope: only they publish
          None,        \* "no lock file", "no pointer"
          StaleAfter,  \* COMPILE_LOCK_STALE_MS, in ticks
          Timeout,     \* COMPILE_LOCK_TIMEOUT_MS, in ticks
          Retained,    \* GENERATIONS_TO_RETAIN
          MaxCommits,  \* bound: commits to the graph
          MaxFaults    \* bound: crashes, and calls and queries that fail

ASSUME ConstAssumption ==
  /\ IsFiniteSet(Compiles) /\ Global \subseteq Compiles
  /\ None \notin Compiles
  /\ StaleAfter \in Nat /\ StaleAfter > 1
  /\ Timeout \in Nat /\ Retained \in Nat
  /\ MaxCommits \in Nat /\ MaxFaults \in Nat

VARIABLES
  lock,      \* the compile whose inode .compile.lock names
  age,       \* ticks since that inode was last written
  pc,        \* where each call is
  seen,      \* the holder a contender's first read of the lock file showed
  waited,    \* ticks since the call computed its deadline
  beating,   \* calls whose heartbeat timer is armed
  graph,     \* commits so far
  snapshot,  \* the commits a compile has read
  born,      \* Date.now() in the generation's name: its place in their order
  tree,      \* what there is of each compile's tree, and under which name
  listed,    \* what the readdir() of cleanupOldGenerations() returned
  pointer,   \* the generation .active-generation names
  faults,
  blocked,   \* observer: calls that waited while a live one made or held the
             \* lock
  mistaken   \* observer: an rm() removed a lock other than the inspected one

lockVars == <<lock, age, seen, waited, beating>>
treeVars == <<snapshot, born, tree, listed, pointer>>
bounds == <<graph, faults>>
observers == <<blocked, mistaken>>
vars == <<lockVars, pc, treeVars, bounds, observers>>

Contending == {"open", "inspect", "recheck", "break", "sleep"}
Building == {"begin", "build", "mark", "rename", "publish", "list", "remove",
             "undo"}
Releasing == {"read", "unlink"}
Over == {"done", "failed", "crashed"}

\* "torn": pages are missing, because another compile removed the tree while
\* this one was writing; the marker is only in trees whose last page was written.
Trees == {"none", "building", "marked", "torn", "tornMarked",
          "complete", "incomplete"}

TypeOK ==
  /\ lock \in Compiles \cup {None}
  /\ age \in 0..StaleAfter
  /\ pc \in [Compiles -> {"idle", "write"} \cup Contending \cup Building
                           \cup Releasing \cup Over]
  /\ seen \in [Compiles -> Compiles \cup {None}]
  /\ waited \in [Compiles -> 0..Timeout]
  /\ beating \subseteq Compiles
  /\ graph \in 0..MaxCommits
  /\ snapshot \in [Compiles -> 0..MaxCommits]
  /\ born \in [Compiles -> Nat]
  /\ tree \in [Compiles -> Trees]
  /\ listed \in [Compiles -> SUBSET (Compiles \X {"building", "gen"})]
  /\ pointer \in Global \cup {None}
  /\ faults \in 0..MaxFaults
  /\ blocked \subseteq Compiles
  /\ mistaken \in BOOLEAN

Init ==
  /\ lock = None /\ age = 0
  /\ pc = [c \in Compiles |-> "idle"]
  /\ seen = [c \in Compiles |-> None]
  /\ waited = [c \in Compiles |-> 0]
  /\ beating = {} /\ graph = 0
  /\ snapshot = [c \in Compiles |-> 0]
  /\ born = [c \in Compiles |-> 0]
  /\ tree = [c \in Compiles |-> "none"]
  /\ listed = [c \in Compiles |-> {}]
  /\ pointer = None
  /\ faults = 0
  /\ blocked = {} /\ mistaken = FALSE

At(c, place) == pc[c] = place
GoTo(c, place) == pc' = [pc EXCEPT ![c] = place]
Live(c) == pc[c] \notin Over \cup {"idle"}
Contenders == {c \in Compiles : pc[c] \in Contending}
Writers == {c \in Compiles : pc[c] \in Building}
MayFail == faults < MaxFaults /\ faults' = faults + 1

-----------------------------------------------------------------------------
(* acquireCompileLock().                                                   *)

Begin(c) ==
  /\ At(c, "idle")
  /\ GoTo(c, "open")
  /\ UNCHANGED <<lockVars, treeVars, bounds, observers>>

\* open(path, 'wx') creates the file, or finds one.
Open(c) ==
  /\ At(c, "open")
  /\ IF lock = None
     THEN /\ lock' = c /\ age' = 0
          /\ GoTo(c, "write")
          /\ waited' = [waited EXCEPT ![c] = 0]
          /\ blocked' = (blocked \cup Contenders) \ {c}
     ELSE /\ GoTo(c, "inspect")
          /\ UNCHANGED <<lock, age, waited, blocked>>
  /\ UNCHANGED <<seen, beating, treeVars, bounds, mistaken>>

\* The payload is in the file; the heartbeat is armed and the tree named.
WritePayload(c) ==
  /\ At(c, "write")
  /\ GoTo(c, "begin")
  /\ age' = IF lock = c THEN 0 ELSE age
  /\ beating' = beating \cup {c}
  /\ born' = [born EXCEPT ![c] = 1 + Cardinality({d \in Compiles : born[d] > 0})]
  /\ UNCHANGED <<lock, seen, waited, snapshot, tree, listed, pointer, bounds,
                 observers>>

\* The payload cannot be written: compile() throws and leaves the empty file.
WritePayloadFails(c) ==
  /\ At(c, "write") /\ MayFail
  /\ GoTo(c, "failed")
  /\ UNCHANGED <<lockVars, treeVars, graph, observers>>

StaleAtOnce == TRUE  \* mutant
Stale == age >= StaleAfter
TimedOutEarly(c) == waited[c] >= StaleAfter - 1  \* mutant
TimedOut(c) == waited[c] >= Timeout
NextPoll(c) == IF TimedOut(c) THEN "failed" ELSE "sleep"

\* Read the holder's file, and its age.
Inspect(c) ==
  /\ At(c, "inspect")
  /\ GoTo(c, IF lock = None THEN "open" ELSE IF Stale THEN "recheck" ELSE NextPoll(c))
  /\ seen' = [seen EXCEPT ![c] = IF Stale THEN lock ELSE None]
  /\ UNCHANGED <<lock, age, waited, beating, treeVars, bounds, observers>>

UnderInspectionFresh(c) == lock = seen[c] /\ lock # None /\ ~Stale  \* mutant
\* Read both again.
UnderInspection(c) == lock = seen[c] /\ lock # None /\ Stale
Recheck(c) ==
  /\ At(c, "recheck")
  /\ GoTo(c, IF UnderInspection(c) THEN "break" ELSE "open")
  /\ UNCHANGED <<lockVars, treeVars, bounds, observers>>

\* rm(lockPath) removes whatever has that name by now.
BreakLock(c) ==
  /\ At(c, "break")
  /\ GoTo(c, "open")
  /\ lock' = None /\ age' = 0
  /\ seen' = [seen EXCEPT ![c] = None]
  /\ mistaken' = (mistaken \/ lock \notin {None, seen[c]})
  /\ UNCHANGED <<waited, beating, treeVars, bounds, blocked>>

Wake(c) ==
  /\ At(c, "sleep")
  /\ GoTo(c, "open")
  /\ UNCHANGED <<lockVars, treeVars, bounds, observers>>

-----------------------------------------------------------------------------
(* The heartbeat and the release.                                          *)

\* The file is rewritten through the handle, unless the path is another's now.
Heartbeat(c) ==
  /\ c \in beating /\ pc[c] \in Building
  /\ IF lock = c
     THEN age > 0 /\ age' = 0 /\ UNCHANGED beating
     ELSE beating' = beating \ {c} /\ UNCHANGED age
  /\ UNCHANGED <<lock, seen, waited, pc, treeVars, bounds, observers>>

ReadOwnLock(c) ==
  /\ At(c, "read")
  /\ GoTo(c, IF lock = c THEN "unlink" ELSE "done")
  /\ UNCHANGED <<lockVars, treeVars, bounds, observers>>

Unlink(c) ==
  /\ At(c, "unlink")
  /\ GoTo(c, "done")
  /\ lock' = None /\ age' = 0
  /\ UNCHANGED <<seen, waited, beating, treeVars, bounds, observers>>

\* The release is best effort: the file may stay behind.
ReleaseFails(c) ==
  /\ At(c, "read") \/ At(c, "unlink")
  /\ MayFail
  /\ GoTo(c, "done")
  /\ UNCHANGED <<lockVars, treeVars, graph, observers>>

-----------------------------------------------------------------------------
(* compileLocked() and publication.                                        *)

\* The building directory is made and the graph read.
StartBuild(c) ==
  /\ At(c, "begin")
  /\ GoTo(c, "build")
  /\ tree' = [tree EXCEPT ![c] = "building"]
  /\ snapshot' = [snapshot EXCEPT ![c] = graph]
  /\ UNCHANGED <<lockVars, born, listed, pointer, bounds, observers>>

\* The remaining pages are written, into directories made again if need be.
WritePages(c) ==
  /\ At(c, "build")
  /\ GoTo(c, "mark")
  /\ tree' = [tree EXCEPT ![c] = IF @ = "none" THEN "torn" ELSE @]
  /\ UNCHANGED <<lockVars, snapshot, born, listed, pointer, bounds, observers>>

\* .compiled is written last; the directory must still be there.
MarkCompiled(c) ==
  /\ At(c, "mark")
  /\ GoTo(c, IF tree[c] = "none" THEN "undo" ELSE "rename")
  /\ tree' = [tree EXCEPT ![c] = IF @ = "none" THEN @
                                 ELSE IF @ = "building" THEN "marked"
                                 ELSE "tornMarked"]
  /\ UNCHANGED <<lockVars, snapshot, born, listed, pointer, bounds, observers>>

AfterCompleteAlways(c) == IF tree[c] = "none" THEN "undo" ELSE "publish"  \* mutant
\* A scoped compile is done once its tree has its name; a directory removed
\* meanwhile makes the rename reject.
AfterComplete(c) == IF tree[c] = "none" THEN "undo"
                    ELSE IF c \in Global THEN "publish" ELSE "list"

\* rename(.building-gen-x, gen-x).
Complete(c) ==
  /\ At(c, "rename")
  /\ GoTo(c, AfterComplete(c))
  /\ tree' = [tree EXCEPT ![c] = IF @ = "none" THEN @
                                 ELSE IF @ = "marked" THEN "complete"
                                 ELSE "incomplete"]
  /\ UNCHANGED <<lockVars, snapshot, born, listed, pointer, bounds, observers>>

\* A temporary file is renamed over .active-generation; .compiled is touched.
PublishPointer(c) ==
  /\ At(c, "publish")
  /\ GoTo(c, "list")
  /\ pointer' = c
  /\ UNCHANGED <<lockVars, snapshot, born, tree, listed, bounds, observers>>

\* A query, a write or a rename rejects.
BuildFails(c) ==
  /\ pc[c] \in {"begin", "build", "mark", "rename", "publish"} /\ MayFail
  /\ GoTo(c, "undo")
  /\ UNCHANGED <<lockVars, treeVars, graph, observers>>

InBuilding(c) == tree[c] \in {"building", "marked", "torn", "tornMarked"}
Generation(c) == tree[c] \in {"complete", "incomplete"}

\* The catch block, and the finally block up to the release.
Undo(c) ==
  /\ At(c, "undo")
  /\ GoTo(c, "read")
  /\ tree' = [tree EXCEPT ![c] = IF InBuilding(c) THEN "none" ELSE @]
  /\ beating' = beating \ {c}
  /\ UNCHANGED <<lock, age, seen, waited, snapshot, born, listed, pointer,
                 bounds, observers>>

\* cleanupOldGenerations() reads the directory.
Parent(c) == IF c \in Global THEN Global ELSE Compiles \ Global
ListTrees(c) ==
  /\ At(c, "list")
  /\ GoTo(c, "remove")
  /\ listed' = [listed EXCEPT ![c] =
       {d \in Parent(c) : InBuilding(d)} \X {"building"}
         \cup {d \in Parent(c) : Generation(d)} \X {"gen"}]
  /\ UNCHANGED <<lockVars, snapshot, born, tree, pointer, bounds, observers>>

KeepOldest(c) ==  \* mutant
  LET completed == {d \in Compiles : <<d, "gen">> \in listed[c]} IN
  {d \in completed :
     Cardinality({e \in completed : born[e] < born[d]}) < Retained}
\* The generation just published and the newest ones.
Keep(c) ==
  LET completed == {d \in Compiles : <<d, "gen">> \in listed[c]} IN
  {c} \cup {d \in completed :
              Cardinality({e \in completed : born[e] > born[d]}) < Retained}

\* Every building tree goes, and every generation it does not keep.
Remove(c) ==
  LET gone == {d \in Compiles : \/ <<d, "building">> \in listed[c] /\ InBuilding(d)
                                \/ /\ <<d, "gen">> \in listed[c] /\ Generation(d)
                                   /\ d \notin Keep(c)}
  IN
  /\ At(c, "remove")
  /\ GoTo(c, "read")
  /\ tree' = [d \in Compiles |-> IF d \in gone THEN "none" ELSE tree[d]]
  /\ listed' = [listed EXCEPT ![c] = {}]
  /\ beating' = beating \ {c}
  /\ UNCHANGED <<lock, age, seen, waited, snapshot, born, pointer, bounds,
                 observers>>

\* Cleanup is best effort.
CleanupFails(c) ==
  /\ pc[c] \in {"list", "remove"} /\ MayFail
  /\ GoTo(c, "read")
  /\ listed' = [listed EXCEPT ![c] = {}]
  /\ beating' = beating \ {c}
  /\ UNCHANGED <<lock, age, seen, waited, snapshot, born, tree, pointer, graph,
                 observers>>

-----------------------------------------------------------------------------
(* The surroundings.                                                       *)

Commit ==
  /\ graph < MaxCommits
  /\ graph' = graph + 1
  /\ UNCHANGED <<lockVars, pc, treeVars, faults, observers>>

Crash(c) ==
  /\ Live(c) /\ MayFail
  /\ GoTo(c, "crashed")
  /\ beating' = beating \ {c}
  /\ seen' = [seen EXCEPT ![c] = None]
  /\ waited' = [waited EXCEPT ![c] = 0]
  /\ listed' = [listed EXCEPT ![c] = {}]
  /\ blocked' = blocked \ {c}
  /\ UNCHANGED <<lock, age, snapshot, born, tree, pointer, graph, mistaken>>

\* A tick passes: no live heartbeat is overdue, and nothing but building and
\* polling is under way.
Waiting(c) == pc[c] \in {"sleep", "open", "inspect"}
Tick ==
  /\ \A c \in Compiles : Waiting(c) \/ pc[c] \in {"idle", "build"} \cup Over
  /\ ~ (lock \in beating /\ age > 0)
  /\ \/ lock # None /\ age < StaleAfter
     \/ \E c \in Compiles : Waiting(c) /\ waited[c] < Timeout
  /\ age' = IF lock # None /\ age < StaleAfter THEN age + 1 ELSE age
  /\ waited' = [c \in Compiles |->
       IF Waiting(c) /\ waited[c] < Timeout THEN waited[c] + 1 ELSE waited[c]]
  /\ blocked' = IF lock # None /\ Live(lock) THEN blocked \cup Contenders
                ELSE blocked
  /\ UNCHANGED <<lock, seen, beating, pc, treeVars, bounds, mistaken>>

-----------------------------------------------------------------------------
AcquireStep(c) ==
  \/ Begin(c) \/ Open(c) \/ WritePayload(c) \/ WritePayloadFails(c)
  \/ Inspect(c) \/ Recheck(c) \/ BreakLock(c)

BuildStep(c) ==
  \/ StartBuild(c) \/ WritePages(c) \/ MarkCompiled(c) \/ Complete(c)
  \/ PublishPointer(c) \/ BuildFails(c) \/ Undo(c)
  \/ ListTrees(c) \/ Remove(c) \/ CleanupFails(c)

ReleaseStep(c) == ReadOwnLock(c) \/ Unlink(c) \/ ReleaseFails(c)

Next ==
  \/ \E c \in Compiles : \/ AcquireStep(c) \/ BuildStep(c) \/ ReleaseStep(c)
                         \/ Wake(c) \/ Heartbeat(c) \/ Crash(c)
  \/ Commit \/ Tick

Spec == Init /\ [][Next]_vars

\* Calls that have begun go on and time passes; nothing more is assumed.
Fairness ==
  /\ WF_vars(Tick)
  /\ \A c \in Compiles :
       /\ WF_vars(~At(c, "idle") /\ (AcquireStep(c) \/ BuildStep(c) \/ ReleaseStep(c)))
       /\ WF_vars(Heartbeat(c)) /\ WF_vars(Wake(c))

FairSpec == Spec /\ Fairness

-----------------------------------------------------------------------------
(* Properties.                                                             *)

ServedTreeByName ==  \* mutant
  LET eligible == {c \in Global : tree[c] # "none"} IN
  IF pointer \in eligible THEN pointer
  ELSE IF eligible = {} THEN None
  ELSE CHOOSE c \in eligible : \A d \in eligible : born[d] <= born[c]
\* resolvePublishedWikiDir(): the published generation if it is complete with
\* its marker, else the newest one that is, else the legacy root tree.
ServedTree ==
  LET eligible == {c \in Global : Generation(c)} IN
  IF pointer \in eligible THEN pointer
  ELSE IF eligible = {} THEN None
  ELSE CHOOSE c \in eligible : \A d \in eligible : born[d] <= born[c]
Served == IF ServedTree = None THEN {} ELSE 1..snapshot[ServedTree]

\* "The compile lock proves no other writer is using a `.building-*` tree"
\* (compile.ts:277): two compiles never write at a time, whatever crashes,
\* failing calls and stale locks there are, unless a contender's rm() met a
\* lock younger than the one it had inspected twice.
OneWriter == mistaken \/ Cardinality(Writers) <= 1

\* A reader is never given a tree with pages missing, wherever compiles crash.
ServedComplete == mistaken \/ ServedTree = None \/ tree[ServedTree] = "complete"

\* What the two comments say of the lock, without that exception: "The compile
\* lock proves no other writer is using a `.building-*` tree" (compile.ts:277),
\* "Re-read before breaking so we do not remove a successor lock" (:443).
LockProvesNoOtherWriter == Cardinality(Writers) <= 1

\* What readers see is a view of the graph that may lag behind it: it shows
\* nothing the graph does not hold, and neither a publication nor a crash or a
\* cleanup that makes the reader fall back takes it to older contents.
View == INSTANCE ServedView WITH Changes <- 1..MaxCommits,
                                 committed <- 1..graph, served <- Served
ImplementsServedView ==
  View!ViewInit /\ [][mistaken' \/ [View!ViewNext]_(View!view)]_vars

\* "Allow one contender to observe and recover a full stale lease": a call that
\* gives up waiting has met one that was alive; a lock left behind does not
\* alone make it fail.
TimeoutEarned ==
  [][\A c \in Compiles :
       At(c, "inspect") /\ pc'[c] = "failed" => c \in blocked']_vars

\* Every call that has begun returns or throws, also when the lock's holder
\* died: again and again there is none under way.
CallsReturn == []<>(\A c \in Compiles : ~Live(c))
=============================================================================
