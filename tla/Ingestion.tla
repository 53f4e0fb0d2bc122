------------------------------ MODULE Ingestion ------------------------------
(***************************************************************************)
(* From store() to the facts: the deduplication mark, the episode and its  *)
(* signals, the extraction job or its in-process substitute (packages/     *)
(* core/src/service.ts, packages/redis/src/dedup.ts), and the passes that  *)
(* reconcile what an episode states with the facts there are               *)
(* (_extractFactsOnce, packages/neo4j/src/fact.ts).                        *)
(*                                                                         *)
(* The queue between the two is AtLeastOnce, which ExtractionQueue         *)
(* implements.  One action is one call to Redis or Neo4j with the turn     *)
(* that handles its reply; each may fail, with or without effect.  All     *)
(* facts are about one subject and predicate.                              *)
(***************************************************************************)
EXTENDS Naturals, Sequences, FiniteSets

CONSTANTS Calls,      \* calls of store()
          key,        \* key[a]: what tells call a's deduplication key from
                      \*   others': its tenant, agent and content
          Objects,    \* objects of the fact
          Says,       \* Says[k]: what the model may read in the content of k
          Old,        \* the object established before
          Workers,    \* extraction handlers of the queue's consumers
          None,       \* "no call"
          MaxTries,   \* MAX_RETRIES + 1 of the in-process substitute
          MaxFaults,  \* bound: crashes and calls that fail
          MaxExpired, \* bound: deduplication keys that expire
          MaxExtra    \* bound: deliveries of a job already delivered

Keys == {key[a] : a \in Calls}

ASSUME IngestionAssumption ==
  /\ Old \in Objects
  /\ Says \in [Keys -> SUBSET Objects]
  /\ None \notin Calls \cup Workers /\ Calls \cap Workers = {}
  /\ MaxTries \in Nat \ {0} /\ MaxFaults \in Nat /\ MaxExtra \in Nat
  /\ MaxExpired \in Nat

VARIABLES
  mark,       \* deduplication keys that are set
  pc,         \* where each call is
  episodes,   \* calls whose episode is in the graph
  grouped,    \* the consumer group of the queue exists
  job,        \* job[a]: what the queue owes the episode of call a; "unseen"
              \*   if it was added before there was the group
  sending,    \* calls whose enqueue() has not been answered
  tries,      \* tries[a]: attempts of the in-process substitute
  facts,      \* facts of the subject and predicate, in the order of creation
  pass,       \* the extraction pass of each worker and substitute
  faults, extra,
  stranded,   \* observer: calls that failed and whose key may have stayed
  expired     \* observer: keys that have expired

queueVars == <<job, sending, tries>>
bounds == <<faults, extra>>
vars == <<mark, pc, episodes, queueVars, facts, pass, bounds, stranded, grouped,
          expired>>

Extractors == Workers \cup Calls
Storing == {"create", "signals", "enqueue"}
NoPass == [pc |-> "idle", call |-> None, mine |-> 0, rival |-> 0, object |-> Old]

TypeOK ==
  /\ mark \subseteq Keys
  /\ pc \in [Calls -> {"idle", "rollback", "stored", "duplicate", "failed",
                       "crashed"} \cup Storing]
  /\ episodes \subseteq Calls
  /\ job \in [Calls -> {"none", "unseen", "owed", "done", "dead"}]
  /\ sending \subseteq Calls /\ stranded \subseteq Calls
  /\ grouped \in BOOLEAN /\ expired \subseteq Keys
  /\ tries \in [Calls -> 0..MaxTries]
  /\ facts \in Seq([object : Objects, source : Calls \cup {None},
                    confirmed : Calls \cup {None},
                    status : {"tentative", "active", "invalidated"}])
  /\ pass \in [Extractors ->
       [pc : {"idle", "find", "create", "corroborate", "invalidate"},
        call : Calls \cup {None}, object : Objects,
        mine : 0..Len(facts), rival : 0..Len(facts)]]
  /\ \A x \in Extractors :
       pass[x].pc # "idle" => pass[x].call \in episodes
  /\ faults \in 0..MaxFaults /\ extra \in 0..MaxExtra

Init ==
  /\ mark = {} /\ pc = [a \in Calls |-> "idle"]
  /\ episodes = {} /\ stranded = {}
  /\ job = [a \in Calls |-> "none"] /\ sending = {}
  /\ tries = [a \in Calls |-> 0]
  /\ facts = <<[object |-> Old, source |-> None, confirmed |-> None,
                status |-> "active"]>>
  /\ pass = [x \in Extractors |-> NoPass]
  /\ faults = 0 /\ extra = 0
  /\ grouped = FALSE /\ expired = {}

Fault == faults < MaxFaults /\ faults' = faults + 1

----------------------------------------------------------------------------
(* store().                                                                *)

Goto(a, label) == pc' = [pc EXCEPT ![a] = label]

\* Mutant: SET without NX, its answer taken for the check.
MarksAlways(a) ==
  /\ mark' = mark \cup {key[a]}
  /\ Goto(a, "create")

\* checkAndMark(): SET NX.
Marks(a) ==
  /\ mark' = mark \cup {key[a]}
  /\ Goto(a, IF key[a] \in mark THEN "duplicate" ELSE "create")

\* EX: 24 hours after it was set the key is gone.
MarkExpires(k) ==
  /\ k \in mark /\ Cardinality(expired) < MaxExpired
  /\ mark' = mark \ {k}
  /\ expired' = expired \cup {k}
  /\ UNCHANGED <<pc, episodes, queueVars, facts, pass, bounds, stranded, grouped>>

Mark(a) ==
  /\ pc[a] = "idle"
  /\ Marks(a)
  /\ UNCHANGED <<episodes, queueVars, facts, pass, bounds, stranded, grouped,
                 expired>>

\* A rejected SET is outside the try block: nothing takes the key back if it
\* was set after all.
MarkFails(a) ==
  /\ Fault /\ pc[a] = "idle"
  /\ \/ UNCHANGED <<mark, stranded>>
     \/ /\ key[a] \notin mark
        /\ mark' = mark \cup {key[a]}
        /\ stranded' = stranded \cup {a}
  /\ Goto(a, "failed")
  /\ UNCHANGED <<episodes, queueVars, facts, pass, extra, grouped, expired>>

\* createWithLinks(): one transaction.
Create(a) ==
  /\ pc[a] = "create"
  /\ episodes' = episodes \cup {a}
  /\ Goto(a, "signals")
  /\ UNCHANGED <<mark, queueVars, facts, pass, bounds, stranded, grouped,
                 expired>>

\* Mutant: the failure of the transaction is swallowed.
CreateFailsIgnored(a) ==
  /\ Fault /\ pc[a] = "create"
  /\ \/ UNCHANGED episodes
     \/ episodes' = episodes \cup {a}
  /\ Goto(a, "signals")
  /\ UNCHANGED <<mark, queueVars, facts, pass, extra, stranded, grouped,
                 expired>>

CreateFails(a) ==
  /\ Fault /\ pc[a] = "create"
  /\ \/ UNCHANGED episodes
     \/ episodes' = episodes \cup {a}
  /\ Goto(a, "rollback")
  /\ UNCHANGED <<mark, queueVars, facts, pass, extra, stranded, grouped,
                 expired>>

\* Linking and publishing the signals, and invalidating the contexts.
Signals(a) ==
  /\ pc[a] = "signals"
  /\ Goto(a, "enqueue")
  /\ UNCHANGED <<mark, episodes, queueVars, facts, pass, bounds, stranded,
                 grouped, expired>>

SignalsFail(a) ==
  /\ Fault /\ pc[a] = "signals"
  /\ Goto(a, "rollback")
  /\ UNCHANGED <<mark, episodes, queueVars, facts, pass, extra, stranded,
                 grouped, expired>>

\* enqueue() is not awaited: store() returns.
Return(a) ==
  /\ pc[a] = "enqueue"
  /\ sending' = sending \cup {a}
  /\ Goto(a, "stored")
  /\ UNCHANGED <<mark, episodes, job, tries, facts, pass, bounds, stranded,
                 grouped, expired>>

\* Mutant: the key deleted is not the key that was set.
UnmarksAnother(a) == UNCHANGED mark

\* unmark(): DEL, whose own failure is swallowed.
Unmarks(a) == mark' = mark \ {key[a]}

Rollback(a) ==
  /\ pc[a] = "rollback"
  /\ Unmarks(a)
  /\ Goto(a, "failed")
  /\ UNCHANGED <<episodes, queueVars, facts, pass, bounds, stranded, grouped,
                 expired>>

\* It is the second failure of one call, and not counted as another.
RollbackFails(a) ==
  /\ pc[a] = "rollback"
  /\ \/ Unmarks(a) /\ UNCHANGED stranded
     \/ stranded' = stranded \cup {a} /\ UNCHANGED mark
  /\ Goto(a, "failed")
  /\ UNCHANGED <<episodes, queueVars, facts, pass, bounds, grouped, expired>>

\* The process of the call ends, and with it its unanswered enqueue() and its
\* in-process extraction.
Crash(a) ==
  /\ Fault
  /\ \/ pc[a] \in Storing \cup {"rollback"}
     \/ a \in sending
     \/ pass[a].pc # "idle"
  /\ Goto(a, IF pc[a] = "stored" THEN "stored" ELSE "crashed")
  /\ sending' = sending \ {a}
  /\ pass' = [pass EXCEPT ![a] = NoPass]
  /\ UNCHANGED <<mark, episodes, job, tries, facts, extra, stranded, grouped,
                 expired>>

----------------------------------------------------------------------------
(* The extraction job.                                                     *)

\* XADD.  The group starts at the end of the stream ("$"): what was added
\* before there was the group is given to nobody.
Accepted(a) == job' = [job EXCEPT ![a] = IF grouped THEN "owed" ELSE "unseen"]

\* The first command of the first consumer creates the group.
GroupCreated ==
  /\ ~grouped
  /\ grouped' = TRUE
  /\ UNCHANGED <<mark, pc, episodes, queueVars, facts, pass, bounds, stranded,
                 expired>>

Begun(x, a) == pass' = [pass EXCEPT ![x] = [NoPass EXCEPT !.pc = "find",
                                                          !.call = a]]

Enqueue(a) ==
  /\ a \in sending
  /\ sending' = sending \ {a}
  /\ Accepted(a)
  /\ UNCHANGED <<mark, pc, episodes, tries, facts, pass, bounds, stranded,
                 grouped, expired>>

\* A rejected enqueue() is replaced by a pass in this process.
EnqueueFails(a) ==
  /\ Fault /\ a \in sending
  /\ sending' = sending \ {a}
  /\ \/ Accepted(a)
     \/ UNCHANGED job
  /\ Begun(a, a)
  /\ UNCHANGED <<mark, pc, episodes, tries, facts, extra, stranded, grouped,
                 expired>>

\* The queue hands the job to a handler: again, and at the same time, when
\* an entry was reclaimed or replayed.
Handled(a) == \E w \in Workers : pass[w].call = a

Deliver(w, a) ==
  /\ pass[w].pc = "idle" /\ job[a] \notin {"none", "unseen"}
  /\ \/ job[a] = "owed" /\ ~Handled(a) /\ UNCHANGED extra
     \/ /\ job[a] # "owed" \/ Handled(a)
        /\ extra < MaxExtra /\ extra' = extra + 1
  /\ Begun(w, a)
  /\ UNCHANGED <<mark, pc, episodes, queueVars, facts, faults, stranded,
                 grouped, expired>>

\* The attempts are used up.
Bury(a) ==
  /\ Fault /\ job[a] = "owed"
  /\ job' = [job EXCEPT ![a] = "dead"]
  /\ UNCHANGED <<mark, pc, episodes, sending, tries, facts, pass, extra,
                 stranded, grouped, expired>>

\* What the queue owes is what the queue's specification says it owes; a job
\* that it never gives to anybody is none to it.
Owed == [a \in Calls |-> IF job[a] = "unseen" THEN "none" ELSE job[a]]
Queue == INSTANCE AtLeastOnce WITH Jobs <- Calls, status <- Owed

----------------------------------------------------------------------------
(* _extractFactsOnce().                                                    *)

At(x, label) == pass[x].pc = label

\* Mutant: the job is not acknowledged.
EndsUnacknowledged(x) == pass' = [pass EXCEPT ![x] = NoPass] /\ UNCHANGED job

\* The pass returns, and the consumer acknowledges its job.
Ends(x) ==
  /\ pass' = [pass EXCEPT ![x] = NoPass]
  /\ job' = IF x \in Workers THEN [job EXCEPT ![pass[x].call] = "done"] ELSE job

\* findBySubjectPredicate() with tentative facts; ORDER BY valid_at decides
\* which of several comes first, by times the model leaves out.
Ids == 1..Len(facts)
Reinforcing(o) ==
  {f \in Ids : facts[f].object = o /\ facts[f].status # "invalidated"}
Conflicting(o) ==
  {f \in Ids : facts[f].object # o /\ facts[f].status = "active"}
First(S) == IF S = {} THEN {0} ELSE S

\* Mutant: any pass confirms a tentative fact.
PromotableByAny(f, a) == facts[f].status = "tentative"

\* Only another episode confirms a tentative fact.
Promotable(f, a) == facts[f].status = "tentative" /\ facts[f].source # a

Find(x) ==
  /\ At(x, "find")
  /\ \E o \in Says[key[pass[x].call]] :
     \E mine \in First(Reinforcing(o)), rival \in First(Conflicting(o)) :
       LET goto(label) ==
             /\ pass' = [pass EXCEPT ![x] = [@ EXCEPT
                           !.pc = label, !.object = o,
                           !.mine = mine, !.rival = rival]]
             /\ UNCHANGED job
       IN IF mine = 0 THEN goto("create")
          ELSE IF Promotable(mine, pass[x].call) THEN goto("corroborate")
          ELSE Ends(x)
  /\ UNCHANGED <<mark, pc, episodes, sending, tries, facts, bounds, stranded,
                 grouped, expired>>

\* What each of the writes does to the facts.
Created(x) ==
  facts' = Append(facts, [object |-> pass[x].object, source |-> pass[x].call,
                          confirmed |-> None, status |-> "tentative"])
Corroborated(x) ==
  facts' = [facts EXCEPT ![pass[x].mine] =
              [@ EXCEPT !.status = "active", !.confirmed = pass[x].call]]
Invalidated(x) ==
  facts' = [facts EXCEPT ![pass[x].rival].status = "invalidated"]

\* Mutant: invalidate before corroborate.
WritesSwapped(x) ==
  \/ At(x, "create") /\ Created(x)
  \/ At(x, "corroborate")
     /\ IF pass[x].rival # 0 THEN Invalidated(x) ELSE Corroborated(x)
  \/ At(x, "invalidate") /\ Corroborated(x)

Writes(x) ==
  \/ At(x, "create") /\ Created(x)
  \/ At(x, "corroborate") /\ Corroborated(x)
  \/ At(x, "invalidate") /\ Invalidated(x)

\* Mutant: a new fact supersedes on first sight, before it is confirmed.
SupersedesOnSight(x) ==
  IF (At(x, "create") \/ At(x, "corroborate")) /\ pass[x].rival # 0
  THEN pass' = [pass EXCEPT ![x].pc = "invalidate"] /\ UNCHANGED job
  ELSE Ends(x)

\* The replacement is active before the fact it replaces is invalidated.
Proceeds(x) ==
  IF At(x, "corroborate") /\ pass[x].rival # 0
  THEN pass' = [pass EXCEPT ![x].pc = "invalidate"] /\ UNCHANGED job
  ELSE Ends(x)

Write(x) ==
  /\ Writes(x)
  /\ Proceeds(x)
  /\ UNCHANGED <<mark, pc, episodes, sending, tries, bounds, stranded, grouped,
                 expired>>

\* A query, the model or a write fails, or the handler's process ends.  The
\* queue keeps the job; the substitute tries again while the error looks
\* transient.
PassFails(x) ==
  /\ Fault /\ ~At(x, "idle")
  /\ \/ Writes(x)
     \/ UNCHANGED facts
  /\ \/ pass' = [pass EXCEPT ![x] = NoPass] /\ UNCHANGED tries
     \/ /\ x \in Calls /\ tries[x] + 1 < MaxTries
        /\ tries' = [tries EXCEPT ![x] = @ + 1]
        /\ Begun(x, x)
  /\ UNCHANGED <<mark, pc, episodes, job, sending, extra, stranded, grouped,
                 expired>>

----------------------------------------------------------------------------

StoreStep(a) ==
  \/ Mark(a) \/ Create(a) \/ Signals(a) \/ Return(a) \/ Rollback(a)
StoreFault(a) ==
  \/ MarkFails(a) \/ CreateFails(a) \/ SignalsFail(a) \/ RollbackFails(a)
  \/ Crash(a)
PassStep(x) == Find(x) \/ Write(x)

Next ==
  \/ \E a \in Calls :
       \/ StoreStep(a) \/ StoreFault(a)
       \/ Enqueue(a) \/ EnqueueFails(a) \/ Bury(a)
       \/ \E w \in Workers : Deliver(w, a)
  \/ \E x \in Extractors : PassStep(x) \/ PassFails(x)
  \/ GroupCreated
  \/ \E k \in Keys : MarkExpires(k)

Spec == Init /\ [][Next]_vars

(* Redis answers what is under way, the queue keeps its promise to deliver *)
(* what it owes, and a pass that has begun goes on.                        *)
Fairness ==
  /\ \A a \in Calls :
       /\ WF_vars(Enqueue(a))
       /\ WF_vars(\E w \in Workers : job[a] = "owed" /\ Deliver(w, a))
  /\ \A x \in Extractors : WF_vars(PassStep(x))

FairSpec == Spec /\ Fairness

----------------------------------------------------------------------------
(* Properties.                                                             *)

Lost(a) == pc[a] \in {"rollback", "failed"}

(* However calls of one agent and content race, fail and are retried, at   *)
(* most one of the episodes they left in the graph is one whose caller was *)
(* not told of a failure, as long as no key of theirs has expired          *)
(* (service.ts:864, the atomic check-and-mark; dedup.ts:5, 24 hours).      *)
OneEpisodePerContent ==
  \A a, b \in episodes :
    key[a] = key[b] /\ key[a] \notin expired /\ ~Lost(a) /\ ~Lost(b) => a = b

(* A retry is answered "duplicate" only while a call of that key is under  *)
(* way or has stored it, or where the process ended or the key could not   *)
(* be taken back (service.ts:877-880): a failed store() leaves no key,     *)
(* also where keys expired under the calls before it.                      *)
RetryNotSwallowed ==
  \A k \in mark : \E a \in Calls :
    /\ key[a] = k
    /\ \/ pc[a] \in Storing \cup {"rollback", "stored", "crashed"}
       \/ a \in stranded

(* A fact is confirmed by another episode than the one that stated it, and *)
(* store() returned for both: repeated deliveries, in-process substitutes, *)
(* concurrent passes and the episodes a failed store() and its retry leave *)
(* in the graph confirm nothing (service.ts:1190-1206, OPT-70b).  Two such *)
(* episodes differ in agent or content, unless their key expired between   *)
(* them: another episode may well be the same text.                        *)
Confirmed(f) == facts[f].confirmed # None
TwoEpisodes(f) ==
  LET a == facts[f].source
      b == facts[f].confirmed
  IN /\ {a, b} \subseteq episodes /\ a # b
     /\ pc[a] = "stored" /\ pc[b] = "stored"
     /\ key[a] # key[b] \/ key[a] \in expired
CorroborationEarned == \A f \in Ids : Confirmed(f) => TwoEpisodes(f)

(* What was known stays known: among concurrent passes that promote and    *)
(* supersede, fail half way and are repeated, some fact is always active   *)
(* (service.ts:1230-1243: "never the only fact lost").                     *)
KnowledgeKept == \E f \in Ids : facts[f].status = "active"

(* What is established is superseded only by what two episodes state: an   *)
(* active fact is invalidated when a fact of another object has been       *)
(* confirmed, also by a pass that acts on what it read before others wrote *)
(* (service.ts:1230-1235: "so unconfirmed untrusted content can't          *)
(* overwrite known-good knowledge on a single store").                     *)
Superseded(f) == facts[f].status = "active" /\ facts'[f].status = "invalidated"
SupersessionEarned ==
  [][\A f \in Ids : Superseded(f) =>
       \E g \in Ids : /\ facts[g].object # facts[f].object
                      /\ Confirmed(g) /\ TwoEpisodes(g)]_vars

(* An episode whose store() returned gets its facts extracted, or ends in  *)
(* the dead letters.  Only when its job was added before the queue's first *)
(* consumer created the group, could not be enqueued, or was lost with its *)
(* process before it was, may the attempt be abandoned.                    *)
Settled(a) == job[a] \in {"done", "dead"}
StoredIsExtracted ==
  \A a \in Calls :
    pc[a] = "stored" ~>
      \/ Settled(a)
      \/ job[a] = "unseen"
      \/ a \notin sending /\ job[a] = "none" /\ At(a, "idle")
=============================================================================
