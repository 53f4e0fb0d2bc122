--------------------------- MODULE Ingestion_proofs ---------------------------
(* Proofs about Ingestion, for any calls, keys, workers and bounds.        *)
EXTENDS Ingestion, SequenceTheorems, TLAPS

Fact == [object : Objects, source : Calls \cup {None},
         confirmed : Calls \cup {None},
         status : {"tentative", "active", "invalidated"}]
PassLabels == {"idle", "find", "create", "corroborate", "invalidate"}

(***************************************************************************)
(* The inductive invariant.                                                *)
(***************************************************************************)

\* A job is owed, and a pass made, only for an episode whose store()
\* returned, and "stored" is never left.
StoreInv ==
  /\ \A a \in Calls : pc[a] \in {"signals", "enqueue", "stored"} => a \in episodes
  /\ \A a \in episodes : pc[a] \notin {"idle", "duplicate"}
  /\ \A a \in sending : pc[a] = "stored"
  /\ \A a \in Calls : job[a] # "none" => pc[a] = "stored"

\* The deduplication key is a lock: one call of a key holds it, from its check
\* to its rollback or for good, until the key expires under it.
Held == Storing \cup {"rollback", "stored", "crashed"}
MarkInv ==
  /\ \A a \in Calls :
       pc[a] \in Held /\ key[a] \notin expired => key[a] \in mark
  /\ \A a, b \in Calls :
       /\ pc[a] \in Held /\ pc[b] \in Held
       /\ key[a] = key[b] /\ key[a] \notin expired
       => a = b

\* What a pass carries, and what it knows of the fact it confirms.
PassInv ==
  \A x \in Extractors : pass[x].pc # "idle" =>
    /\ pass[x].call \in Calls /\ pc[pass[x].call] = "stored"
    /\ x \in Calls => pass[x].call = x
    /\ pass[x].pc \in {"corroborate", "invalidate"} =>
         /\ pass[x].mine # 0
         /\ facts[pass[x].mine].source \in Calls \ {pass[x].call}
    /\ pass[x].pc = "invalidate" => pass[x].rival # 0

\* A fact was stated, and confirmed, by calls that returned.
FactInv ==
  \A f \in 1..Len(facts) :
    /\ facts[f].source # None => pc[facts[f].source] = "stored"
    /\ facts[f].status = "tentative" => facts[f].source # None
    /\ facts[f].confirmed # None =>
         /\ facts[f].source # None /\ facts[f].source # facts[f].confirmed
         /\ pc[facts[f].confirmed] = "stored"

Inv == TypeOK /\ StoreInv /\ MarkInv /\ PassInv /\ FactInv

LEMMA Initial == ASSUME Init PROVE Inv
<1>1. /\ facts \in Seq(Fact) /\ Len(facts) = 1 /\ facts[1].source = None
      /\ facts[1].status = "active" /\ facts[1].confirmed = None
  BY IngestionAssumption DEF Init, Fact
<1>2. \A x \in Extractors : pass[x] = NoPass
  BY DEF Init
<1>3. TypeOK
  <2>1. \A x \in Extractors : pass[x].pc = "idle"
    BY <1>2 DEF NoPass
  <2>2. pass \in [Extractors ->
          [pc : PassLabels, call : Calls \cup {None}, object : Objects,
           mine : 0..Len(facts), rival : 0..Len(facts)]]
    <3>1. NoPass \in [pc : PassLabels, call : Calls \cup {None}, object : Objects,
                      mine : 0..Len(facts), rival : 0..Len(facts)]
      BY <1>1, IngestionAssumption DEF NoPass, PassLabels
    <3> QED BY <3>1 DEF Init
  <2>3. faults \in 0..MaxFaults /\ extra \in 0..MaxExtra
          /\ tries \in [Calls -> 0..MaxTries]
    BY IngestionAssumption DEF Init
  <2> QED BY <1>1, <2>1, <2>2, <2>3 DEF Init, TypeOK, Fact, PassLabels
<1>4. FactInv
  BY <1>1 DEF FactInv
<1> QED BY <1>2, <1>3, <1>4
        DEF Init, Inv, StoreInv, MarkInv, PassInv, NoPass, Held, Storing

LEMMA FactsTyped ==
  ASSUME TypeOK
  PROVE  /\ facts \in Seq(Fact) /\ Len(facts) \in Nat /\ DOMAIN facts = 1..Len(facts)
         /\ \A f \in 1..Len(facts) : facts[f] \in Fact
<1>1. facts \in Seq(Fact)
  BY DEF TypeOK, Fact
<1> QED BY <1>1, LenProperties, ElementOfSeq

(***************************************************************************)
(* Steps of store().                                                       *)
(***************************************************************************)

\* Where nothing but the store() of one call moves, the passes and the facts
\* stay what they were.
LEMMA QuietStep ==
  ASSUME Inv, UNCHANGED <<facts, pass>>,
         \A a \in Calls : pc[a] = "stored" => pc'[a] = "stored"
  PROVE  PassInv' /\ FactInv'
<1>1. \A f \in 1..Len(facts) : facts[f] \in Fact
  BY FactsTyped DEF Inv
<1>2. FactInv'
  <2> SUFFICES ASSUME NEW f \in 1..Len(facts)
               PROVE  /\ facts[f].source # None => pc'[facts[f].source] = "stored"
                      /\ facts[f].status = "tentative" => facts[f].source # None
                      /\ facts[f].confirmed # None =>
                           /\ facts[f].source # None
                           /\ facts[f].source # facts[f].confirmed
                           /\ pc'[facts[f].confirmed] = "stored"
    BY DEF FactInv
  <2>1. facts[f].source \in Calls \cup {None} /\ facts[f].confirmed \in Calls \cup {None}
    BY <1>1 DEF Fact
  <2> QED BY <2>1 DEF Inv, FactInv
<1>3. PassInv'
  BY DEF Inv, PassInv
<1> QED BY <1>2, <1>3

LEMMA FaultCounted == ASSUME TypeOK, Fault PROVE faults' \in 0..MaxFaults
BY IngestionAssumption DEF TypeOK, Fault

\* Types of what a step of store() leaves alone.
LEMMA QuietTypes ==
  ASSUME Inv, UNCHANGED <<facts, pass>>, episodes \subseteq episodes'
  PROVE  /\ facts' \in Seq(Fact)
         /\ pass' \in [Extractors ->
              [pc : PassLabels, call : Calls \cup {None}, object : Objects,
               mine : 0..Len(facts'), rival : 0..Len(facts')]]
         /\ \A x \in Extractors : pass'[x].pc # "idle" => pass'[x].call \in episodes'
BY DEF Inv, TypeOK, Fact, PassLabels

LEMMA StoreKeeps ==
  ASSUME Inv, NEW a \in Calls,
         StoreStep(a) \/ MarkFails(a) \/ CreateFails(a) \/ SignalsFail(a)
           \/ RollbackFails(a)
  PROVE  Inv'
<1> USE DEF Inv
<1>0. /\ UNCHANGED <<facts, pass, job, tries, grouped, expired>>
      /\ episodes \subseteq episodes'
  BY DEF StoreStep, Mark, Create, Signals, Return, Rollback, MarkFails,
         CreateFails, SignalsFail, RollbackFails, queueVars
<1>1. /\ pc[a] # "stored"
      /\ \E label : pc' = [pc EXCEPT ![a] = label]
  BY DEF StoreStep, Mark, Create, Signals, Return, Rollback, MarkFails,
         CreateFails, SignalsFail, RollbackFails, Goto, Marks
<1>2. PassInv' /\ FactInv'
  BY <1>0, <1>1, QuietStep DEF TypeOK
<1>3. TypeOK'
  <2>1. key[a] \in Keys
    BY DEF Keys
  <2>2. mark' \subseteq Keys /\ episodes' \subseteq Calls
          /\ sending' \subseteq Calls /\ stranded' \subseteq Calls
    BY <2>1 DEF TypeOK, StoreStep, Mark, Create, Signals, Return, Rollback,
                MarkFails, CreateFails, SignalsFail, RollbackFails, Marks,
                Unmarks, queueVars
  <2>3. pc' \in [Calls -> {"idle", "rollback", "stored", "duplicate", "failed",
                          "crashed"} \cup Storing]
    BY DEF TypeOK, StoreStep, Mark, Create, Signals, Return, Rollback, MarkFails,
           CreateFails, SignalsFail, RollbackFails, Goto, Marks, Storing
  <2>4. extra' = extra /\ (faults' = faults \/ Fault)
    BY DEF StoreStep, Mark, Create, Signals, Return, Rollback, MarkFails,
           CreateFails, SignalsFail, RollbackFails, bounds
  <2>5. faults' \in 0..MaxFaults /\ extra' \in 0..MaxExtra
    BY <2>4, FaultCounted DEF TypeOK
  <2> QED BY <1>0, <2>2, <2>3, <2>5, QuietTypes DEF TypeOK, Fact, PassLabels
<1>4. StoreInv'
  BY <1>0 DEF TypeOK, StoreInv, StoreStep, Mark, Create, Signals, Return,
              Rollback, MarkFails, CreateFails, SignalsFail, RollbackFails,
              Goto, Marks, queueVars
<1>5. MarkInv'
  <2> USE <1>0
  <2>1. CASE Mark(a)
    BY <2>1 DEF TypeOK, MarkInv, Held, Storing, Mark, Marks, Goto
  <2>2. CASE Create(a) \/ Signals(a) \/ Return(a) \/ CreateFails(a) \/ SignalsFail(a)
    BY <2>2 DEF TypeOK, MarkInv, Held, Storing, Create, Signals, Return,
                CreateFails, SignalsFail, Goto
  <2>3. CASE MarkFails(a)
    BY <2>3 DEF TypeOK, MarkInv, Held, Storing, MarkFails, Goto
  <2>4. CASE Rollback(a) \/ RollbackFails(a)
    <3>1. pc' = [pc EXCEPT ![a] = "failed"] /\ pc[a] = "rollback"
            /\ (mark' = mark \/ mark' = mark \ {key[a]})
      BY <2>4 DEF Rollback, RollbackFails, Goto, Unmarks
    <3> QED BY <3>1 DEF TypeOK, MarkInv, Held, Storing
  <2> QED BY <2>1, <2>2, <2>3, <2>4 DEF StoreStep
<1> QED BY <1>2, <1>3, <1>4, <1>5

LEMMA CrashKeeps ==
  ASSUME Inv, NEW a \in Calls, Crash(a)
  PROVE  Inv'
<1> USE DEF Inv
<1>0. UNCHANGED <<mark, episodes, job, tries, facts, extra, stranded, grouped,
                  expired>>
        /\ sending' = sending \ {a} /\ pass' = [pass EXCEPT ![a] = NoPass]
        /\ a \in Extractors
  BY DEF Crash, Extractors
<1>1. pc[a] \in Held
  BY DEF Crash, StoreInv, PassInv, Held, Storing, Extractors
<1>2. pc' = [pc EXCEPT ![a] = IF pc[a] = "stored" THEN "stored" ELSE "crashed"]
  BY DEF Crash, Goto
<1>3. NoPass.pc = "idle"
  BY DEF NoPass
<1>4. TypeOK'
  <2>1. 0 \in 0..Len(facts)
    BY LenProperties DEF TypeOK
  <2>2. NoPass \in [pc : PassLabels, call : Calls \cup {None}, object : Objects,
                    mine : 0..Len(facts), rival : 0..Len(facts)]
    BY <2>1, IngestionAssumption DEF NoPass, PassLabels
  <2>3. pass' \in [Extractors ->
              [pc : PassLabels, call : Calls \cup {None}, object : Objects,
               mine : 0..Len(facts), rival : 0..Len(facts)]]
    BY <1>0, <2>2 DEF TypeOK, PassLabels
  <2>4. \A x \in Extractors : pass'[x].pc # "idle" => pass'[x].call \in episodes
    BY <1>0, <1>3 DEF TypeOK
  <2>5. faults' \in 0..MaxFaults
    BY FaultCounted DEF Crash
  <2> QED BY <1>0, <1>2, <2>3, <2>4, <2>5 DEF TypeOK, PassLabels
<1>5. StoreInv' /\ MarkInv'
  BY <1>0, <1>1, <1>2 DEF TypeOK, StoreInv, MarkInv, Held, Storing
<1>6. FactInv'
  <2>1. \A f \in 1..Len(facts) : facts[f] \in Fact
    BY FactsTyped
  <2> QED BY <1>0, <1>2, <2>1 DEF FactInv, Fact, TypeOK
<1>7. PassInv'
  BY <1>0, <1>2, <1>3 DEF PassInv, TypeOK
<1> QED BY <1>4, <1>5, <1>6, <1>7

(***************************************************************************)
(* Steps of the queue.                                                     *)
(***************************************************************************)

\* A pass that begins for an episode that was stored.
LEMMA BeginsKeeps ==
  ASSUME Inv, NEW x \in Extractors, NEW a \in Calls, Begun(x, a),
         pc[a] = "stored", x \in Calls => a = x, UNCHANGED <<pc, facts, episodes>>
  PROVE  /\ PassInv'
         /\ pass' \in [Extractors ->
              [pc : PassLabels, call : Calls \cup {None}, object : Objects,
               mine : 0..Len(facts'), rival : 0..Len(facts')]]
         /\ \A y \in Extractors : pass'[y].pc # "idle" => pass'[y].call \in episodes'
<1> DEFINE begun == [NoPass EXCEPT !.pc = "find", !.call = a]
<1>1. /\ NoPass \in [pc : PassLabels, call : Calls \cup {None}, object : Objects,
                    mine : 0..Len(facts), rival : 0..Len(facts)]
  <2>1. 0 \in 0..Len(facts)
    BY FactsTyped DEF Inv
  <2> QED BY <2>1, IngestionAssumption DEF NoPass, PassLabels
<1>2. pass' = [pass EXCEPT ![x] = begun]
  BY DEF Begun
<1>4. begun \in [pc : PassLabels, call : Calls \cup {None}, object : Objects,
                mine : 0..Len(facts), rival : 0..Len(facts)]
  BY <1>1 DEF PassLabels
<1>5. begun.pc = "find" /\ begun.call = a /\ a \in episodes
  BY <1>1 DEF Inv, StoreInv, NoPass
<1> HIDE DEF begun
<1>6. PassInv'
  BY <1>2, <1>5 DEF Inv, PassInv, TypeOK
<1>7. pass' \in [Extractors ->
              [pc : PassLabels, call : Calls \cup {None}, object : Objects,
               mine : 0..Len(facts'), rival : 0..Len(facts')]]
  BY <1>2, <1>4 DEF Inv, TypeOK, PassLabels
<1>8. \A y \in Extractors : pass'[y].pc # "idle" => pass'[y].call \in episodes'
  BY <1>2, <1>5 DEF Inv, TypeOK
<1> QED BY <1>6, <1>7, <1>8

LEMMA QueueKeeps ==
  ASSUME Inv, NEW a \in Calls,
         \/ Enqueue(a) \/ EnqueueFails(a) \/ Bury(a)
         \/ \E w \in Workers : Deliver(w, a)
  PROVE  Inv'
<1> USE DEF Inv
<1>0. UNCHANGED <<mark, pc, episodes, tries, facts, stranded, grouped, expired>>
  BY DEF Enqueue, EnqueueFails, Bury, Deliver, queueVars
<1>1. pc[a] = "stored"
  BY DEF Enqueue, EnqueueFails, Bury, Deliver, StoreInv
<1>2. /\ sending' \subseteq sending
      /\ \E state \in {"unseen", "owed", "dead"} :
           job' = job \/ job' = [job EXCEPT ![a] = state]
  BY DEF Enqueue, EnqueueFails, Bury, Deliver, queueVars, Accepted
<1>3. /\ faults' \in 0..MaxFaults /\ extra' \in 0..MaxExtra
  <2>1. /\ faults' = faults \/ Fault
        /\ extra' = extra \/ (extra < MaxExtra /\ extra' = extra + 1)
    BY DEF Enqueue, EnqueueFails, Bury, Deliver, bounds
  <2> QED BY <2>1, FaultCounted, IngestionAssumption DEF TypeOK
<1>4. StoreInv' /\ MarkInv'
  BY <1>0, <1>1, <1>2 DEF TypeOK, StoreInv, MarkInv
<1>5. CASE Enqueue(a) \/ Bury(a)
  <2>1. UNCHANGED pass
    BY <1>5 DEF Enqueue, Bury
  <2>2. PassInv' /\ FactInv'
    BY <1>0, <2>1, QuietStep
  <2> QED BY <1>0, <1>2, <1>3, <1>4, <2>1, <2>2 DEF TypeOK
<1>6. CASE EnqueueFails(a) \/ \E w \in Workers : Deliver(w, a)
  <2>1. PICK x \in Extractors : Begun(x, a) /\ (x \in Calls => a = x)
    BY <1>6, IngestionAssumption DEF EnqueueFails, Deliver, Extractors
  <2>2. /\ PassInv'
        /\ pass' \in [Extractors ->
             [pc : PassLabels, call : Calls \cup {None}, object : Objects,
              mine : 0..Len(facts'), rival : 0..Len(facts')]]
        /\ \A y \in Extractors : pass'[y].pc # "idle" => pass'[y].call \in episodes'
    BY <1>0, <1>1, <2>1, BeginsKeeps
  <2>3. FactInv'
    BY <1>0 DEF FactInv
  <2> QED BY <1>0, <1>2, <1>3, <1>4, <2>2, <2>3 DEF TypeOK, PassLabels
<1> QED BY <1>5, <1>6

(***************************************************************************)
(* Steps of a pass.                                                        *)
(***************************************************************************)

\* Facts are added and change their status; who stated one stays.
FactsGrow ==
  /\ facts' \in Seq(Fact) /\ Len(facts') \in Nat /\ Len(facts) <= Len(facts')
  /\ \A f \in 1..Len(facts) : facts'[f].source = facts[f].source

LEMMA WritesGrow ==
  ASSUME Inv, NEW x \in Extractors, Writes(x), UNCHANGED pc
  PROVE  FactsGrow /\ FactInv'
<1> USE DEF Inv
<1>0. /\ facts \in Seq(Fact) /\ Len(facts) \in Nat /\ DOMAIN facts = 1..Len(facts)
      /\ \A f \in 1..Len(facts) : facts[f] \in Fact
  BY FactsTyped
<1>1. /\ pass[x].mine \in 0..Len(facts) /\ pass[x].rival \in 0..Len(facts)
      /\ pass[x].object \in Objects
      /\ pass[x].pc # "idle" => pass[x].call \in Calls /\ pc[pass[x].call] = "stored"
  BY DEF TypeOK, PassInv
<1>2. CASE At(x, "create") /\ Created(x)
  <2> DEFINE new == [object |-> pass[x].object, source |-> pass[x].call,
                     confirmed |-> None, status |-> "tentative"]
  <2>1. new \in Fact /\ pass[x].call \in Calls /\ pc[pass[x].call] = "stored"
    BY <1>1, <1>2 DEF At, Fact
  <2>2. /\ new.source = pass[x].call /\ new.confirmed = None
    OBVIOUS
  <2>3. facts' = Append(facts, new)
    BY <1>2 DEF Created
  <2> HIDE DEF new
  <2>4. /\ facts' \in Seq(Fact) /\ Len(facts') = Len(facts) + 1
        /\ \A f \in 1..Len(facts) : facts'[f] = facts[f]
        /\ facts'[Len(facts) + 1] = new
    BY <1>0, <2>1, <2>3, AppendProperties
  <2>5. FactsGrow
    BY <1>0, <2>4 DEF FactsGrow
  <2>6. FactInv'
    <3> SUFFICES ASSUME NEW f \in 1..Len(facts')
                 PROVE  /\ facts'[f].source # None => pc[facts'[f].source] = "stored"
                        /\ facts'[f].status = "tentative" => facts'[f].source # None
                        /\ facts'[f].confirmed # None =>
                             /\ facts'[f].source # None
                             /\ facts'[f].source # facts'[f].confirmed
                             /\ pc[facts'[f].confirmed] = "stored"
      BY DEF FactInv
    <3>1. CASE f \in 1..Len(facts)
      BY <2>4, <3>1 DEF FactInv
    <3>2. CASE f = Len(facts) + 1
      BY <2>1, <2>2, <2>4, <3>2, IngestionAssumption
    <3> QED BY <1>0, <2>4, <3>1, <3>2
  <2> QED BY <2>5, <2>6
<1>3. CASE At(x, "corroborate") /\ Corroborated(x)
  <2> DEFINE m == pass[x].mine
             new == [facts[m] EXCEPT !.status = "active", !.confirmed = pass[x].call]
  <2>1. m \in 1..Len(facts) /\ facts[m].source \in Calls \ {pass[x].call}
          /\ pass[x].call \in Calls /\ pc[pass[x].call] = "stored"
    BY <1>1, <1>3 DEF At, PassInv
  <2>2. facts[m] \in Fact
    BY <1>0, <2>1
  <2>3. new \in Fact /\ new.source = facts[m].source
          /\ new.confirmed = pass[x].call /\ new.status = "active"
    BY <2>1, <2>2 DEF Fact
  <2>4. facts' = [facts EXCEPT ![m] = new]
    BY <1>3 DEF Corroborated
  <2> HIDE DEF m, new
  <2>5. /\ facts' \in Seq(Fact) /\ Len(facts') = Len(facts)
        /\ \A f \in 1..Len(facts) : facts'[f] = IF f = m THEN new ELSE facts[f]
    BY <1>0, <2>1, <2>3, <2>4, ExceptSeq
  <2>6. FactsGrow
    BY <1>0, <2>3, <2>5 DEF FactsGrow
  <2>7. FactInv'
    BY <1>0, <2>1, <2>3, <2>5, IngestionAssumption DEF FactInv
  <2> QED BY <2>6, <2>7
<1>4. CASE At(x, "invalidate") /\ Invalidated(x)
  <2> DEFINE r == pass[x].rival
             new == [facts[r] EXCEPT !.status = "invalidated"]
  <2>1. r \in 1..Len(facts)
    BY <1>1, <1>4 DEF At, PassInv
  <2>2. facts[r] \in Fact
    BY <1>0, <2>1
  <2>3. new \in Fact /\ new.source = facts[r].source
          /\ new.confirmed = facts[r].confirmed /\ new.status = "invalidated"
    BY <2>2 DEF Fact
  <2>4. facts' = [facts EXCEPT ![r] = new]
    BY <1>4 DEF Invalidated
  <2> HIDE DEF r, new
  <2>5. /\ facts' \in Seq(Fact) /\ Len(facts') = Len(facts)
        /\ \A f \in 1..Len(facts) : facts'[f] = IF f = r THEN new ELSE facts[f]
    BY <1>0, <2>1, <2>3, <2>4, ExceptSeq
  <2>6. FactsGrow
    BY <1>0, <2>3, <2>5 DEF FactsGrow
  <2>7. FactInv'
    BY <1>0, <2>1, <2>3, <2>5 DEF FactInv
  <2> QED BY <2>6, <2>7
<1> QED BY <1>2, <1>3, <1>4 DEF Writes

Passes(n) == [pc : PassLabels, call : Calls \cup {None}, object : Objects,
              mine : 0..n, rival : 0..n]

LEMMA PassMoves ==
  ASSUME Inv, NEW x \in Extractors, NEW p \in Passes(Len(facts')),
         pass' = [pass EXCEPT ![x] = p], UNCHANGED <<pc, episodes>>, FactsGrow,
         p.pc # "idle" =>
           /\ p.call \in Calls /\ pc[p.call] = "stored"
           /\ x \in Calls => p.call = x
           /\ p.pc \in {"corroborate", "invalidate"} =>
                p.mine # 0 /\ facts'[p.mine].source \in Calls \ {p.call}
           /\ p.pc = "invalidate" => p.rival # 0
  PROVE  /\ PassInv'
         /\ pass' \in [Extractors -> Passes(Len(facts'))]
         /\ \A y \in Extractors : pass'[y].pc # "idle" => pass'[y].call \in episodes'
<1> USE DEF Inv
<1>0. /\ Len(facts) \in Nat /\ Len(facts') \in Nat /\ Len(facts) <= Len(facts')
      /\ \A f \in 1..Len(facts) : facts'[f].source = facts[f].source
      /\ pass \in [Extractors -> Passes(Len(facts))]
  BY FactsTyped DEF FactsGrow, TypeOK, Passes, PassLabels
<1>1. ASSUME NEW y \in Extractors, y # x
      PROVE  pass'[y] = pass[y] /\ pass[y] \in Passes(Len(facts'))
    BY <1>0, <1>1 DEF Passes
<1>2. pass'[x] = p
  BY <1>0
<1>3. pass' \in [Extractors -> Passes(Len(facts'))]
  BY <1>0, <1>1, <1>2
<1>4. ASSUME NEW y \in Extractors, y # x, pass[y].pc \in {"corroborate", "invalidate"}
      PROVE  facts'[pass[y].mine].source = facts[pass[y].mine].source
  <2>1. pass[y].mine \in 1..Len(facts)
    BY <1>0, <1>4 DEF PassInv, Passes
  <2> QED BY <1>0, <2>1
<1>5. PassInv'
  <2> SUFFICES ASSUME NEW y \in Extractors, pass'[y].pc # "idle"
               PROVE  /\ pass'[y].call \in Calls /\ pc[pass'[y].call] = "stored"
                      /\ y \in Calls => pass'[y].call = y
                      /\ pass'[y].pc \in {"corroborate", "invalidate"} =>
                           /\ pass'[y].mine # 0
                           /\ facts'[pass'[y].mine].source \in Calls \ {pass'[y].call}
                      /\ pass'[y].pc = "invalidate" => pass'[y].rival # 0
    BY DEF PassInv
  <2>1. CASE y = x
    BY <1>2, <2>1
  <2>2. CASE y # x
    BY <1>1, <1>4, <2>2 DEF PassInv
  <2> QED BY <2>1, <2>2
<1>6. ASSUME NEW y \in Extractors, pass'[y].pc # "idle" PROVE pass'[y].call \in episodes'
  <2>1. pass'[y].call \in Calls /\ pc[pass'[y].call] = "stored"
    BY <1>5, <1>6 DEF PassInv
  <2> QED BY <2>1 DEF StoreInv
<1> QED BY <1>3, <1>5, <1>6

LEMMA NoPassTyped ==
  ASSUME NEW n \in Nat
  PROVE  NoPass \in Passes(n) /\ NoPass.pc = "idle"
<1>1. 0 \in 0..n
  OBVIOUS
<1> QED BY <1>1, IngestionAssumption DEF NoPass, Passes, PassLabels

\* What is left of the invariant once the passes and the facts are settled.
JobsKept == /\ job' \in [Calls -> {"none", "unseen", "owed", "done", "dead"}]
            /\ \A a \in Calls : job'[a] # "none" => pc[a] = "stored"

LEMMA PassStepCloses ==
  ASSUME Inv, UNCHANGED <<mark, pc, episodes, sending, stranded, extra, grouped,
                          expired>>,
         tries' \in [Calls -> 0..MaxTries], faults' = faults \/ Fault,
         FactsGrow, FactInv', PassInv', JobsKept,
         pass' \in [Extractors -> Passes(Len(facts'))],
         \A y \in Extractors : pass'[y].pc # "idle" => pass'[y].call \in episodes'
  PROVE  Inv'
<1> USE DEF Inv
<1>1. StoreInv' /\ MarkInv'
  BY DEF StoreInv, MarkInv, JobsKept
<1>2. faults' \in 0..MaxFaults
  BY FaultCounted DEF TypeOK
<1>3. TypeOK'
  BY <1>2 DEF TypeOK, Passes, PassLabels, FactsGrow, Fact, JobsKept
<1> QED BY <1>1, <1>3

LEMMA FactsStay ==
  ASSUME Inv, UNCHANGED <<facts, pc>>
  PROVE  FactsGrow /\ FactInv'
BY FactsTyped DEF Inv, FactInv, FactsGrow

LEMMA EndKeeps ==
  ASSUME Inv, NEW x \in Extractors, ~At(x, "idle"), Ends(x), FactsGrow,
         UNCHANGED <<pc, episodes>>
  PROVE  /\ JobsKept /\ PassInv'
         /\ pass' \in [Extractors -> Passes(Len(facts'))]
         /\ \A y \in Extractors : pass'[y].pc # "idle" => pass'[y].call \in episodes'
<1>1. Len(facts') \in Nat
  BY DEF FactsGrow
<1>2. JobsKept
  BY DEF Inv, TypeOK, StoreInv, PassInv, At, Ends, JobsKept
<1>3. pass' = [pass EXCEPT ![x] = NoPass]
  BY DEF Ends
<1> QED BY <1>1, <1>2, <1>3, NoPassTyped, PassMoves

LEMMA FindKeeps ==
  ASSUME Inv, NEW x \in Extractors, Find(x)
  PROVE  Inv'
<1> USE DEF Inv
<1>0. /\ pass[x].pc = "find" /\ ~At(x, "idle")
      /\ UNCHANGED <<mark, pc, episodes, sending, tries, facts, faults, extra,
                     stranded, grouped, expired>>
  BY DEF Find, At, bounds
<1>1. FactsGrow /\ FactInv'
  BY <1>0, FactsStay
<1>2. tries' \in [Calls -> 0..MaxTries]
  BY <1>0 DEF TypeOK
<1> DEFINE Goes(o, mine, rival, label) ==
             /\ pass' = [pass EXCEPT ![x] = [@ EXCEPT
                           !.pc = label, !.object = o,
                           !.mine = mine, !.rival = rival]]
             /\ UNCHANGED job
           Moves(o, mine, rival) ==
             IF mine = 0 THEN Goes(o, mine, rival, "create")
             ELSE IF Promotable(mine, pass[x].call)
             THEN Goes(o, mine, rival, "corroborate")
             ELSE Ends(x)
<1>a. PICK o \in Says[key[pass[x].call]] :
        \E mine \in First(Reinforcing(o)), rival \in First(Conflicting(o)) :
          Moves(o, mine, rival)
  BY DEF Find
<1>3. PICK mine \in First(Reinforcing(o)), rival \in First(Conflicting(o)) :
        Moves(o, mine, rival)
  BY <1>a, Zenon
<1>4. /\ o \in Objects /\ mine \in 0..Len(facts) /\ rival \in 0..Len(facts)
      /\ pass[x].call \in Calls /\ pc[pass[x].call] = "stored"
      /\ x \in Calls => pass[x].call = x
      /\ pass[x] \in Passes(Len(facts)) /\ pass \in [Extractors -> Passes(Len(facts))]
  <2>1. pass[x].call \in Calls /\ pc[pass[x].call] = "stored"
          /\ (x \in Calls => pass[x].call = x)
    BY <1>0 DEF PassInv
  <2>2. key[pass[x].call] \in Keys
    BY <2>1 DEF Keys
  <2>3. o \in Objects
    BY <2>2, IngestionAssumption
  <2>4. mine \in 0..Len(facts) /\ rival \in 0..Len(facts)
    BY FactsTyped DEF First, Reinforcing, Conflicting, Ids
  <2>5. pass \in [Extractors -> Passes(Len(facts))]
    BY DEF TypeOK, Passes, PassLabels
  <2> QED BY <2>1, <2>3, <2>4, <2>5
<1>5. ASSUME NEW label \in {"create", "corroborate"},
             label = "corroborate" => mine # 0 /\ Promotable(mine, pass[x].call),
             pass' = [pass EXCEPT ![x] = [@ EXCEPT !.pc = label, !.object = o,
                                          !.mine = mine, !.rival = rival]],
             UNCHANGED job
      PROVE  Inv'
  <2> DEFINE p == [pass[x] EXCEPT !.pc = label, !.object = o,
                                  !.mine = mine, !.rival = rival]
  <2>1. p \in Passes(Len(facts'))
    BY <1>0, <1>4 DEF Passes, PassLabels
  <2>2. /\ p.pc = label /\ p.call = pass[x].call /\ p.mine = mine
    BY <1>4 DEF Passes
  <2>3. pass' = [pass EXCEPT ![x] = p]
    BY <1>5
  <2> HIDE DEF p
  <2>4. label = "corroborate" =>
          mine # 0 /\ facts'[mine].source \in Calls \ {pass[x].call}
    <3> SUFFICES ASSUME label = "corroborate"
                 PROVE  mine # 0 /\ facts[mine].source \in Calls \ {pass[x].call}
      BY <1>0
    <3>1. mine \in 1..Len(facts) /\ facts[mine].status = "tentative"
            /\ facts[mine].source # pass[x].call
      BY <1>4, <1>5, FactsTyped DEF Promotable
    <3>2. facts[mine].source \in Calls \cup {None} /\ facts[mine].source # None
      BY <3>1, FactsTyped DEF Fact, FactInv
    <3> QED BY <3>1, <3>2
  <2>5. /\ PassInv'
        /\ pass' \in [Extractors -> Passes(Len(facts'))]
        /\ \A y \in Extractors : pass'[y].pc # "idle" => pass'[y].call \in episodes'
    BY <1>0, <1>1, <1>4, <2>1, <2>2, <2>3, <2>4, PassMoves
  <2>6. JobsKept
    BY <1>5 DEF JobsKept, TypeOK, StoreInv
  <2> QED BY <1>0, <1>1, <1>2, <2>5, <2>6, PassStepCloses
<1>6. CASE Ends(x)
  <2>1. /\ JobsKept /\ PassInv'
        /\ pass' \in [Extractors -> Passes(Len(facts'))]
        /\ \A y \in Extractors : pass'[y].pc # "idle" => pass'[y].call \in episodes'
    BY <1>0, <1>1, <1>6, EndKeeps
  <2> QED BY <1>0, <1>1, <1>2, <2>1, PassStepCloses
<1> QED BY <1>3, <1>5, <1>6, Zenon

LEMMA WriteKeeps ==
  ASSUME Inv, NEW x \in Extractors, Write(x)
  PROVE  Inv'
<1> USE DEF Inv
<1>0. /\ ~At(x, "idle") /\ Writes(x)
      /\ UNCHANGED <<mark, pc, episodes, sending, tries, faults, extra, stranded,
                     grouped, expired>>
  BY DEF Write, Writes, At, bounds
<1>1. FactsGrow /\ FactInv'
  BY <1>0, WritesGrow
<1>2. tries' \in [Calls -> 0..MaxTries]
  BY <1>0 DEF TypeOK
<1>3. CASE Ends(x)
  <2>1. /\ JobsKept /\ PassInv'
        /\ pass' \in [Extractors -> Passes(Len(facts'))]
        /\ \A y \in Extractors : pass'[y].pc # "idle" => pass'[y].call \in episodes'
    BY <1>0, <1>1, <1>3, EndKeeps
  <2> QED BY <1>0, <1>1, <1>2, <2>1, PassStepCloses
<1>4. CASE /\ At(x, "corroborate") /\ pass[x].rival # 0
           /\ pass' = [pass EXCEPT ![x].pc = "invalidate"] /\ UNCHANGED job
  <2> DEFINE p == [pass[x] EXCEPT !.pc = "invalidate"]
  <2>1. pass[x] \in Passes(Len(facts)) /\ Len(facts) <= Len(facts')
          /\ Len(facts) \in Nat /\ Len(facts') \in Nat
    BY <1>1, FactsTyped DEF TypeOK, Passes, PassLabels, FactsGrow
  <2>2. p \in Passes(Len(facts'))
    BY <2>1 DEF Passes, PassLabels
  <2>3. /\ p.pc = "invalidate" /\ p.call = pass[x].call
        /\ p.mine = pass[x].mine /\ p.rival = pass[x].rival
    BY <2>1 DEF Passes
  <2>4. pass' = [pass EXCEPT ![x] = p]
    BY <1>4
  <2> HIDE DEF p
  <2>5. p.mine # 0 /\ facts'[p.mine].source \in Calls \ {p.call}
          /\ p.call \in Calls /\ pc[p.call] = "stored" /\ (x \in Calls => p.call = x)
    <3>1. pass[x].mine \in 1..Len(facts)
            /\ facts[pass[x].mine].source \in Calls \ {pass[x].call}
      BY <1>4, <2>1 DEF PassInv, At, Passes
    <3>2. facts'[pass[x].mine].source = facts[pass[x].mine].source
      BY <1>1, <3>1 DEF FactsGrow
    <3>3. pass[x].call \in Calls /\ pc[pass[x].call] = "stored"
            /\ (x \in Calls => pass[x].call = x)
      BY <1>4 DEF PassInv, At
    <3> QED BY <2>1, <2>3, <3>1, <3>2, <3>3
  <2>6. /\ PassInv'
        /\ pass' \in [Extractors -> Passes(Len(facts'))]
        /\ \A y \in Extractors : pass'[y].pc # "idle" => pass'[y].call \in episodes'
    BY <1>0, <1>1, <1>4, <2>2, <2>3, <2>4, <2>5, PassMoves
  <2>7. JobsKept
    BY <1>4 DEF JobsKept, TypeOK, StoreInv
  <2> QED BY <1>0, <1>1, <1>2, <2>6, <2>7, PassStepCloses
<1> QED BY <1>3, <1>4 DEF Write, Proceeds

LEMMA PassFailsKeeps ==
  ASSUME Inv, NEW x \in Extractors, PassFails(x)
  PROVE  Inv'
<1> USE DEF Inv
<1>0. /\ pass[x].pc # "idle" /\ (Writes(x) \/ UNCHANGED facts) /\ Fault
      /\ UNCHANGED <<mark, pc, episodes, job, sending, extra, stranded, grouped,
                     expired>>
  BY DEF PassFails, At
<1>1. FactsGrow /\ FactInv'
  BY <1>0, WritesGrow, FactsStay
<1>2. tries' \in [Calls -> 0..MaxTries]
  <2>1. \/ tries' = tries
        \/ /\ x \in Calls /\ tries[x] + 1 < MaxTries
           /\ tries' = [tries EXCEPT ![x] = @ + 1]
    BY DEF PassFails
  <2>2. tries \in [Calls -> 0..MaxTries] /\ MaxTries \in Nat
    BY IngestionAssumption DEF TypeOK
  <2>3. CASE tries' = tries
    BY <2>2, <2>3
  <2>4. CASE x \in Calls /\ tries[x] + 1 < MaxTries
               /\ tries' = [tries EXCEPT ![x] = @ + 1]
    <3>1. tries[x] \in 0..MaxTries
      BY <2>2, <2>4
    <3>2. tries[x] + 1 \in 0..MaxTries
      BY <2>2, <2>4, <3>1
    <3> QED BY <2>2, <2>4, <3>2
  <2> QED BY <2>1, <2>3, <2>4
<1>3. JobsKept
  BY <1>0 DEF JobsKept, TypeOK, StoreInv
<1>4. NoPass \in Passes(Len(facts')) /\ NoPass.pc = "idle"
  BY <1>1, NoPassTyped DEF FactsGrow
<1>5. CASE pass' = [pass EXCEPT ![x] = NoPass]
  <2>1. /\ PassInv'
        /\ pass' \in [Extractors -> Passes(Len(facts'))]
        /\ \A y \in Extractors : pass'[y].pc # "idle" => pass'[y].call \in episodes'
    BY <1>0, <1>1, <1>4, <1>5, PassMoves
  <2> QED BY <1>0, <1>1, <1>2, <1>3, <2>1, PassStepCloses
<1>6. CASE x \in Calls /\ Begun(x, x)
  <2> DEFINE p == [NoPass EXCEPT !.pc = "find", !.call = x]
  <2>1. p \in Passes(Len(facts')) /\ p.pc = "find" /\ p.call = x
    BY <1>4, <1>6 DEF Passes, PassLabels
  <2>2. pass' = [pass EXCEPT ![x] = p]
    BY <1>6 DEF Begun
  <2>3. pc[x] = "stored"
    BY <1>0, <1>6 DEF PassInv
  <2> HIDE DEF p
  <2>4. /\ PassInv'
        /\ pass' \in [Extractors -> Passes(Len(facts'))]
        /\ \A y \in Extractors : pass'[y].pc # "idle" => pass'[y].call \in episodes'
    BY <1>0, <1>1, <1>6, <2>1, <2>2, <2>3, PassMoves
  <2> QED BY <1>0, <1>1, <1>2, <1>3, <2>4, PassStepCloses
<1> QED BY <1>5, <1>6 DEF PassFails

\* The group appears, or a key goes.
World == GroupCreated \/ \E k \in Keys : MarkExpires(k)

LEMMA WorldStill ==
  ASSUME World
  PROVE  /\ UNCHANGED <<pc, episodes, job, sending, tries, facts, pass, faults,
                        extra, stranded>>
         /\ grouped' \in {grouped, TRUE}
         /\ \/ UNCHANGED <<mark, expired>>
            \/ \E k \in Keys : mark' = mark \ {k} /\ expired' = expired \cup {k}
BY DEF World, GroupCreated, MarkExpires, queueVars, bounds

LEMMA WorldKeeps ==
  ASSUME Inv, World
  PROVE  Inv'
<1> USE DEF Inv
<1>1. /\ UNCHANGED <<pc, episodes, job, sending, tries, facts, pass, faults, extra,
                     stranded>>
      /\ grouped' \in {grouped, TRUE}
      /\ \/ UNCHANGED <<mark, expired>>
         \/ \E k \in Keys : mark' = mark \ {k} /\ expired' = expired \cup {k}
  BY WorldStill
<1>2. TypeOK'
  BY <1>1 DEF TypeOK
<1>3. StoreInv'
  BY <1>1 DEF StoreInv
<1>4. MarkInv'
  BY <1>1 DEF MarkInv
<1>5. PassInv' /\ FactInv'
  BY <1>1, QuietStep
<1> QED BY <1>2, <1>3, <1>4, <1>5

LEMMA Step == ASSUME Inv, [Next]_vars PROVE Inv'
<1>1. CASE UNCHANGED vars
  BY <1>1 DEF vars, queueVars, bounds, Inv, TypeOK, StoreInv, MarkInv, PassInv, FactInv
<1>2. ASSUME NEW a \in Calls,
             \/ StoreStep(a) \/ StoreFault(a)
             \/ Enqueue(a) \/ EnqueueFails(a) \/ Bury(a)
             \/ \E w \in Workers : Deliver(w, a)
      PROVE  Inv'
  BY <1>2, StoreKeeps, CrashKeeps, QueueKeeps DEF StoreFault
<1>3. ASSUME NEW x \in Extractors, PassStep(x) \/ PassFails(x) PROVE Inv'
  BY <1>3, FindKeeps, WriteKeeps, PassFailsKeeps DEF PassStep
<1> QED BY <1>1, <1>2, <1>3, WorldKeeps DEF Next, World

LEMMA Invariant == Spec => []Inv
<1>1. Init => Inv
  BY Initial
<1>2. Inv /\ [Next]_vars => Inv'
  BY Step
<1> QED BY <1>1, <1>2, PTL DEF Spec

(***************************************************************************)
(* What follows.                                                           *)
(***************************************************************************)

(* Type correctness, for any constants: in particular a pass refers to     *)
(* facts there are, and is about an episode in the graph.                  *)
THEOREM TypeCorrect == Spec => []TypeOK
<1>1. Inv => TypeOK
  BY DEF Inv
<1> QED BY <1>1, Invariant, PTL

(* For any calls and keys: as long as a key has not expired, there is one  *)
(* among the calls that stored an episode under it, or still may.          *)
THEOREM UniqueEpisode == Spec => []OneEpisodePerContent
<1>1. Inv => OneEpisodePerContent
  <2> SUFFICES ASSUME Inv, NEW a \in episodes, NEW b \in episodes,
                      key[a] = key[b], key[a] \notin expired,
                      ~Lost(a), ~Lost(b)
               PROVE  a = b
    BY DEF OneEpisodePerContent
  <2>1. a \in Calls /\ b \in Calls /\ pc[a] \in Held /\ pc[b] \in Held
    BY DEF Inv, TypeOK, StoreInv, Lost, Held
  <2> QED BY <2>1 DEF Inv, MarkInv
<1> QED BY <1>1, Invariant, PTL

\* The calls behind the stating and the confirming returned, so that one key was
\* not held by both while it lasted.
LEMMA CorroborationHolds == ASSUME Inv PROVE CorroborationEarned
<1> SUFFICES ASSUME NEW f \in 1..Len(facts), facts[f].confirmed # None
             PROVE  TwoEpisodes(f)
  BY DEF CorroborationEarned, Confirmed, Ids
<1>1. facts[f].source \in Calls /\ facts[f].confirmed \in Calls
        /\ facts[f].source # facts[f].confirmed
        /\ pc[facts[f].source] = "stored" /\ pc[facts[f].confirmed] = "stored"
  BY FactsTyped DEF Inv, FactInv, Fact
<1>2. /\ {facts[f].source, facts[f].confirmed} \subseteq episodes
      /\ \/ key[facts[f].source] # key[facts[f].confirmed]
         \/ key[facts[f].source] \in expired
  BY <1>1 DEF Inv, StoreInv, MarkInv, Held
<1> QED BY <1>1, <1>2 DEF TwoEpisodes

(* For any calls, keys and workers: what one episode says is confirmed     *)
(* only by another, both of them returned to their callers, and under one  *)
(* key only if that expired in between.                                    *)
THEOREM EarnedCorroboration == Spec => []CorroborationEarned
<1>1. Inv => CorroborationEarned
  BY CorroborationHolds
<1> QED BY <1>1, Invariant, PTL

LEMMA RetryStep ==
  ASSUME Inv, Inv', RetryNotSwallowed, [Next]_vars
  PROVE  RetryNotSwallowed'
<1> DEFINE Holder(a, k) ==
      /\ key[a] = k
      /\ \/ pc[a] \in Storing \cup {"rollback", "stored", "crashed"}
         \/ a \in stranded
<1>0. \A k \in mark : \E a \in Calls : Holder(a, k)
  BY DEF RetryNotSwallowed
<1>1. ASSUME UNCHANGED <<mark, pc, stranded>> PROVE RetryNotSwallowed'
  BY <1>0, <1>1 DEF RetryNotSwallowed
<1>2. ASSUME NEW a \in Calls, StoreStep(a) \/ StoreFault(a)
      PROVE  RetryNotSwallowed'
  <2>0. pc \in [Calls -> {"idle", "rollback", "stored", "duplicate", "failed",
                         "crashed"} \cup Storing]
    BY DEF Inv, TypeOK
  <2>1. CASE Mark(a)
    <3>1. mark' = mark \cup {key[a]} /\ stranded' = stranded /\ pc[a] = "idle"
            /\ pc' = [pc EXCEPT ![a] = IF key[a] \in mark THEN "duplicate"
                                                           ELSE "create"]
      BY <2>1 DEF Mark, Marks, Goto
    <3>2. \A k \in mark : \E b \in Calls : Holder(b, k)'
      BY <1>0, <2>0, <3>1 DEF Storing
    <3>3. key[a] \notin mark => Holder(a, key[a])'
      BY <2>0, <3>1 DEF Storing
    <3>4. \A k \in mark' : \E b \in Calls : Holder(b, k)'
      BY <3>1, <3>2, <3>3
    <3> QED BY <3>4 DEF RetryNotSwallowed
  <2>2. CASE MarkFails(a)
    <3>1. pc' = [pc EXCEPT ![a] = "failed"] /\ pc[a] = "idle"
      BY <2>2 DEF MarkFails, Goto
    <3>2. /\ stranded \subseteq stranded'
          /\ mark' = mark \/ (mark' = mark \cup {key[a]} /\ a \in stranded')
      BY <2>2 DEF MarkFails
    <3>3. \A k \in mark : \E b \in Calls : Holder(b, k)'
      BY <1>0, <2>0, <3>1, <3>2 DEF Storing
    <3>4. a \in stranded' => Holder(a, key[a])'
      OBVIOUS
    <3>5. \A k \in mark' : \E b \in Calls : Holder(b, k)'
      BY <3>2, <3>3, <3>4
    <3> QED BY <3>5 DEF RetryNotSwallowed
  <2>3. CASE Create(a) \/ Signals(a) \/ Return(a) \/ CreateFails(a) \/ SignalsFail(a)
               \/ Crash(a)
    <3>1. mark' = mark /\ stranded' = stranded
            /\ \E label \in Storing \cup {"rollback", "stored", "crashed"} :
                 pc' = [pc EXCEPT ![a] = label]
      BY <2>3 DEF Create, Signals, Return, CreateFails, SignalsFail, Crash, Goto,
                  Storing
    <3>2. \A k \in mark' : \E b \in Calls : Holder(b, k)'
      BY <1>0, <2>0, <3>1
    <3> QED BY <3>2 DEF RetryNotSwallowed
  <2>4. CASE Rollback(a) \/ RollbackFails(a)
    <3>1. /\ pc' = [pc EXCEPT ![a] = "failed"] /\ stranded \subseteq stranded'
          /\ mark' = mark \ {key[a]} \/ (mark' = mark /\ a \in stranded')
      BY <2>4 DEF Rollback, RollbackFails, Unmarks, Goto
    <3>2. \A k \in mark' : \E b \in Calls : Holder(b, k)'
      <4> SUFFICES ASSUME NEW k \in mark' PROVE \E b \in Calls : Holder(b, k)'
        OBVIOUS
      <4>1. PICK b \in Calls : Holder(b, k)
        BY <1>0, <3>1
      <4>2. CASE b # a
        BY <2>0, <3>1, <4>1, <4>2
      <4>3. CASE b = a
        BY <3>1, <4>1, <4>3
      <4> QED BY <4>2, <4>3
    <3> QED BY <3>2 DEF RetryNotSwallowed
  <2> QED BY <1>2, <2>1, <2>2, <2>3, <2>4 DEF StoreStep, StoreFault
<1>3. ASSUME NEW a \in Calls,
             \/ Enqueue(a) \/ EnqueueFails(a) \/ Bury(a)
             \/ \E w \in Workers : Deliver(w, a)
      PROVE  RetryNotSwallowed'
  BY <1>1, <1>3 DEF Enqueue, EnqueueFails, Bury, Deliver
<1>4. ASSUME NEW x \in Extractors, PassStep(x) \/ PassFails(x)
      PROVE  RetryNotSwallowed'
  BY <1>1, <1>4 DEF PassStep, Find, Write, PassFails
<1>5. CASE UNCHANGED vars
  BY <1>1, <1>5 DEF vars
<1>6. CASE World
  <2>1. mark' \subseteq mark /\ UNCHANGED <<pc, stranded>>
    BY <1>6, WorldStill
  <2>2. \A k \in mark' : \E a \in Calls : Holder(a, k)'
    BY <1>0, <2>1
  <2> QED BY <2>2 DEF RetryNotSwallowed
<1> QED BY <1>2, <1>3, <1>4, <1>5, <1>6 DEF Next, World

(* For any calls and keys: a store() that failed leaves no key behind, *)
(* unless its process ended or the key could not be taken back, whichever  *)
(* keys expire under the calls before it.                                  *)
THEOREM RetryStaysPossible == Spec => []RetryNotSwallowed
<1>1. Init => RetryNotSwallowed
  BY DEF Init, RetryNotSwallowed
<1>2. Inv /\ Inv' /\ RetryNotSwallowed /\ [Next]_vars => RetryNotSwallowed'
  BY RetryStep
<1> QED BY <1>1, <1>2, Invariant, PTL DEF Spec

(***************************************************************************)
(* Something is always known.                                              *)
(*                                                                         *)
(* Rank the facts by when they were first confirmed.  A pass that begins   *)
(* sees its rival confirmed and its own fact not yet, so what it will      *)
(* invalidate has the lower rank of the two, and the fact of the highest   *)
(* rank is never invalidated.                                              *)
(***************************************************************************)

Tentative(f) == facts[f].status = "tentative"
Pending == {x \in Extractors : pass[x].pc \in {"corroborate", "invalidate"}}

Ranked(rank) ==
  \A x \in Pending : pass[x].rival # 0 =>
    ~Tentative(pass[x].rival) /\ rank[pass[x].rival] < rank[pass[x].mine]
Top(rank, f) ==
  /\ f \in 1..Len(facts) /\ facts[f].status = "active"
  /\ \A g \in 1..Len(facts) : ~Tentative(g) => rank[g] <= rank[f]

IsRank(rank) == rank \in [Nat -> Nat]
RankInv == \E rank, f : IsRank(rank) /\ Ranked(rank) /\ Top(rank, f)
PromotedInv ==
  \A x \in Extractors : pass[x].pc = "invalidate" => ~Tentative(pass[x].mine)
KnownInv == RankInv /\ PromotedInv

LEMMA RankRaised ==
  ASSUME NEW rank, IsRank(rank), NEW f \in Nat, NEW m \in Nat
  PROVE  \E new : /\ IsRank(new) /\ new[m] = rank[f] + 1
                  /\ \A g \in Nat : g # m => new[g] = rank[g]
<1> DEFINE new == [rank EXCEPT ![m] = rank[f] + 1]
<1>1. new \in [Nat -> Nat] /\ new[m] = rank[f] + 1
        /\ \A g \in Nat : g # m => new[g] = rank[g]
  BY DEF IsRank
<1> QED BY <1>1 DEF IsRank

LEMMA RankNat ==
  ASSUME NEW rank, IsRank(rank), NEW f \in Nat
  PROVE  rank[f] \in Nat
BY DEF IsRank

\* What the writes do to the statuses.
LEMMA WritesStatus ==
  ASSUME Inv, NEW x \in Extractors, Writes(x)
  PROVE  /\ pass[x].pc \in {"create", "corroborate", "invalidate"}
         /\ pass[x].pc = "create" =>
              /\ Len(facts') = Len(facts) + 1 /\ facts'[Len(facts) + 1].status = "tentative"
              /\ \A f \in 1..Len(facts) : facts'[f] = facts[f]
         /\ pass[x].pc = "corroborate" =>
              /\ Len(facts') = Len(facts) /\ pass[x].mine \in 1..Len(facts)
              /\ \A f \in 1..Len(facts) :
                   facts'[f].status = IF f = pass[x].mine THEN "active"
                                                          ELSE facts[f].status
         /\ pass[x].pc = "invalidate" =>
              /\ Len(facts') = Len(facts) /\ pass[x].rival \in 1..Len(facts)
              /\ \A f \in 1..Len(facts) :
                   facts'[f].status = IF f = pass[x].rival THEN "invalidated"
                                                           ELSE facts[f].status
<1> USE DEF Inv
<1>0. /\ facts \in Seq(Fact) /\ Len(facts) \in Nat /\ DOMAIN facts = 1..Len(facts)
      /\ \A f \in 1..Len(facts) : facts[f] \in Fact
      /\ pass[x].mine \in 0..Len(facts) /\ pass[x].rival \in 0..Len(facts)
  BY FactsTyped DEF TypeOK
<1>1. CASE At(x, "create") /\ Created(x)
  <2> DEFINE new == [object |-> pass[x].object, source |-> pass[x].call,
                     confirmed |-> None, status |-> "tentative"]
  <2>1. new \in Fact /\ new.status = "tentative"
    BY <1>1 DEF At, Fact, TypeOK, PassInv
  <2>2. facts' = Append(facts, new)
    BY <1>1 DEF Created
  <2> HIDE DEF new
  <2> QED BY <1>0, <1>1, <2>1, <2>2, AppendProperties DEF At, Tentative
<1>2. CASE At(x, "corroborate") /\ Corroborated(x)
  <2> DEFINE m == pass[x].mine
             new == [facts[m] EXCEPT !.status = "active", !.confirmed = pass[x].call]
  <2>1. m \in 1..Len(facts) /\ pass[x].call \in Calls
    BY <1>0, <1>2 DEF At, PassInv
  <2>2. new \in Fact /\ new.status = "active"
    BY <1>0, <2>1 DEF Fact
  <2>3. facts' = [facts EXCEPT ![m] = new]
    BY <1>2 DEF Corroborated
  <2> HIDE DEF m, new
  <2>4. /\ Len(facts') = Len(facts)
        /\ \A f \in 1..Len(facts) : facts'[f] = IF f = m THEN new ELSE facts[f]
    BY <1>0, <2>1, <2>2, <2>3, ExceptSeq
  <2> QED BY <1>2, <2>1, <2>2, <2>4 DEF At, m
<1>3. CASE At(x, "invalidate") /\ Invalidated(x)
  <2> DEFINE r == pass[x].rival
             new == [facts[r] EXCEPT !.status = "invalidated"]
  <2>1. r \in 1..Len(facts)
    BY <1>0, <1>3 DEF At, PassInv
  <2>2. new \in Fact /\ new.status = "invalidated"
    BY <1>0, <2>1 DEF Fact
  <2>3. facts' = [facts EXCEPT ![r] = new]
    BY <1>3 DEF Invalidated
  <2> HIDE DEF r, new
  <2>4. /\ Len(facts') = Len(facts)
        /\ \A f \in 1..Len(facts) : facts'[f] = IF f = r THEN new ELSE facts[f]
    BY <1>0, <2>1, <2>2, <2>3, ExceptSeq
  <2> QED BY <1>3, <2>1, <2>2, <2>4 DEF At, r
<1> QED BY <1>1, <1>2, <1>3 DEF Writes

\* Passes go on with the facts they chose, or end.
Continues ==
  \A y \in Pending' :
    y \in Pending /\ pass'[y].mine = pass[y].mine /\ pass'[y].rival = pass[y].rival

LEMMA PendingTyped ==
  ASSUME Inv
  PROVE  \A y \in Pending :
           /\ y \in Extractors /\ pass[y].mine \in 1..Len(facts)
           /\ pass[y].rival # 0 => pass[y].rival \in 1..Len(facts)
<1> SUFFICES ASSUME NEW y \in Pending
             PROVE  /\ y \in Extractors /\ pass[y].mine \in 1..Len(facts)
                    /\ pass[y].rival # 0 => pass[y].rival \in 1..Len(facts)
  OBVIOUS
<1>1. y \in Extractors /\ pass[y].mine \in 0..Len(facts)
        /\ pass[y].rival \in 0..Len(facts) /\ pass[y].mine # 0
        /\ Len(facts) \in Nat
  BY FactsTyped DEF Inv, TypeOK, PassInv, Pending
<1> QED BY <1>1

LEMMA RankQuiet ==
  ASSUME Inv, RankInv, UNCHANGED facts, Continues
  PROVE  RankInv'
<1>1. PICK rank, f : IsRank(rank) /\ Ranked(rank) /\ Top(rank, f)
  BY DEF RankInv
<1>2. Ranked(rank)' /\ Top(rank, f)'
  BY <1>1 DEF Ranked, Top, Tentative, Continues
<1> QED BY <1>1, <1>2, Zenon DEF RankInv, IsRank

LEMMA RankWrites ==
  ASSUME Inv, RankInv, PromotedInv, NEW x \in Extractors, Writes(x), Continues
  PROVE  RankInv'
<1>1. PICK rank, f : IsRank(rank) /\ Ranked(rank) /\ Top(rank, f)
  BY DEF RankInv
<1>2. Len(facts) \in Nat
  BY FactsTyped DEF Inv
<1>3. CASE pass[x].pc = "create"
  <2>1. /\ Len(facts') = Len(facts) + 1 /\ facts'[Len(facts) + 1].status = "tentative"
        /\ \A g \in 1..Len(facts) : facts'[g] = facts[g]
    BY <1>3, WritesStatus
  <2>2. Top(rank, f)'
    BY <1>1, <1>2, <2>1 DEF Top, Tentative
  <2>3. Ranked(rank)'
    BY <1>1, <1>2, <2>1, PendingTyped DEF Ranked, Tentative, Continues
  <2> QED BY <1>1, <2>2, <2>3, Zenon DEF RankInv, IsRank
<1>4. CASE pass[x].pc = "invalidate"
  <2>0. PICK r : r = pass[x].rival
    OBVIOUS
  <2>1. /\ Len(facts') = Len(facts) /\ r \in 1..Len(facts)
        /\ \A g \in 1..Len(facts) :
             facts'[g].status = IF g = r THEN "invalidated" ELSE facts[g].status
    BY <1>4, <2>0, WritesStatus
  <2>2. x \in Pending /\ pass[x].mine \in 1..Len(facts) /\ r # 0
    BY <1>2, <1>4, <2>0, <2>1, PendingTyped DEF Pending
  <2>3. rank[r] < rank[pass[x].mine] /\ rank[pass[x].mine] <= rank[f]
    BY <1>1, <1>4, <2>0, <2>2 DEF Ranked, Top, PromotedInv
  <2>a. rank[r] \in Nat /\ rank[pass[x].mine] \in Nat /\ rank[f] \in Nat
    BY <1>1, <1>2, <2>1, <2>2, RankNat DEF Top
  <2>4. r # f
    BY <2>3, <2>a
  <2>b. rank[r] <= rank[f]
    BY <2>3, <2>a
  <2>5. Top(rank, f)'
    BY <1>1, <2>1, <2>4, <2>b DEF Top, Tentative
  <2>6. Ranked(rank)'
    BY <1>1, <2>1, PendingTyped DEF Ranked, Tentative, Continues
  <2> QED BY <1>1, <2>5, <2>6, Zenon DEF RankInv, IsRank
<1>5. CASE pass[x].pc = "corroborate"
  <2>0. PICK m : m = pass[x].mine
    OBVIOUS
  <2>1. /\ Len(facts') = Len(facts) /\ m \in 1..Len(facts)
        /\ \A g \in 1..Len(facts) :
             facts'[g].status = IF g = m THEN "active" ELSE facts[g].status
    BY <1>5, <2>0, WritesStatus
  <2>2. CASE ~Tentative(m)
    <3>1. Top(rank, f)'
      BY <1>1, <2>1, <2>2 DEF Top, Tentative
    <3>2. Ranked(rank)'
      BY <1>1, <2>1, PendingTyped DEF Ranked, Tentative, Continues
    <3> QED BY <1>1, <3>1, <3>2, Zenon DEF RankInv, IsRank
  <2>3. CASE Tentative(m)
    <3>1. m \in Nat /\ f \in 1..Len(facts) /\ f \in Nat
      BY <1>1, <1>2, <2>1 DEF Top
    <3>2. PICK new : /\ IsRank(new) /\ new[m] = rank[f] + 1
                     /\ \A g \in Nat : g # m => new[g] = rank[g]
      BY <1>1, <3>1, RankRaised
    <3>a. new[m] \in Nat
      BY <3>1, <3>2, RankNat
    <3>3. Top(new, m)'
      <4> SUFFICES ASSUME NEW g \in 1..Len(facts), ~Tentative(g)', g # m
                   PROVE  new[g] <= new[m]
        BY <2>1, <3>1, <3>2, <3>a DEF Top
      <4>1. ~Tentative(g) /\ g \in Nat
        BY <1>2, <2>1 DEF Tentative
      <4>2. rank[g] <= rank[f] /\ rank[g] \in Nat /\ rank[f] \in Nat
        BY <1>1, <3>1, <4>1, RankNat DEF Top
      <4> QED BY <3>2, <4>1, <4>2
    <3>4. Ranked(new)'
      <4> SUFFICES ASSUME NEW y \in Pending', pass'[y].rival # 0
                   PROVE  facts'[pass'[y].rival].status # "tentative"
                            /\ new[pass'[y].rival] < new[pass'[y].mine]
        BY DEF Ranked, Tentative
      <4>0. PICK r, own : r = pass[y].rival /\ own = pass[y].mine
        OBVIOUS
      <4>1. y \in Pending /\ pass'[y].rival = r /\ pass'[y].mine = own
        BY <4>0 DEF Continues
      <4>2. r \in 1..Len(facts) /\ own \in 1..Len(facts)
        BY <4>0, <4>1, PendingTyped
      <4>3. ~Tentative(r) /\ rank[r] < rank[own]
        BY <1>1, <4>0, <4>1 DEF Ranked
      <4>4. r # m /\ r \in Nat /\ own \in Nat
        BY <1>2, <2>3, <4>2, <4>3
      <4>5. ~Tentative(r)'
        BY <2>1, <4>2, <4>3 DEF Tentative
      <4>6. rank[r] <= rank[f] /\ rank[r] \in Nat /\ rank[f] \in Nat
        BY <1>1, <3>1, <4>2, <4>3, <4>4, RankNat DEF Top
      <4>7. new[r] < new[own]
        <5>1. CASE own = m
          BY <3>2, <4>4, <4>6, <5>1
        <5>2. CASE own # m
          BY <3>2, <4>3, <4>4, <5>2
        <5> QED BY <5>1, <5>2
      <4> QED BY <4>1, <4>5, <4>7 DEF Tentative
    <3> QED BY <3>2, <3>3, <3>4, Zenon DEF RankInv, IsRank
  <2> QED BY <2>2, <2>3
<1> QED BY <1>3, <1>4, <1>5, WritesStatus

\* A pass that begins to confirm a tentative fact raises its rank.
LEMMA RankFind ==
  ASSUME Inv, RankInv, NEW x \in Extractors, Find(x)
  PROVE  RankInv'
<1>0. facts' = facts /\ Len(facts) \in Nat
        /\ pass \in [Extractors -> Passes(Len(facts))]
  BY FactsTyped DEF Find, Inv, TypeOK, Passes, PassLabels
<1>1. CASE Continues
  BY <1>0, <1>1, RankQuiet
<1>2. CASE ~Continues
  <2> DEFINE Goes(o, mine, rival, label) ==
               pass' = [pass EXCEPT ![x] = [@ EXCEPT
                           !.pc = label, !.object = o,
                           !.mine = mine, !.rival = rival]]
             Moves(o, mine, rival) ==
               IF mine = 0 THEN Goes(o, mine, rival, "create")
               ELSE IF Promotable(mine, pass[x].call)
               THEN Goes(o, mine, rival, "corroborate")
               ELSE pass' = [pass EXCEPT ![x] = NoPass]
  <2>1. PICK o \in Says[key[pass[x].call]] :
          \E mine \in First(Reinforcing(o)), rival \in First(Conflicting(o)) :
            Moves(o, mine, rival)
    BY DEF Find, Ends
  <2>2. PICK m \in First(Reinforcing(o)), r \in First(Conflicting(o)) : Moves(o, m, r)
    BY <2>1, Zenon
  <2>3. \A y \in Extractors : y # x => pass'[y] = pass[y]
    BY <1>0, <2>2
  <2>4. /\ m \in 1..Len(facts) /\ Tentative(m)
        /\ pass'[x].mine = m /\ pass'[x].rival = r
    <3>1. pass'[x].pc \in {"corroborate", "invalidate"}
      BY <1>2, <2>3 DEF Continues, Pending
    <3>2. ~Goes(o, m, r, "create") /\ pass' # [pass EXCEPT ![x] = NoPass]
      <4>1. ASSUME Goes(o, m, r, "create") PROVE FALSE
        <5>1. pass'[x].pc = "create"
          BY <1>0, <4>1 DEF Passes
        <5> QED BY <3>1, <5>1
      <4>2. pass' # [pass EXCEPT ![x] = NoPass]
        BY <1>0, <3>1 DEF NoPass
      <4> QED BY <4>1, <4>2
    <3>3. m # 0 /\ Promotable(m, pass[x].call) /\ Goes(o, m, r, "corroborate")
      BY <2>2, <3>2
    <3>4. m \in 1..Len(facts) /\ Tentative(m)
      BY <3>3 DEF First, Reinforcing, Ids, Promotable, Tentative
    <3> QED BY <1>0, <3>3, <3>4 DEF Passes
  <2>5. r # 0 => r \in 1..Len(facts) /\ facts[r].status = "active"
    BY DEF First, Conflicting, Ids
  <2>6. PICK rank, f : IsRank(rank) /\ Ranked(rank) /\ Top(rank, f)
    BY DEF RankInv
  <2>7. m \in Nat /\ f \in 1..Len(facts) /\ f # m /\ f \in Nat
    BY <1>0, <2>4, <2>6 DEF Top, Tentative
  <2>8. PICK new : /\ IsRank(new) /\ new[m] = rank[f] + 1
                   /\ \A g \in Nat : g # m => new[g] = rank[g]
    BY <2>6, <2>7, RankRaised
  <2>9. Top(new, f)'
    <3> SUFFICES ASSUME NEW g \in 1..Len(facts), ~Tentative(g)
                 PROVE  new[g] <= new[f]
      BY <1>0, <2>6 DEF Top, Tentative
    <3>1. g # m /\ g \in Nat
      BY <1>0, <2>4
    <3>2. rank[g] <= rank[f]
      BY <2>6 DEF Top
    <3> QED BY <2>7, <2>8, <3>1, <3>2
  <2>10. Ranked(new)'
    <3> SUFFICES ASSUME NEW y \in Pending', pass'[y].rival # 0
                 PROVE  facts'[pass'[y].rival].status # "tentative"
                          /\ new[pass'[y].rival] < new[pass'[y].mine]
      BY DEF Ranked, Tentative
    <3>1. CASE y = x
      <4>1. r \in 1..Len(facts) /\ ~Tentative(r) /\ r # m /\ r \in Nat
        BY <1>0, <2>4, <2>5, <3>1 DEF Tentative
      <4>2. rank[r] <= rank[f] /\ rank[r] \in Nat /\ rank[f] \in Nat
        BY <2>6, <2>7, <4>1, RankNat DEF Top
      <4>3. new[r] < new[m]
        BY <2>8, <4>1, <4>2
      <4> QED BY <1>0, <2>4, <3>1, <4>1, <4>3 DEF Tentative
    <3>2. CASE y # x
      <4>0. PICK s, own : s = pass[y].rival /\ own = pass[y].mine
        OBVIOUS
      <4>1. y \in Pending /\ pass'[y] = pass[y]
        BY <2>3, <3>2 DEF Pending
      <4>2. s \in 1..Len(facts) /\ own \in 1..Len(facts)
        BY <4>0, <4>1, PendingTyped
      <4>3. ~Tentative(s) /\ rank[s] < rank[own]
        BY <2>6, <4>0, <4>1 DEF Ranked
      <4>4. s # m /\ s \in Nat /\ own \in Nat
        BY <1>0, <2>4, <4>2, <4>3
      <4>5. rank[s] <= rank[f] /\ rank[s] \in Nat /\ rank[f] \in Nat
        BY <2>6, <2>7, <4>2, <4>3, <4>4, RankNat DEF Top
      <4>6. new[s] < new[own]
        <5>1. CASE own = m
          BY <2>8, <4>4, <4>5, <5>1
        <5>2. CASE own # m
          BY <2>8, <4>3, <4>4, <5>2
        <5> QED BY <5>1, <5>2
      <4> QED BY <1>0, <4>0, <4>1, <4>3, <4>6 DEF Tentative
    <3> QED BY <3>1, <3>2
  <2> QED BY <2>8, <2>9, <2>10, Zenon DEF RankInv, IsRank
<1> QED BY <1>1, <1>2

\* What was promoted is not made tentative again.
LEMMA PromotedStays ==
  ASSUME Inv, NEW x \in Extractors, Writes(x), NEW f \in 1..Len(facts), ~Tentative(f)
  PROVE  ~Tentative(f)'
BY WritesStatus DEF Tentative

\* Find(x) begins to write, or ends the pass; it does not go on to invalidate, and
\* one that begins to confirm a fact has chosen a rival of another object.
LEMMA FindChooses ==
  ASSUME Inv, NEW x \in Extractors, Find(x)
  PROVE  /\ pass'[x].pc # "invalidate"
         /\ pass'[x].pc = "corroborate" /\ pass'[x].rival # 0 =>
              facts[pass'[x].rival].object # facts[pass'[x].mine].object
<1>0. pass \in [Extractors -> Passes(Len(facts))]
  BY DEF Inv, TypeOK, Passes, PassLabels
<1> DEFINE Goes(o, mine, rival, label) ==
             pass' = [pass EXCEPT ![x] = [@ EXCEPT
                         !.pc = label, !.object = o,
                         !.mine = mine, !.rival = rival]]
           Moves(o, mine, rival) ==
             IF mine = 0 THEN Goes(o, mine, rival, "create")
             ELSE IF Promotable(mine, pass[x].call)
             THEN Goes(o, mine, rival, "corroborate")
             ELSE pass' = [pass EXCEPT ![x] = NoPass]
<1>1. PICK o \in Says[key[pass[x].call]] :
        \E mine \in First(Reinforcing(o)), rival \in First(Conflicting(o)) :
          Moves(o, mine, rival)
  BY DEF Find, Ends
<1>2. PICK m \in First(Reinforcing(o)), r \in First(Conflicting(o)) : Moves(o, m, r)
  BY <1>1, Zenon
<1>3. ASSUME Goes(o, m, r, "create") PROVE pass'[x].pc = "create"
  BY <1>0, <1>3 DEF Passes
<1>4. ASSUME Goes(o, m, r, "corroborate")
      PROVE  pass'[x].pc = "corroborate" /\ pass'[x].mine = m /\ pass'[x].rival = r
  BY <1>0, <1>4 DEF Passes
<1>5. ASSUME pass' = [pass EXCEPT ![x] = NoPass] PROVE pass'[x].pc = "idle"
  BY <1>0, <1>5 DEF NoPass
<1>6. /\ m # 0 => facts[m].object = o
      /\ r # 0 => facts[r].object # o
  BY DEF First, Reinforcing, Conflicting
<1> HIDE DEF Goes
<1> QED BY <1>2, <1>3, <1>4, <1>5, <1>6

LEMMA KnownPass ==
  ASSUME Inv, KnownInv, NEW x \in Extractors, PassStep(x) \/ PassFails(x)
  PROVE  KnownInv'
<1> USE DEF KnownInv
<1>0. pass \in [Extractors -> Passes(Len(facts))]
  BY DEF Inv, TypeOK, Passes, PassLabels
<1>1. CASE Find(x)
  <2>1. facts' = facts /\ \A y \in Extractors : y # x => pass'[y] = pass[y]
    BY <1>0, <1>1 DEF Find, Ends
  <2>2. pass'[x].pc # "invalidate"
    BY <1>1, FindChooses
  <2>3. PromotedInv'
    BY <2>1, <2>2 DEF PromotedInv, Tentative
  <2> QED BY <1>1, <2>3, RankFind
<1>2. CASE Write(x)
  <2>1. Writes(x) /\ Proceeds(x)
    BY <1>2 DEF Write
  <2>2. \A y \in Extractors : y # x => pass'[y] = pass[y]
    BY <1>0, <2>1 DEF Proceeds, Ends
  <2>3. \/ pass'[x] = NoPass
        \/ /\ pass[x].pc = "corroborate" /\ pass'[x].pc = "invalidate"
           /\ pass'[x].mine = pass[x].mine /\ pass'[x].rival = pass[x].rival
    BY <1>0, <2>1 DEF Proceeds, Ends, At, Passes
  <2>4. Continues
    BY <2>2, <2>3 DEF Continues, Pending, NoPass
  <2>5. ASSUME NEW y \in Extractors, pass'[y].pc = "invalidate"
        PROVE  facts'[pass'[y].mine].status # "tentative"
    <3>1. CASE y = x
      <4>1. pass[x].pc = "corroborate" /\ pass'[x].mine = pass[x].mine
        BY <2>3, <2>5, <3>1 DEF NoPass
      <4> QED BY <2>1, <3>1, <4>1, WritesStatus
    <3>2. CASE y # x
      <4>1. pass'[y] = pass[y] /\ pass[y].pc = "invalidate" /\ y \in Pending
        BY <2>2, <2>5, <3>2 DEF Pending
      <4>2. PICK m : m = pass[y].mine
        OBVIOUS
      <4>3. m \in 1..Len(facts) /\ ~Tentative(m)
        BY <4>1, <4>2, PendingTyped DEF PromotedInv
      <4>4. ~Tentative(m)'
        BY <2>1, <4>3, PromotedStays
      <4> QED BY <4>1, <4>2, <4>4 DEF Tentative
    <3> QED BY <3>1, <3>2
  <2>6. PromotedInv'
    BY <2>5 DEF PromotedInv, Tentative
  <2> QED BY <2>1, <2>4, <2>6, RankWrites
<1>3. CASE PassFails(x)
  <2>1. Writes(x) \/ facts' = facts
    BY <1>3 DEF PassFails
  <2>2. /\ \A y \in Extractors : y # x => pass'[y] = pass[y]
        /\ pass'[x].pc \in {"idle", "find"}
    <3>1. CASE pass' = [pass EXCEPT ![x] = NoPass]
      BY <1>0, <3>1 DEF NoPass
    <3>2. CASE Begun(x, x)
      BY <1>0, <3>2 DEF Begun, NoPass
    <3> QED BY <1>3, <3>1, <3>2 DEF PassFails
  <2>3. Continues
    BY <2>2 DEF Continues, Pending
  <2>4. ASSUME NEW y \in Extractors, pass'[y].pc = "invalidate"
        PROVE  facts'[pass'[y].mine].status # "tentative"
    <3>1. pass'[y] = pass[y] /\ pass[y].pc = "invalidate" /\ y \in Pending
      BY <2>2, <2>4 DEF Pending
    <3>2. PICK m : m = pass[y].mine
      OBVIOUS
    <3>3. m \in 1..Len(facts) /\ ~Tentative(m)
      BY <3>1, <3>2, PendingTyped DEF PromotedInv
    <3>4. ~Tentative(m)'
      BY <2>1, <3>3, PromotedStays DEF Tentative
    <3> QED BY <3>1, <3>2, <3>4 DEF Tentative
  <2>5. PromotedInv'
    BY <2>4 DEF PromotedInv, Tentative
  <2> QED BY <2>1, <2>3, <2>5, RankWrites, RankQuiet
<1> QED BY <1>1, <1>2, <1>3 DEF PassStep

LEMMA KnownStep ==
  ASSUME Inv, KnownInv, [Next]_vars
  PROVE  KnownInv'
<1>0. pass \in [Extractors -> Passes(Len(facts))]
  BY DEF Inv, TypeOK, Passes, PassLabels
<1>a. ASSUME facts' = facts,
             \A y \in Extractors :
               pass'[y] = pass[y] \/ pass'[y].pc \in {"idle", "find"}
      PROVE  KnownInv'
  <2>1. Continues
    BY <1>a DEF Continues, Pending
  <2>2. PromotedInv'
    BY <1>a DEF KnownInv, PromotedInv, Tentative
  <2> QED BY <1>a, <2>1, <2>2, RankQuiet DEF KnownInv
<1>1. CASE UNCHANGED vars
  BY <1>1, <1>a DEF vars
<1>2. ASSUME NEW a \in Calls, StoreStep(a) \/ StoreFault(a) PROVE KnownInv'
  <2>1. facts' = facts
    BY <1>2 DEF StoreStep, StoreFault, Mark, Create, Signals, Return, Rollback,
                MarkFails, CreateFails, SignalsFail, RollbackFails, Crash
  <2>2. pass' = pass \/ pass' = [pass EXCEPT ![a] = NoPass]
    BY <1>2 DEF StoreStep, StoreFault, Mark, Create, Signals, Return, Rollback,
                MarkFails, CreateFails, SignalsFail, RollbackFails, Crash
  <2> QED BY <1>0, <1>a, <2>1, <2>2 DEF NoPass
<1>3. ASSUME NEW a \in Calls,
             \/ Enqueue(a) \/ EnqueueFails(a) \/ Bury(a)
             \/ \E w \in Workers : Deliver(w, a)
      PROVE  KnownInv'
  <2>1. facts' = facts
    BY <1>3 DEF Enqueue, EnqueueFails, Bury, Deliver
  <2>2. pass' = pass \/ \E x \in Extractors : Begun(x, a)
    BY <1>3 DEF Enqueue, EnqueueFails, Bury, Deliver, Extractors
  <2>3. ASSUME NEW x \in Extractors, Begun(x, a)
        PROVE  \A y \in Extractors :
                 pass'[y] = pass[y] \/ pass'[y].pc \in {"idle", "find"}
    BY <1>0, <2>3 DEF Begun, NoPass
  <2> QED BY <1>a, <2>1, <2>2, <2>3
<1>4. ASSUME NEW x \in Extractors, PassStep(x) \/ PassFails(x) PROVE KnownInv'
  BY <1>4, KnownPass
<1>5. CASE World
  BY <1>5, <1>a, WorldStill
<1> QED BY <1>1, <1>2, <1>3, <1>4, <1>5 DEF Next, World

LEMMA KnownInit == ASSUME Init PROVE KnownInv
<1>1. /\ Len(facts) = 1 /\ facts[1].status = "active"
      /\ \A x \in Extractors : pass[x].pc = "idle"
  BY DEF Init, NoPass
<1>2. PICK rank : rank = [i \in Nat |-> 0]
  OBVIOUS
<1>3. IsRank(rank) /\ rank[1] = 0
  BY <1>2 DEF IsRank
<1>4. Ranked(rank) /\ Top(rank, 1)
  BY <1>1, <1>3 DEF Ranked, Top, Pending
<1>5. RankInv
  BY <1>3, <1>4, Zenon DEF RankInv
<1> QED BY <1>1, <1>5 DEF KnownInv, PromotedInv

(* For any calls, keys, workers and objects, and however often passes are  *)
(* repeated: promoting and superseding never leaves nothing known.         *)
THEOREM SomethingKnown == Spec => []KnowledgeKept
<1>1. Init => KnownInv
  BY KnownInit
<1>2. Inv /\ KnownInv /\ [Next]_vars => KnownInv'
  BY KnownStep
<1>3. KnownInv => KnowledgeKept
  BY DEF KnownInv, RankInv, Top, KnowledgeKept, Ids
<1> QED BY <1>1, <1>2, <1>3, Invariant, PTL DEF Spec

(***************************************************************************)
(* Superseding.  A pass chose a rival of another object than its own fact, *)
(* objects stay, and by the time it invalidates, its own fact has been     *)
(* confirmed: that, and not what is active by then, earns the invalidation.*)
(***************************************************************************)

ChosenInv ==
  \A x \in Extractors :
    /\ pass[x].pc = "invalidate" => facts[pass[x].mine].confirmed # None
    /\ pass[x].pc \in {"corroborate", "invalidate"} /\ pass[x].rival # 0 =>
         facts[pass[x].rival].object # facts[pass[x].mine].object

\* What a fact says, and that it was confirmed, stays.
FactsStand ==
  \A f \in 1..Len(facts) :
    /\ facts'[f].object = facts[f].object
    /\ facts[f].confirmed # None => facts'[f].confirmed # None

LEMMA WritesStand ==
  ASSUME Inv, NEW x \in Extractors, Writes(x)
  PROVE  /\ FactsStand
         /\ pass[x].pc = "corroborate" => facts'[pass[x].mine].confirmed # None
<1> USE DEF Inv
<1>0. /\ facts \in Seq(Fact) /\ Len(facts) \in Nat /\ DOMAIN facts = 1..Len(facts)
      /\ \A f \in 1..Len(facts) : facts[f] \in Fact
      /\ pass[x].mine \in 0..Len(facts) /\ pass[x].rival \in 0..Len(facts)
  BY FactsTyped DEF TypeOK
<1>1. CASE At(x, "create") /\ Created(x)
  <2> DEFINE new == [object |-> pass[x].object, source |-> pass[x].call,
                     confirmed |-> None, status |-> "tentative"]
  <2>1. new \in Fact
    BY <1>1 DEF At, Fact, TypeOK, PassInv
  <2>2. facts' = Append(facts, new)
    BY <1>1 DEF Created
  <2> HIDE DEF new
  <2> QED BY <1>0, <1>1, <2>1, <2>2, AppendProperties DEF At, FactsStand
<1>2. CASE At(x, "corroborate") /\ Corroborated(x)
  <2> DEFINE m == pass[x].mine
             new == [facts[m] EXCEPT !.status = "active", !.confirmed = pass[x].call]
  <2>1. m \in 1..Len(facts) /\ pass[x].call \in Calls
    BY <1>0, <1>2 DEF At, PassInv
  <2>2. /\ new \in Fact /\ new.object = facts[m].object
        /\ new.confirmed = pass[x].call
    BY <1>0, <2>1 DEF Fact
  <2>a. new.confirmed # None
    BY <2>1, <2>2, IngestionAssumption
  <2>3. facts' = [facts EXCEPT ![m] = new]
    BY <1>2 DEF Corroborated
  <2> HIDE DEF m, new
  <2>4. \A f \in 1..Len(facts) : facts'[f] = IF f = m THEN new ELSE facts[f]
    BY <1>0, <2>1, <2>2, <2>3, ExceptSeq
  <2> QED BY <1>2, <2>1, <2>2, <2>a, <2>4 DEF At, FactsStand, m
<1>3. CASE At(x, "invalidate") /\ Invalidated(x)
  <2> DEFINE r == pass[x].rival
             new == [facts[r] EXCEPT !.status = "invalidated"]
  <2>1. r \in 1..Len(facts)
    BY <1>0, <1>3 DEF At, PassInv
  <2>2. /\ new \in Fact /\ new.object = facts[r].object
        /\ new.confirmed = facts[r].confirmed
    BY <1>0, <2>1 DEF Fact
  <2>3. facts' = [facts EXCEPT ![r] = new]
    BY <1>3 DEF Invalidated
  <2> HIDE DEF r, new
  <2>4. \A f \in 1..Len(facts) : facts'[f] = IF f = r THEN new ELSE facts[f]
    BY <1>0, <2>1, <2>2, <2>3, ExceptSeq
  <2> QED BY <1>3, <2>2, <2>4 DEF At, FactsStand
<1> QED BY <1>1, <1>2, <1>3 DEF Writes

\* A pass keeps its choice while it goes on with it.
LEMMA ChosenStays ==
  ASSUME Inv, ChosenInv, FactsStand, NEW y \in Extractors, pass'[y] = pass[y]
  PROVE  /\ pass'[y].pc = "invalidate" => facts'[pass'[y].mine].confirmed # None
         /\ pass'[y].pc \in {"corroborate", "invalidate"} /\ pass'[y].rival # 0 =>
              facts'[pass'[y].rival].object # facts'[pass'[y].mine].object
<1> SUFFICES ASSUME y \in Pending
             PROVE  /\ pass[y].pc = "invalidate" => facts'[pass[y].mine].confirmed # None
                    /\ pass[y].rival # 0 =>
                         facts'[pass[y].rival].object # facts'[pass[y].mine].object
  BY DEF Pending
<1>1. PICK m, r : m = pass[y].mine /\ r = pass[y].rival
  OBVIOUS
<1>2. m \in 1..Len(facts) /\ (r # 0 => r \in 1..Len(facts))
  BY <1>1, PendingTyped
<1>3. /\ pass[y].pc = "invalidate" => facts[m].confirmed # None
      /\ r # 0 => facts[r].object # facts[m].object
  BY <1>1 DEF ChosenInv, Pending
<1>4. /\ facts[m].confirmed # None => facts'[m].confirmed # None
      /\ r # 0 => facts'[r].object # facts'[m].object
  BY <1>2, <1>3 DEF FactsStand
<1> QED BY <1>1, <1>3, <1>4

LEMMA ChosenStep ==
  ASSUME Inv, ChosenInv, [Next]_vars
  PROVE  ChosenInv'
<1>0. pass \in [Extractors -> Passes(Len(facts))]
  BY DEF Inv, TypeOK, Passes, PassLabels
<1>a. ASSUME FactsStand,
             \A y \in Extractors : pass'[y] = pass[y] \/ pass'[y].pc \in {"idle", "find"}
      PROVE  ChosenInv'
  BY <1>a, ChosenStays DEF ChosenInv
<1>b. ASSUME facts' = facts PROVE FactsStand
  BY <1>b DEF FactsStand
<1>c. ASSUME NEW x \in Extractors, NEW a, Begun(x, a)
      PROVE  \A y \in Extractors : pass'[y] = pass[y] \/ pass'[y].pc \in {"idle", "find"}
  BY <1>0, <1>c DEF Begun, NoPass
<1>d. ASSUME NEW x \in Extractors, pass' = [pass EXCEPT ![x] = NoPass]
      PROVE  \A y \in Extractors : pass'[y] = pass[y] \/ pass'[y].pc \in {"idle", "find"}
  BY <1>0, <1>d DEF NoPass
<1>1. CASE UNCHANGED vars
  BY <1>1, <1>a, <1>b DEF vars
<1>2. ASSUME NEW a \in Calls, StoreStep(a) \/ StoreFault(a) PROVE ChosenInv'
  <2>1. facts' = facts
    BY <1>2 DEF StoreStep, StoreFault, Mark, Create, Signals, Return, Rollback,
                MarkFails, CreateFails, SignalsFail, RollbackFails, Crash
  <2>2. a \in Extractors /\ (pass' = pass \/ pass' = [pass EXCEPT ![a] = NoPass])
    BY <1>2 DEF StoreStep, StoreFault, Mark, Create, Signals, Return, Rollback,
                MarkFails, CreateFails, SignalsFail, RollbackFails, Crash, Extractors
  <2> QED BY <1>a, <1>b, <1>d, <2>1, <2>2
<1>3. ASSUME NEW a \in Calls,
             \/ Enqueue(a) \/ EnqueueFails(a) \/ Bury(a)
             \/ \E w \in Workers : Deliver(w, a)
      PROVE  ChosenInv'
  <2>1. facts' = facts
    BY <1>3 DEF Enqueue, EnqueueFails, Bury, Deliver
  <2>2. pass' = pass \/ \E x \in Extractors : Begun(x, a)
    BY <1>3 DEF Enqueue, EnqueueFails, Bury, Deliver, Extractors
  <2> QED BY <1>a, <1>b, <1>c, <2>1, <2>2
<1>4. ASSUME NEW x \in Extractors, Find(x) PROVE ChosenInv'
  <2>1. facts' = facts /\ \A y \in Extractors : y # x => pass'[y] = pass[y]
    BY <1>0, <1>4 DEF Find, Ends
  <2>2. /\ pass'[x].pc # "invalidate"
        /\ pass'[x].pc = "corroborate" /\ pass'[x].rival # 0 =>
             facts[pass'[x].rival].object # facts[pass'[x].mine].object
    BY <1>4, FindChooses
  <2> QED BY <1>b, <2>1, <2>2, ChosenStays DEF ChosenInv
<1>5. ASSUME NEW x \in Extractors, Write(x) PROVE ChosenInv'
  <2>1. Writes(x) /\ Proceeds(x)
    BY <1>5 DEF Write
  <2>2. FactsStand /\ (pass[x].pc = "corroborate" => facts'[pass[x].mine].confirmed # None)
    BY <2>1, WritesStand
  <2>3. CASE Ends(x)
    BY <1>a, <1>d, <2>2, <2>3 DEF Ends
  <2>4. CASE /\ pass[x].pc = "corroborate" /\ pass[x].rival # 0
             /\ pass' = [pass EXCEPT ![x].pc = "invalidate"]
    <3>1. \A y \in Extractors : y # x => pass'[y] = pass[y]
      BY <1>0, <2>4
    <3>2. pass'[x].mine = pass[x].mine /\ pass'[x].rival = pass[x].rival
      BY <1>0, <2>4 DEF Passes
    <3>3. PICK m, r : m = pass[x].mine /\ r = pass[x].rival
      OBVIOUS
    <3>4. m \in 1..Len(facts) /\ r \in 1..Len(facts)
      BY <2>4, <3>3, PendingTyped DEF Pending
    <3>5. facts'[r].object # facts'[m].object
      BY <2>2, <2>4, <3>3, <3>4 DEF ChosenInv, FactsStand
    <3>6. facts'[m].confirmed # None
      BY <2>2, <2>4, <3>3
    <3> QED BY <2>2, <3>1, <3>2, <3>3, <3>5, <3>6, ChosenStays DEF ChosenInv
  <2> QED BY <2>1, <2>3, <2>4 DEF Proceeds, At
<1>6. ASSUME NEW x \in Extractors, PassFails(x) PROVE ChosenInv'
  <2>1. FactsStand
    BY <1>6, <1>b, WritesStand DEF PassFails
  <2> QED BY <1>6, <1>a, <1>c, <1>d, <2>1 DEF PassFails
<1>7. CASE World
  BY <1>7, <1>a, <1>b, WorldStill
<1> QED BY <1>1, <1>2, <1>3, <1>4, <1>5, <1>6, <1>7 DEF Next, PassStep, World

\* Only a pass that chose the fact as its rival, and acts on that, supersedes it.
LEMMA OnlyInvalidates ==
  ASSUME Inv, [Next]_vars, NEW f \in 1..Len(facts), Superseded(f)
  PROVE  \E x \in Extractors : pass[x].pc = "invalidate" /\ f = pass[x].rival
<1>1. facts' # facts
  BY DEF Superseded
<1>2. PICK x \in Extractors : Writes(x)
  BY <1>1 DEF Next, vars, StoreStep, StoreFault, Mark, Create, Signals, Return,
              Rollback, MarkFails, CreateFails, SignalsFail, RollbackFails, Crash,
              Enqueue, EnqueueFails, Bury, Deliver, PassStep, Find, Write, PassFails,
              GroupCreated, MarkExpires
<1> QED BY <1>2, WritesStatus DEF Superseded

(* For any calls, keys, workers and objects: what is established is        *)
(* superseded only by what one episode states and another one confirms.    *)
THEOREM SupersededFairly == Spec => SupersessionEarned
<1>1. Init => ChosenInv
  BY DEF Init, ChosenInv, NoPass
<1>2. Inv /\ ChosenInv /\ [Next]_vars => ChosenInv'
  BY ChosenStep
<1>3. ASSUME Inv, ChosenInv, [Next]_vars
      PROVE  [\A f \in Ids : Superseded(f) =>
                \E g \in Ids : /\ facts[g].object # facts[f].object
                               /\ Confirmed(g) /\ TwoEpisodes(g)]_vars
  <2> SUFFICES ASSUME NEW f \in 1..Len(facts), Superseded(f)
               PROVE  \E g \in Ids : /\ facts[g].object # facts[f].object
                                     /\ Confirmed(g) /\ TwoEpisodes(g)
    BY DEF Ids
  <2>1. PICK x \in Extractors : pass[x].pc = "invalidate" /\ f = pass[x].rival
    BY <1>3, OnlyInvalidates
  <2>2. PICK g : g = pass[x].mine
    OBVIOUS
  <2>3. g \in 1..Len(facts) /\ f # 0
    BY <1>3, <2>1, <2>2, PendingTyped, FactsTyped DEF Pending, Inv
  <2>4. facts[g].confirmed # None /\ facts[f].object # facts[g].object
    BY <1>3, <2>1, <2>2, <2>3 DEF ChosenInv
  <2>5. Confirmed(g) /\ TwoEpisodes(g)
    BY <1>3, <2>3, <2>4, CorroborationHolds DEF CorroborationEarned, Confirmed, Ids
  <2> QED BY <2>3, <2>4, <2>5 DEF Ids
<1> QED BY <1>1, <1>2, <1>3, Invariant, PTL DEF Spec, SupersessionEarned

(***************************************************************************)
(* The queue as the store and the passes use it: a job is accepted once,   *)
(* and what a handler finishes was owed or a dead letter.  That is all     *)
(* AtLeastOnce lets its users do, and what ExtractionQueue implements.     *)
(***************************************************************************)

\* The group has seen the job.
Seen == {"owed", "done", "dead"}

JobInv ==
  /\ \A a \in sending : job[a] = "none"
  /\ \A w \in Workers : pass[w].pc # "idle" => job[pass[w].call] \in Seen

\* One job moves as the queue lets it, or none does.
JobMoves(a) ==
  \/ job[a] = "none" /\ job' = [job EXCEPT ![a] = "unseen"]
  \/ job[a] = "none" /\ job' = [job EXCEPT ![a] = "owed"]
  \/ job[a] \in {"owed", "dead"} /\ job' = [job EXCEPT ![a] = "done"]
  \/ job[a] = "owed" /\ job' = [job EXCEPT ![a] = "dead"]
JobStep == UNCHANGED job \/ \E a \in Calls : JobMoves(a)

LEMMA JobStepIsQueue ==
  ASSUME Inv, JobStep
  PROVE  [Queue!Next]_Owed
<1>0. job \in [Calls -> {"none", "unseen", "owed", "done", "dead"}]
  BY DEF Inv, TypeOK
<1>1. CASE UNCHANGED job
  BY <1>1 DEF Owed
<1>2. ASSUME NEW a \in Calls, JobMoves(a)
      PROVE  [Queue!Next]_Owed
  <2>1. CASE job[a] = "none" /\ job' = [job EXCEPT ![a] = "unseen"]
    <3>1. Owed' = Owed
      BY <1>0, <2>1 DEF Owed
    <3> QED BY <3>1
  <2>2. ASSUME NEW from \in {"none", "owed", "dead"}, NEW to \in {"owed", "done", "dead"},
               job[a] = from, job' = [job EXCEPT ![a] = to]
        PROVE  Owed[a] = from /\ Owed' = [Owed EXCEPT ![a] = to]
    BY <1>0, <2>2 DEF Owed
  <2> QED BY <1>2, <2>1, <2>2
          DEF JobMoves, Queue!Next, Queue!Accept, Queue!Finish, Queue!Bury,
              Queue!Replay, Queue!Move
<1> QED BY <1>1, <1>2 DEF JobStep

\* Workers that go on go on with their call, whose job the queue has.
LEMMA WorkersKnown ==
  ASSUME Inv, JobInv, JobStep,
         \A w \in Workers : pass'[w].pc # "idle" =>
           \/ pass[w].pc # "idle" /\ pass'[w].call = pass[w].call
           \/ pass'[w].call \in Calls /\ job[pass'[w].call] \in Seen
  PROVE  \A w \in Workers : pass'[w].pc # "idle" => job'[pass'[w].call] \in Seen
<1>1. job \in [Calls -> {"none", "unseen", "owed", "done", "dead"}]
  BY DEF Inv, TypeOK
<1>2. \A a \in Calls : job[a] \in Seen => job'[a] \in Seen
  BY <1>1 DEF JobStep, JobMoves, Seen
<1>3. \A w \in Workers : pass[w].pc # "idle" => pass[w].call \in Calls
  BY DEF Inv, PassInv, Extractors
<1> QED BY <1>2, <1>3 DEF JobInv, Seen

LEMMA EndMovesJob ==
  ASSUME Inv, JobInv, NEW x \in Extractors, ~At(x, "idle"), Ends(x),
         UNCHANGED sending
  PROVE  JobStep /\ JobInv'
<1>0. /\ job \in [Calls -> {"none", "unseen", "owed", "done", "dead"}]
      /\ pass \in [Extractors -> Passes(Len(facts))]
  BY DEF Inv, TypeOK, Passes, PassLabels
<1>1. pass[x].call \in Calls
  BY DEF Inv, PassInv, At
<1>2. JobStep /\ \A a \in sending : job'[a] = "none"
  <2>1. CASE x \in Workers
    <3>1. PICK a \in Calls : a = pass[x].call
      BY <1>1
    <3>2. job[a] \in Seen /\ job' = [job EXCEPT ![a] = "done"]
      BY <2>1, <3>1 DEF JobInv, Ends, At
    <3>3. JobMoves(a) \/ UNCHANGED job
      BY <1>0, <3>2 DEF JobMoves, Seen
    <3>4. \A b \in sending : job'[b] = job[b]
      BY <1>0, <3>2 DEF JobInv, Seen
    <3> QED BY <3>3, <3>4 DEF JobStep, JobInv
  <2>2. CASE x \notin Workers
    BY <2>2 DEF Ends, JobStep, JobInv
  <2> QED BY <2>1, <2>2
<1>3. \A w \in Workers : pass'[w].pc # "idle" =>
        pass[w].pc # "idle" /\ pass'[w].call = pass[w].call
  <2>1. pass' = [pass EXCEPT ![x] = NoPass] /\ \A w \in Workers : w \in Extractors
    BY DEF Ends, Extractors
  <2> QED BY <1>0, <2>1 DEF NoPass
<1> QED BY <1>2, <1>3, WorkersKnown DEF JobInv

LEMMA QueueUseStep ==
  ASSUME Inv, JobInv, [Next]_vars
  PROVE  JobStep /\ JobInv'
<1>0. /\ job \in [Calls -> {"none", "unseen", "owed", "done", "dead"}] /\ sending \subseteq Calls
      /\ pass \in [Extractors -> Passes(Len(facts))]
      /\ Calls \cap Workers = {} /\ \A w \in Workers : w \in Extractors
  BY IngestionAssumption DEF Inv, TypeOK, Passes, PassLabels, Extractors
<1>a. ASSUME JobStep, \A a \in sending' : job'[a] = "none",
             \A w \in Workers : pass'[w].pc # "idle" =>
               \/ pass[w].pc # "idle" /\ pass'[w].call = pass[w].call
               \/ pass'[w].call \in Calls /\ job[pass'[w].call] \in Seen
      PROVE  JobStep /\ JobInv'
  BY <1>a, WorkersKnown DEF JobInv
<1>1. CASE UNCHANGED vars
  BY <1>1 DEF vars, queueVars, JobStep, JobInv, Seen
<1>2. ASSUME NEW a \in Calls, StoreStep(a) \/ StoreFault(a)
      PROVE  JobStep /\ JobInv'
  <2>1. UNCHANGED job /\ (pass' = pass \/ pass' = [pass EXCEPT ![a] = NoPass])
    BY <1>2 DEF StoreStep, StoreFault, Mark, Create, Signals, Return, Rollback,
                MarkFails, CreateFails, SignalsFail, RollbackFails, Crash, queueVars
  <2>2. sending' \subseteq sending \/ (pc[a] = "enqueue" /\ sending' = sending \cup {a})
    BY <1>2 DEF StoreStep, StoreFault, Mark, Create, Signals, Return, Rollback,
                MarkFails, CreateFails, SignalsFail, RollbackFails, Crash, queueVars
  <2>3. \A b \in sending' : job[b] = "none"
    BY <2>2 DEF Inv, StoreInv, JobInv
  <2>4. \A w \in Workers : pass'[w] = pass[w]
    BY <1>0, <2>1
  <2> QED BY <1>a, <2>1, <2>3, <2>4 DEF JobStep
<1>3. ASSUME NEW a \in Calls, Enqueue(a) \/ EnqueueFails(a) PROVE JobStep /\ JobInv'
  <2>1. /\ sending' = sending \ {a} /\ job[a] = "none"
        /\ \/ job' = job \/ job' = [job EXCEPT ![a] = "unseen"]
           \/ job' = [job EXCEPT ![a] = "owed"]
        /\ pass' = pass \/ Begun(a, a)
    BY <1>3 DEF Enqueue, EnqueueFails, Accepted, JobInv
  <2>2. JobStep
    BY <2>1 DEF JobStep, JobMoves
  <2>a. \A b \in sending' : job'[b] = "none"
    BY <1>0, <2>1 DEF JobInv
  <2>3. \A w \in Workers : pass'[w] = pass[w]
    BY <1>0, <2>1 DEF Begun
  <2> QED BY <1>a, <2>2, <2>a, <2>3
<1>4. ASSUME NEW a \in Calls, Bury(a) PROVE JobStep /\ JobInv'
  <2>1. /\ UNCHANGED <<sending, pass>> /\ job[a] = "owed"
        /\ job' = [job EXCEPT ![a] = "dead"]
    BY <1>4 DEF Bury
  <2>2. JobStep
    BY <2>1 DEF JobStep, JobMoves
  <2>3. \A b \in sending' : job'[b] = "none"
    BY <1>0, <2>1 DEF JobInv
  <2> QED BY <1>a, <2>1, <2>2, <2>3
<1>5. ASSUME NEW a \in Calls, NEW w \in Workers, Deliver(w, a) PROVE JobStep /\ JobInv'
  <2>1. UNCHANGED <<sending, job>> /\ job[a] \in Seen /\ Begun(w, a)
    BY <1>0, <1>5 DEF Deliver, queueVars, Seen
  <2>2. \A v \in Workers : pass'[v] = pass[v] \/ pass'[v].call = a
    BY <1>0, <2>1 DEF Begun, NoPass
  <2> QED BY <1>a, <2>1, <2>2 DEF JobStep, JobInv
<1>6. ASSUME NEW x \in Extractors, Find(x) PROVE JobStep /\ JobInv'
  <2>1. ~At(x, "idle") /\ UNCHANGED sending
    BY <1>6 DEF Find, At
  <2>2. CASE Ends(x)
    BY <2>1, <2>2, EndMovesJob
  <2>3. CASE ~Ends(x)
    <3>1. /\ UNCHANGED job /\ pass'[x].call = pass[x].call
          /\ \A y \in Extractors : y # x => pass'[y] = pass[y]
      BY <1>0, <1>6, <2>3 DEF Find, Passes
    <3>2. \A y \in Extractors : pass'[y].pc # "idle" =>
            pass[y].pc # "idle" /\ pass'[y].call = pass[y].call
      BY <2>1, <3>1 DEF At
    <3> QED BY <1>0, <1>a, <2>1, <3>1, <3>2 DEF JobStep, JobInv
  <2> QED BY <2>2, <2>3
<1>7. ASSUME NEW x \in Extractors, Write(x) PROVE JobStep /\ JobInv'
  <2>1. ~At(x, "idle") /\ UNCHANGED sending /\ Proceeds(x)
    BY <1>7 DEF Write, Writes, At
  <2>2. CASE Ends(x)
    BY <2>1, <2>2, EndMovesJob
  <2>3. CASE pass' = [pass EXCEPT ![x].pc = "invalidate"] /\ UNCHANGED job
    <3>1. \A y \in Extractors : pass'[y].call = pass[y].call
                                  /\ (y # x => pass'[y] = pass[y])
      BY <1>0, <2>3 DEF Passes
    <3>2. \A y \in Extractors : pass'[y].pc # "idle" =>
            pass[y].pc # "idle" /\ pass'[y].call = pass[y].call
      BY <2>1, <3>1 DEF At
    <3> QED BY <1>0, <1>a, <2>1, <2>3, <3>2 DEF JobStep, JobInv
  <2> QED BY <2>1, <2>2, <2>3 DEF Proceeds
<1>8. ASSUME NEW x \in Extractors, PassFails(x) PROVE JobStep /\ JobInv'
  <2>1. /\ UNCHANGED <<job, sending>>
        /\ pass' = [pass EXCEPT ![x] = NoPass] \/ (x \in Calls /\ Begun(x, x))
    BY <1>8 DEF PassFails
  <2>2. \A w \in Workers : pass'[w].pc # "idle" => pass'[w] = pass[w]
    BY <1>0, <2>1 DEF Begun, NoPass
  <2> QED BY <1>a, <2>1, <2>2 DEF JobStep, JobInv
<1>9. CASE World
  <2>1. UNCHANGED <<job, sending, pass>>
    BY <1>9, WorldStill
  <2> QED BY <1>a, <2>1 DEF JobStep, JobInv
<1> QED BY <1>1, <1>2, <1>3, <1>4, <1>5, <1>6, <1>7, <1>8, <1>9
        DEF Next, PassStep, World

(* For any calls and workers: store() and the extraction passes use the    *)
(* queue as AtLeastOnce specifies it, for the jobs added once the group    *)
(* exists, the safety of which the queue's own commands implement          *)
(* (ExtractionQueue_proofs).                                               *)
THEOREM UsesTheQueue == Spec => Queue!Safety
<1>1. Init => JobInv /\ Queue!Init
  BY IngestionAssumption DEF Init, JobInv, Queue!Init, Owed, NoPass, Extractors
<1>2. Inv /\ JobInv /\ [Next]_vars => JobInv' /\ [Queue!Next]_Owed
  BY QueueUseStep, JobStepIsQueue
<1> QED BY <1>1, <1>2, Invariant, PTL DEF Spec, Queue!Safety
=============================================================================
