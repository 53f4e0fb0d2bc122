--------------------------- MODULE ExtractionQueue ---------------------------
(***************************************************************************)
(* The durable queue of fact-extraction jobs: a Redis stream with one      *)
(* consumer group and a dead-letter stream (packages/redis/src/            *)
(* extraction.ts), the consumers that drain it (packages/core/src/         *)
(* extraction-consumer.ts) and the replay of dead letters.  What handling  *)
(* a job does is left out: the handler returns or throws.                  *)
(*                                                                         *)
(* One action is one Redis command, or one MULTI, taking effect together   *)
(* with the turn that handles its reply; the command may also be rejected, *)
(* or take effect and lose its reply.                                      *)
(***************************************************************************)
EXTENDS Naturals, Sequences, FiniteSets

CONSTANTS Consumers,    \* ExtractionConsumer instances
          Jobs,         \* episodes to extract facts from
          MaxAttempts,  \* maxAttempts
          Batch,        \* batch
          None,         \* "no replay is running"
          MaxFaults,    \* bound: crashes, stops and commands that fail
          MaxLapses,    \* bound: jobs that outlive idleReclaimMs in the hands
                        \* of a live consumer
          MaxReplays    \* bound: dead letters replayed

ASSUME QueueAssumption ==
  /\ MaxAttempts \in Nat \ {0} /\ Batch \in Nat \ {0}
  /\ MaxFaults \in Nat /\ MaxLapses \in Nat /\ MaxReplays \in Nat
  /\ None \notin Jobs

VARIABLES
  group,      \* the consumer group exists
  last,       \* its last-delivered id
  stream,     \* stream[i]: the i-th entry added, and what became of it
  idle,       \* pending entries that have been idle for idleReclaimMs
  dlq,        \* dlq[j]: dead letters of job j
  pc,         \* where each consumer is in drainOnce()
  batch,      \* the entries it was given and has not finished, oldest first
  replaying,  \* the dead letter replayDeadLetters() has added again and not
              \* yet deleted
  faults, lapses, replays,
  queued,     \* observer: jobs enqueue() returned for
  accepted,   \* observer: those of them added after the group was created
  extracted,  \* observer: jobs whose handler has returned
  failures,   \* observer: failures[j]: failed attempts of job j, replayed or
              \* not: the handler threw or its acknowledgement was rejected;
              \* counted up to MaxAttempts
  split       \* observer: jobs in two hands: reclaimed from a live consumer,
              \* or replayed and not removed from the dead letters

store == <<group, last, stream, idle, dlq>>
bounds == <<faults, lapses, replays>>
observers == <<queued, accepted, extracted, failures, split>>
vars == <<store, pc, batch, replaying, bounds, observers>>

Ids == 1..Len(stream)

TypeOK ==
  /\ group \in BOOLEAN
  /\ stream \in Seq([job : Jobs, attempt : 0..MaxAttempts - 1,
                     state : {"waiting", "pending", "acked", "deleted"}])
  /\ last \in 0..Len(stream)
  /\ idle \subseteq {i \in Ids : stream[i].state = "pending"}
  /\ dlq \in [Jobs -> Nat]
  /\ pc \in [Consumers -> {"down", "claim", "read", "handle", "ack", "delete",
                           "retry"}]
  /\ batch \in [Consumers -> SUBSET Ids]
  /\ \A c \in Consumers : pc[c] \in {"handle", "ack", "delete", "retry"}
                             => batch[c] # {}
  /\ replaying \in Jobs \cup {None}
  /\ faults \in 0..MaxFaults /\ lapses \in 0..MaxLapses
  /\ replays \in 0..MaxReplays
  /\ queued \subseteq Jobs /\ accepted \subseteq queued
  /\ extracted \subseteq queued /\ split \subseteq queued
  /\ failures \in [Jobs -> 0..MaxAttempts]

Init ==
  /\ group = FALSE /\ last = 0
  /\ stream = <<>> /\ idle = {} /\ dlq = [j \in Jobs |-> 0]
  /\ pc = [c \in Consumers |-> "down"]
  /\ batch = [c \in Consumers |-> {}]
  /\ replaying = None
  /\ faults = 0 /\ lapses = 0 /\ replays = 0
  /\ queued = {} /\ accepted = {} /\ extracted = {} /\ split = {}
  /\ failures = [j \in Jobs |-> 0]

----------------------------------------------------------------------------
(* The stream.                                                             *)

Entry(j, a) == [job |-> j, attempt |-> a, state |-> "waiting"]
Pending == {i \in Ids : stream[i].state = "pending"}

\* Entries the group has not delivered: those added before it was created
\* have ids up to its last-delivered id and are not among them.
Undelivered == {i \in Ids : i > last /\ stream[i].state = "waiting"}

With(S, s) == [i \in Ids |-> IF i \in S THEN [stream[i] EXCEPT !.state = s]
                             ELSE stream[i]]

\* COUNT: the oldest ones.
Oldest(S) == {i \in S : Cardinality({k \in S : k <= i}) <= Batch}

Held(i) == \E c \in Consumers : i \in batch[c]
Current(c) == CHOOSE i \in batch[c] : \A k \in batch[c] : i <= k
Job(c) == stream[Current(c)].job
Attempt(c) == stream[Current(c)].attempt

Live(i) == stream[i].state = "pending" \/ i \in Undelivered
Copies(j) == Cardinality({i \in Ids : stream[i].job = j /\ Live(i)}) + dlq[j]

Fault == faults < MaxFaults /\ faults' = faults + 1

----------------------------------------------------------------------------
(* Producers.                                                              *)

Enqueue(j) ==
  /\ j \notin queued
  /\ stream' = Append(stream, Entry(j, 0))
  /\ queued' = queued \cup {j}
  /\ accepted' = IF group THEN accepted \cup {j} ELSE accepted
  /\ UNCHANGED <<group, last, idle, dlq, pc, batch, replaying, bounds,
                 extracted, failures, split>>

\* replayDeadLetters(): enqueue() the dead letter with a new count, then
\* delete it.
ReplayAdd(j) ==
  /\ replaying = None /\ dlq[j] > 0
  /\ replays < MaxReplays /\ replays' = replays + 1
  /\ stream' = Append(stream, Entry(j, 0))
  /\ replaying' = j
  /\ UNCHANGED <<group, last, idle, dlq, pc, batch, faults, lapses, observers>>

ReplayDelete ==
  /\ replaying # None
  /\ dlq' = [dlq EXCEPT ![replaying] = @ - 1]
  /\ replaying' = None
  /\ UNCHANGED <<group, last, stream, idle, pc, batch, bounds, observers>>

\* The process ends, or XDEL is rejected, between the two.
ReplayBreaks ==
  /\ Fault /\ replaying # None
  /\ replaying' = None
  /\ split' = split \cup {replaying}
  /\ UNCHANGED <<store, pc, batch, lapses, replays, queued, accepted,
                 extracted, failures>>

----------------------------------------------------------------------------
(* A consumer's loop.                                                      *)

Goto(c, label) == pc' = [pc EXCEPT ![c] = label]

\* Mutant: a start that creates the group anew, without the BUSYGROUP check.
StartAnew(c) ==
  /\ pc[c] = "down"
  /\ group' = TRUE
  /\ last' = Len(stream)
  /\ Goto(c, "claim")
  /\ UNCHANGED <<stream, idle, dlq, batch, replaying, bounds, observers>>

\* start(): ensureGroup() creates the group at '$'.
Start(c) ==
  /\ pc[c] = "down"
  /\ group' = TRUE
  /\ last' = IF group THEN last ELSE Len(stream)
  /\ Goto(c, "claim")
  /\ UNCHANGED <<stream, idle, dlq, batch, replaying, bounds, observers>>

\* stop() is obeyed when the loop comes round.
Stop(c) ==
  /\ Fault /\ pc[c] = "claim"
  /\ Goto(c, "down")
  /\ UNCHANGED <<store, batch, replaying, lapses, replays, observers>>

Crash(c) ==
  /\ Fault /\ pc[c] # "down"
  /\ Goto(c, "down")
  /\ batch' = [batch EXCEPT ![c] = {}]
  /\ UNCHANGED <<store, replaying, lapses, replays, observers>>

\* Mutants: a minimal idle time of zero, and one nothing ever reaches.
ClaimableAny == Oldest(Pending)
ClaimableNone == {}

\* claimStale(): XAUTOCLAIM makes the entries this consumer's and restarts
\* their idle time.
Claimable == Oldest(idle)

Claim(c) ==
  /\ pc[c] = "claim"
  /\ batch' = [batch EXCEPT ![c] = Claimable]
  /\ idle' = idle \ Claimable
  /\ Goto(c, "read")
  /\ UNCHANGED <<group, last, stream, dlq, replaying, bounds, observers>>

\* drainOnce() goes on without them when the call rejects.
ClaimFails(c) ==
  /\ Fault /\ pc[c] = "claim"
  /\ \/ idle' = idle
     \/ idle' = idle \ Claimable
  /\ Goto(c, "read")
  /\ UNCHANGED <<group, last, stream, dlq, batch, replaying, lapses, replays,
                 observers>>

AfterDrain(S) == IF S = {} THEN "claim" ELSE "handle"

\* read(): XREADGROUP '>' delivers the oldest entries after the last one.
Fresh == Oldest(Undelivered)

Deliver ==
  /\ stream' = With(Fresh, "pending")
  /\ last' = IF Fresh = {} THEN last
             ELSE CHOOSE i \in Fresh : \A k \in Fresh : k <= i

Read(c) ==
  /\ pc[c] = "read"
  /\ Deliver
  /\ batch' = [batch EXCEPT ![c] = @ \cup Fresh]
  /\ Goto(c, AfterDrain(batch[c] \cup Fresh))
  /\ UNCHANGED <<group, idle, dlq, replaying, bounds, observers>>

ReadFails(c) ==
  /\ Fault /\ pc[c] = "read"
  /\ \/ UNCHANGED <<stream, last>>
     \/ Deliver
  /\ Goto(c, AfterDrain(batch[c]))
  /\ UNCHANGED <<group, idle, dlq, batch, replaying, lapses, replays, observers>>

\* Nobody touches an entry for idleReclaimMs.  With a consumer that crashed,
\* failed or lost the reply that happens in any case; with one that still has
\* the entry in its batch the handlers before it, or its own, took too long.
Lapse(i) ==
  /\ i \in Pending \ idle
  /\ idle' = idle \cup {i}
  /\ \/ ~Held(i) /\ UNCHANGED <<lapses, split>>
     \/ /\ Held(i)
        /\ lapses < MaxLapses /\ lapses' = lapses + 1
        /\ split' = split \cup {stream[i].job}
  /\ UNCHANGED <<group, last, stream, dlq, pc, batch, replaying, faults,
                 replays, queued, accepted, extracted, failures>>

HandlerReturns(c) ==
  /\ pc[c] = "handle"
  /\ Goto(c, "ack")
  /\ extracted' = extracted \cup {Job(c)}
  /\ UNCHANGED <<store, batch, replaying, bounds, queued, accepted, failures,
                 split>>

Failed(c) ==
  /\ Goto(c, "retry")
  /\ failures' = [failures EXCEPT ![Job(c)] = IF @ < MaxAttempts THEN @ + 1 ELSE @]

HandlerThrows(c) ==
  /\ pc[c] = "handle"
  /\ Failed(c)
  /\ UNCHANGED <<store, batch, replaying, bounds, queued, accepted, extracted,
                 split>>

\* handle() is done with the entry and drainOnce() takes the next.
NextEntry(c) ==
  /\ batch' = [batch EXCEPT ![c] = @ \ {Current(c)}]
  /\ Goto(c, IF batch[c] = {Current(c)} THEN "claim" ELSE "handle")

\* Mutant: the idle time outlives the acknowledgement.
AckedStaysIdle(c) ==
  /\ stream' = IF Current(c) \in Pending THEN With({Current(c)}, "acked")
               ELSE stream
  /\ UNCHANGED idle

\* ack(): XACK, which does nothing to an entry no longer pending ...
Acked(c) ==
  /\ stream' = IF Current(c) \in Pending THEN With({Current(c)}, "acked")
               ELSE stream
  /\ idle' = idle \ {Current(c)}

Xack(c) ==
  /\ pc[c] = "ack"
  /\ Acked(c)
  /\ Goto(c, "delete")
  /\ UNCHANGED <<group, last, dlq, batch, replaying, bounds, observers>>

\* ... then XDEL.
Xdel(c) ==
  /\ pc[c] = "delete"
  /\ stream' = With({Current(c)}, "deleted")
  /\ idle' = idle \ {Current(c)}
  /\ NextEntry(c)
  /\ UNCHANGED <<group, last, dlq, replaying, bounds, observers>>

\* An ack that rejects is caught with the handler's own failures.
AckFails(c) ==
  /\ Fault
  /\ \/ /\ pc[c] = "ack"
        /\ \/ Acked(c)
           \/ UNCHANGED <<stream, idle>>
     \/ /\ pc[c] = "delete"
        /\ \/ stream' = With({Current(c)}, "deleted")
           \/ UNCHANGED stream
        /\ UNCHANGED idle
  /\ Failed(c)
  /\ UNCHANGED <<group, last, dlq, batch, replaying, lapses, replays, queued,
                 accepted, extracted, split>>

\* Mutant: the last attempt is not made.
ExhaustedEarly(c) == Attempt(c) + 2 >= MaxAttempts

\* requeue() or, when the attempts are used up, deadLetterAndAck(): each one
\* MULTI with the XACK and XDEL of the original.
Exhausted(c) == Attempt(c) + 1 >= MaxAttempts

\* Mutant: a requeue that leaves the original to be reclaimed.
SettleKeeps(c) ==
  /\ IF Exhausted(c)
     THEN /\ dlq' = [dlq EXCEPT ![Job(c)] = @ + 1]
          /\ stream' = With({Current(c)}, "deleted")
          /\ idle' = idle \ {Current(c)}
     ELSE /\ stream' = Append(stream, Entry(Job(c), Attempt(c) + 1))
          /\ UNCHANGED <<dlq, idle>>

Settle(c) ==
  /\ IF Exhausted(c)
     THEN /\ dlq' = [dlq EXCEPT ![Job(c)] = @ + 1]
          /\ stream' = With({Current(c)}, "deleted")
     ELSE /\ stream' = Append(With({Current(c)}, "deleted"),
                              Entry(Job(c), Attempt(c) + 1))
          /\ UNCHANGED dlq
  /\ idle' = idle \ {Current(c)}

Retry(c) ==
  /\ pc[c] = "retry"
  /\ Settle(c)
  /\ NextEntry(c)
  /\ UNCHANGED <<group, last, replaying, bounds, observers>>

\* Nothing catches its rejection before the loop: the rest of the batch is
\* forgotten and left to be reclaimed.
RetryFails(c) ==
  /\ Fault /\ pc[c] = "retry"
  /\ \/ Settle(c)
     \/ UNCHANGED <<stream, idle, dlq>>
  /\ batch' = [batch EXCEPT ![c] = {}]
  /\ Goto(c, "claim")
  /\ UNCHANGED <<group, last, replaying, lapses, replays, observers>>

----------------------------------------------------------------------------

Handling(c) ==
  \/ HandlerReturns(c) \/ HandlerThrows(c) \/ Xack(c) \/ Xdel(c) \/ Retry(c)

Next ==
  \/ \E j \in Jobs : Enqueue(j) \/ ReplayAdd(j)
  \/ ReplayDelete \/ ReplayBreaks
  \/ \E i \in Ids : Lapse(i)
  \/ \E c \in Consumers :
       \/ Start(c) \/ Stop(c) \/ Crash(c)
       \/ Claim(c) \/ ClaimFails(c) \/ Read(c) \/ ReadFails(c)
       \/ Handling(c) \/ AckFails(c) \/ RetryFails(c)

Spec == Init /\ [][Next]_vars

(* The host starts the consumer again, its loop goes on, every handler     *)
(* returns or throws (the model call has a deadline), and time passes.     *)
Fairness ==
  /\ WF_vars(ReplayDelete)
  /\ WF_vars(\E i \in Ids : ~Held(i) /\ Lapse(i))
  /\ \A c \in Consumers :
       WF_vars(Start(c) \/ Claim(c) \/ Read(c) \/ Handling(c))

FairSpec == Spec /\ Fairness

----------------------------------------------------------------------------
(* Properties.                                                             *)

(* Two consumers have the same entry in hand only after it lapsed in the   *)
(* hands of one that was merely slow (extraction.ts:102, the idle time of  *)
(* the reclaim): restarts, lost replies and failures alone never do it.    *)
OneHandler ==
  \A c, d \in Consumers : \A i \in batch[c] \cap batch[d] :
    c # d => stream[i].job \in split

(* A job is in one place: however its attempts, acks and crashes fall, it  *)
(* never has two entries that will be delivered, or an entry and a dead    *)
(* letter (extraction.ts:121-157, OPT-56), while no two hands are at it.   *)
SingleCopy ==
  \A j \in Jobs \ split : Copies(j) <= IF replaying = j THEN 2 ELSE 1

(* A job a consumer can ever see is extracted, will be delivered, or is in *)
(* the dead letters: between its acknowledgement, its deletion, its        *)
(* requeueing and a crash there is no moment at which it is in none.       *)
NoJobLost ==
  \A j \in accepted : j \in extracted \/ Copies(j) > 0

(* A job is not given up before maxAttempts attempts at it have failed,    *)
(* counted over requeues, crashes and reclaims.  An attempt fails when the *)
(* handler throws, but also when it returns and its acknowledgement is     *)
(* rejected (extraction-consumer.ts:106-111).  A replay starts the count   *)
(* of the entry anew and not this one, so that nothing is said of how a    *)
(* replayed job comes to be given up again.                                *)
DeadLetterEarned ==
  \A j \in Jobs : dlq[j] > 0 => failures[j] = MaxAttempts

(* The queue is an at-least-once queue that settles every job in the end.  *)
Status(j) ==
  IF j \notin accepted THEN "none"
  ELSE IF j \in extracted THEN "done"
  ELSE IF dlq[j] > 0 THEN "dead"
  ELSE IF Copies(j) > 0 THEN "owed"
  ELSE "lost"

Delivery == INSTANCE AtLeastOnce WITH status <- [j \in Jobs |-> Status(j)]
ImplementsAtLeastOnce == Delivery!Spec
=============================================================================
