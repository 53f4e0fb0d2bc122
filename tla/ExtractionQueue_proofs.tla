------------------------ MODULE ExtractionQueue_proofs ------------------------
(* Proofs about ExtractionQueue, for any consumers, jobs and bounds.       *)
EXTENDS ExtractionQueue, SequenceTheorems, FiniteSetTheorems,
        WellFoundedInduction, TLAPS

Marks == {"waiting", "pending", "acked", "deleted"}
Entries == [job : Jobs, attempt : 0..MaxAttempts - 1, state : Marks]
Working == {"handle", "ack", "delete", "retry"}

(***************************************************************************)
(* The stream.                                                             *)
(***************************************************************************)

LEMMA StreamTyped ==
  ASSUME TypeOK
  PROVE  /\ stream \in Seq(Entries) /\ Len(stream) \in Nat /\ Ids = 1..Len(stream)
         /\ DOMAIN stream = Ids /\ \A i \in Ids : stream[i] \in Entries
         /\ last \in 0..Len(stream)
<1>1. stream \in Seq(Entries) /\ last \in 0..Len(stream)
  BY DEF TypeOK, Entries, Marks
<1> QED BY <1>1, LenProperties, ElementOfSeq DEF Ids

\* A set of numbers has a first member.
LEMMA FirstExists ==
  ASSUME NEW S \in SUBSET Nat, S # {}
  PROVE  \E i \in S : \A k \in S : i <= k
<1>1. PICK i \in S : \A k \in S : ~ (<<k, i>> \in OpToRel(<, Nat))
  BY NatLessThanWellFounded, WFMin
<1>2. ASSUME NEW k \in S PROVE i <= k
  <2>1. i \in Nat /\ k \in Nat
    OBVIOUS
  <2>2. <<k, i>> \in OpToRel(<, Nat) <=> k < i
    BY <2>1 DEF OpToRel
  <2>3. ~ (k < i)
    BY <1>1, <2>2, Zenon
  <2> QED BY <2>1, <2>3
<1> QED BY <1>2

\* A bounded set of numbers has a last member.
LEMMA LastExists ==
  ASSUME NEW n \in Nat, NEW S \in SUBSET (1..n), S # {}
  PROVE  \E i \in S : \A j \in S : j <= i
<1> DEFINE gap == {n - i : i \in S}
<1>1. gap \in SUBSET Nat
  BY SMT
<1>2. gap # {}
  BY Zenon
<1>3. PICK g \in gap : \A h \in gap : ~ (<<h, g>> \in OpToRel(<, Nat))
  <2> HIDE DEF gap
  <2> QED BY <1>1, <1>2, NatLessThanWellFounded, WFMin
<1>4. PICK i \in S : g = n - i
  OBVIOUS
<1>5. ASSUME NEW j \in S PROVE j <= i
  <2>1. n - j \in Nat /\ g \in Nat /\ n - j \in gap
    BY <1>4, SMT
  <2>2. <<n - j, g>> \in OpToRel(<, Nat) <=> n - j < g
    BY <2>1 DEF OpToRel
  <2>3. ~ (n - j < g)
    BY <1>3, <2>1, <2>2, Zenon
  <2> QED BY <1>4, <2>3
<1> QED BY <1>5

LEMMA CurrentHeld ==
  ASSUME TypeOK, NEW c \in Consumers, pc[c] \in Working
  PROVE  /\ Current(c) \in batch[c] /\ Current(c) \in Ids
         /\ stream[Current(c)] \in Entries
         /\ Job(c) = stream[Current(c)].job /\ Attempt(c) = stream[Current(c)].attempt
         /\ Job(c) \in Jobs /\ Attempt(c) \in 0..MaxAttempts - 1
<1>1. batch[c] \in SUBSET Ids /\ batch[c] # {}
  BY DEF TypeOK, Working
<1>2. \E i \in batch[c] : \A k \in batch[c] : i <= k
  BY <1>1, StreamTyped, FirstExists
<1>3. Current(c) \in batch[c]
  BY <1>2 DEF Current
<1> QED BY <1>1, <1>3, StreamTyped DEF Job, Attempt, Entries

LEMMA WithProperties ==
  ASSUME TypeOK, NEW S, NEW s \in Marks
  PROVE  /\ With(S, s) \in Seq(Entries) /\ Len(With(S, s)) = Len(stream)
         /\ \A i \in Ids : /\ With(S, s)[i].job = stream[i].job
                           /\ With(S, s)[i].attempt = stream[i].attempt
                           /\ With(S, s)[i].state =
                                IF i \in S THEN s ELSE stream[i].state
<1>1. \A i \in Ids : [stream[i] EXCEPT !.state = s] \in Entries
  BY StreamTyped DEF Entries
<1>2. With(S, s) = [i \in 1..Len(stream) |-> IF i \in S THEN [stream[i] EXCEPT !.state = s]
                                             ELSE stream[i]]
  BY StreamTyped DEF With
<1>3. With(S, s) \in Seq(Entries) /\ Len(With(S, s)) = Len(stream)
  BY <1>1, <1>2, StreamTyped, IsASeq, LenProperties
<1>4. \A i \in Ids : With(S, s)[i] = IF i \in S THEN [stream[i] EXCEPT !.state = s]
                                     ELSE stream[i]
  BY StreamTyped DEF With
<1> QED BY <1>3, <1>4, StreamTyped DEF Entries

LEMMA AppendEntry ==
  ASSUME NEW q \in Seq(Entries), NEW j \in Jobs, NEW a \in 0..MaxAttempts - 1
  PROVE  /\ Append(q, Entry(j, a)) \in Seq(Entries) /\ Len(q) \in Nat
         /\ Len(Append(q, Entry(j, a))) = Len(q) + 1
         /\ \A i \in 1..Len(q) : Append(q, Entry(j, a))[i] = q[i]
         /\ Append(q, Entry(j, a))[Len(q) + 1].job = j
         /\ Append(q, Entry(j, a))[Len(q) + 1].attempt = a
         /\ Append(q, Entry(j, a))[Len(q) + 1].state = "waiting"
<1>1. Entry(j, a) \in Entries /\ Entry(j, a).job = j /\ Entry(j, a).attempt = a
        /\ Entry(j, a).state = "waiting"
  BY DEF Entry, Entries, Marks
<1> QED BY <1>1, AppendProperties, LenProperties

\* The oldest entries are delivered, and none is passed over.
LEMMA FreshClosed ==
  ASSUME TypeOK
  PROVE  /\ Fresh \subseteq Undelivered
         /\ \A f \in Fresh, k \in Undelivered : k <= f => k \in Fresh
<1>1. Fresh \subseteq Undelivered
  BY DEF Fresh, Oldest
<1>2. IsFiniteSet(Undelivered) /\ Undelivered \subseteq Nat
  <2>1. Undelivered \in SUBSET (1..Len(stream)) /\ Undelivered \subseteq Nat
    BY StreamTyped DEF Undelivered
  <2>2. IsFiniteSet(1..Len(stream))
    BY StreamTyped, FS_Interval
  <2> QED BY <2>1, <2>2, FS_Subset
<1>3. ASSUME NEW f \in Fresh, NEW k \in Undelivered, k <= f
      PROVE  k \in Fresh
  <2> DEFINE below(n) == {m \in Undelivered : m <= n}
  <2>1. below(k) \in SUBSET below(f)
    <3>1. k \in Nat /\ f \in Nat
      BY <1>1, <1>2
    <3>2. \A m \in Undelivered : m <= k => m <= f
      BY <1>2, <1>3, <3>1
    <3> QED BY <3>2
  <2>2. IsFiniteSet(below(f)) /\ IsFiniteSet(below(k))
    <3>1. below(f) \in SUBSET Undelivered /\ below(k) \in SUBSET Undelivered
      OBVIOUS
    <3> HIDE DEF below
    <3> QED BY <1>2, <3>1, FS_Subset
  <2>3. Cardinality(below(k)) <= Cardinality(below(f))
          /\ Cardinality(below(k)) \in Nat /\ Cardinality(below(f)) \in Nat
    <3> HIDE DEF below
    <3> QED BY <2>1, <2>2, FS_Subset, FS_CardinalityType
  <2>4. Cardinality(below(f)) <= Batch
    BY <1>3 DEF Fresh, Oldest
  <2>5. Cardinality(below(k)) <= Batch
    BY <2>3, <2>4, QueueAssumption
  <2> QED BY <2>5 DEF Fresh, Oldest
<1> QED BY <1>1, <1>3

LEMMA Delivers ==
  ASSUME TypeOK, Deliver
  PROVE  /\ stream' \in Seq(Entries) /\ Len(stream') = Len(stream)
         /\ \A i \in Ids : /\ stream'[i].job = stream[i].job
                           /\ stream'[i].attempt = stream[i].attempt
                           /\ stream'[i].state =
                                IF i \in Fresh THEN "pending" ELSE stream[i].state
         /\ last' \in 0..Len(stream) /\ last' >= last
         /\ \A i \in Undelivered : i \in Fresh \/ i > last'
<1>1. /\ stream' = With(Fresh, "pending")
      /\ last' = IF Fresh = {} THEN last
                 ELSE CHOOSE i \in Fresh : \A k \in Fresh : k <= i
  BY DEF Deliver
<1>2. /\ stream' \in Seq(Entries) /\ Len(stream') = Len(stream)
      /\ \A i \in Ids : /\ stream'[i].job = stream[i].job
                        /\ stream'[i].attempt = stream[i].attempt
                        /\ stream'[i].state =
                             IF i \in Fresh THEN "pending" ELSE stream[i].state
  BY <1>1, WithProperties DEF Marks
<1>3. CASE Fresh = {}
  BY <1>1, <1>2, <1>3, StreamTyped DEF TypeOK, Undelivered
<1>4. CASE Fresh # {}
  <2>1. Fresh \subseteq 1..Len(stream) /\ Fresh \subseteq Undelivered
          /\ Undelivered \subseteq Nat /\ Len(stream) \in Nat
    BY FreshClosed, StreamTyped DEF Undelivered
  <2>2. \E i \in Fresh : \A k \in Fresh : k <= i
    BY <1>4, <2>1, LastExists
  <2>3. last' \in Fresh /\ \A k \in Fresh : k <= last'
    <3> DEFINE greatest == CHOOSE i \in Fresh : \A k \in Fresh : k <= i
    <3>1. greatest \in Fresh /\ \A k \in Fresh : k <= greatest
      BY <2>2
    <3> QED BY <1>1, <1>4, <3>1
  <2>4. \A i \in Undelivered : i <= last' => i \in Fresh
    BY <2>3, FreshClosed
  <2>5. last' \in 0..Len(stream) /\ last' >= last
    BY <2>1, <2>3, StreamTyped DEF Undelivered
  <2>6. \A i \in Undelivered : i \in Fresh \/ i > last'
    BY <2>1, <2>4, <2>5
  <2> QED BY <1>2, <2>5, <2>6
<1> QED BY <1>3, <1>4

(***************************************************************************)
(* The inductive invariant.                                                *)
(***************************************************************************)

\* Before the group exists nothing runs, and nothing has failed.
GroupInv ==
  ~group => /\ accepted = {} /\ replaying = None
            /\ \A j \in Jobs : dlq[j] = 0
            /\ \A c \in Consumers : pc[c] = "down"

JobInv ==
  /\ \A i \in Ids : stream[i].job \in queued
  /\ \A j \in Jobs : dlq[j] > 0 => j \in queued
  /\ replaying # None => dlq[replaying] > 0

\* What is in a batch has been delivered; at the deletion it is no longer
\* pending; and from the acknowledgement on its job is extracted.
BatchInv ==
  /\ \A c \in Consumers : \A i \in batch[c] : stream[i].state # "waiting"
  /\ \A c \in Consumers : pc[c] = "delete" => stream[Current(c)].state # "pending"
  /\ \A c \in Consumers : pc[c] \in {"ack", "delete"} => Job(c) \in extracted

\* The attempt count never runs ahead of the failures.
AttemptInv ==
  /\ \A i \in Ids : stream[i].attempt <= failures[stream[i].job]
  /\ \A c \in Consumers : pc[c] = "retry" => Attempt(c) + 1 <= failures[Job(c)]
  /\ DeadLetterEarned

HandInv ==
  /\ \A c \in Consumers : \A i \in idle \cap batch[c] : stream[i].job \in split
  /\ OneHandler

\* More than n dead letters, or an entry that is or will be delivered.
Kept(j, n) ==
  j \in extracted \/ dlq[j] > n \/ \E i \in Ids : stream[i].job = j /\ Live(i)

KeptInv ==
  /\ \A j \in accepted : Kept(j, 0)
  /\ replaying # None => Kept(replaying, 1)

\* Of a job that is in one hand at most one entry may still become a dead
\* letter or another entry: it will be delivered or is in a batch, and then
\* there is room for it among the dead letters.
Room(j) == IF replaying = j THEN 2 ELSE 1
Actives == {i \in Ids : Live(i) \/ Held(i)}

Sole(j) ==
  /\ dlq[j] <= Room(j)
  /\ \A i \in Ids : stream[i].job = j /\ i \in Actives => dlq[j] + 1 <= Room(j)
  /\ \A i, k \in Ids :
      stream[i].job = j /\ i \in Actives /\ stream[k].job = j /\ k \in Actives
        => i = k

SoleInv == \A j \in Jobs \ split : Sole(j)

IInv == /\ TypeOK /\ GroupInv /\ JobInv /\ BatchInv /\ AttemptInv /\ HandInv
        /\ KeptInv /\ SoleInv

(***************************************************************************)
(* What the steps do to the stream.                                        *)
(***************************************************************************)

\* Entries keep their job and attempt; none waits again; none is pending
\* again once it is acknowledged or deleted.
Carried ==
  /\ stream' \in Seq(Entries) /\ Len(stream') \in Nat /\ Len(stream) <= Len(stream')
  /\ last' \in 0..Len(stream)
  /\ \A i \in Ids : /\ stream'[i].job = stream[i].job
                    /\ stream'[i].attempt = stream[i].attempt
                    /\ stream[i].state # "waiting" => stream'[i].state # "waiting"
                    /\ stream'[i].state = "pending"
                         => stream[i].state \in {"waiting", "pending"}

Added(j, a) ==
  /\ Len(stream') = Len(stream) + 1
  /\ stream'[Len(stream) + 1].job = j
  /\ stream'[Len(stream) + 1].attempt = a
  /\ stream'[Len(stream) + 1].state = "waiting"

\* Only the entries of S change, and they change to s.
Marked(S, s) ==
  \A i \in Ids : stream'[i].state = IF i \in S THEN s ELSE stream[i].state

LEMMA StreamKept ==
  ASSUME TypeOK, stream' = stream, last' = last
  PROVE  Carried /\ Len(stream') = Len(stream) /\ Marked({}, "deleted")
<1>1. \A i \in Ids : stream[i].state \in Marks
  BY StreamTyped DEF Entries
<1>2. Carried
  BY <1>1, StreamTyped DEF Carried, Marks
<1> QED BY <1>2, StreamTyped DEF Marked

LEMMA StreamAppended ==
  ASSUME TypeOK, NEW j \in Jobs, stream' = Append(stream, Entry(j, 0)), last' = last
  PROVE  Carried /\ Added(j, 0) /\ Marked({}, "deleted")
<1>1. 0 \in 0..MaxAttempts - 1
  BY QueueAssumption
<1>2. /\ stream' \in Seq(Entries) /\ Len(stream) \in Nat
      /\ Len(stream') = Len(stream) + 1
      /\ \A i \in 1..Len(stream) : stream'[i] = stream[i]
      /\ stream'[Len(stream) + 1].job = j
      /\ stream'[Len(stream) + 1].attempt = 0
      /\ stream'[Len(stream) + 1].state = "waiting"
  BY <1>1, StreamTyped, AppendEntry
<1>3. \A i \in Ids : stream'[i] = stream[i] /\ stream[i].state \in Marks
  BY <1>2, StreamTyped DEF Entries
<1>4. Carried
  BY <1>2, <1>3, StreamTyped DEF Carried, Marks
<1> QED BY <1>2, <1>3, <1>4 DEF Added, Marked

LEMMA StreamMarked ==
  ASSUME TypeOK, NEW c \in Consumers, pc[c] \in Working, NEW s \in {"acked", "deleted"},
         stream' = With({Current(c)}, s), last' = last
  PROVE  /\ Carried /\ Len(stream') = Len(stream)
         /\ Marked({Current(c)}, s) /\ stream'[Current(c)].state = s
<1>1. s \in Marks
  BY DEF Marks
<1>2. Current(c) \in Ids /\ \A i \in Ids : stream[i].state \in Marks
  BY CurrentHeld, StreamTyped DEF Entries
<1>3. /\ stream' \in Seq(Entries) /\ Len(stream') = Len(stream)
      /\ \A i \in Ids : /\ stream'[i].job = stream[i].job
                        /\ stream'[i].attempt = stream[i].attempt
                        /\ stream'[i].state =
                             IF i \in {Current(c)} THEN s ELSE stream[i].state
  BY <1>1, WithProperties
<1>4. \A i \in Ids : /\ stream[i].state # "waiting" => stream'[i].state # "waiting"
                     /\ stream'[i].state = "pending"
                          => stream[i].state \in {"waiting", "pending"}
  BY <1>3
<1>5. /\ Len(stream') \in Nat /\ Len(stream) <= Len(stream')
      /\ last' \in 0..Len(stream)
  BY <1>3, StreamTyped
<1>6. Carried
  BY <1>3, <1>4, <1>5, Zenon DEF Carried
<1> QED BY <1>2, <1>3, <1>6 DEF Marked

LEMMA StreamDelivered ==
  ASSUME TypeOK, Deliver
  PROVE  /\ Carried /\ Len(stream') = Len(stream) /\ Marked(Fresh, "pending")
         /\ last' >= last
         /\ Fresh \subseteq Undelivered /\ \A i \in Undelivered : i \in Fresh \/ i > last'
<1>1. \A i \in Fresh : stream[i].state = "waiting"
  BY FreshClosed DEF Undelivered
<1> QED BY <1>1, Delivers, StreamTyped, FreshClosed DEF Carried, Marked

LEMMA StreamSettled ==
  ASSUME TypeOK, NEW c \in Consumers, pc[c] = "retry", Settle(c), last' = last
  PROVE  /\ Carried /\ Marked({Current(c)}, "deleted")
         /\ idle' = idle \ {Current(c)}
         /\ \/ /\ Len(stream') = Len(stream) /\ Attempt(c) + 1 = MaxAttempts
               /\ dlq' = [dlq EXCEPT ![Job(c)] = @ + 1]
            \/ /\ Added(Job(c), Attempt(c) + 1) /\ dlq' = dlq
               /\ Attempt(c) + 1 \in 0..MaxAttempts - 1
<1>1. /\ Current(c) \in Ids /\ Job(c) \in Jobs /\ Attempt(c) \in 0..MaxAttempts - 1
      /\ MaxAttempts \in Nat
  BY CurrentHeld, QueueAssumption DEF Working
<1>2. CASE Exhausted(c)
  <2>1. Attempt(c) + 1 = MaxAttempts
    BY <1>1, <1>2 DEF Exhausted
  <2>2. /\ stream' = With({Current(c)}, "deleted") /\ idle' = idle \ {Current(c)}
        /\ dlq' = [dlq EXCEPT ![Job(c)] = @ + 1]
    BY <1>2 DEF Settle
  <2> QED BY <2>1, <2>2, StreamMarked DEF Working
<1>3. CASE ~Exhausted(c)
  <2> DEFINE rest == With({Current(c)}, "deleted")
  <2>1. Attempt(c) + 1 \in 0..MaxAttempts - 1
    BY <1>1, <1>3 DEF Exhausted
  <2>2. /\ stream' = Append(rest, Entry(Job(c), Attempt(c) + 1))
        /\ idle' = idle \ {Current(c)} /\ dlq' = dlq
    BY <1>3 DEF Settle
  <2>3. /\ rest \in Seq(Entries) /\ Len(rest) = Len(stream)
        /\ \A i \in Ids : /\ rest[i].job = stream[i].job
                          /\ rest[i].attempt = stream[i].attempt
                          /\ rest[i].state =
                               IF i \in {Current(c)} THEN "deleted" ELSE stream[i].state
    BY WithProperties DEF Marks
  <2> HIDE DEF rest
  <2>4. /\ stream' \in Seq(Entries) /\ Len(rest) \in Nat
        /\ Len(stream') = Len(rest) + 1
        /\ \A i \in 1..Len(rest) : stream'[i] = rest[i]
        /\ stream'[Len(rest) + 1].job = Job(c)
        /\ stream'[Len(rest) + 1].attempt = Attempt(c) + 1
        /\ stream'[Len(rest) + 1].state = "waiting"
    BY <1>1, <2>1, <2>2, <2>3, AppendEntry
  <2>5. Added(Job(c), Attempt(c) + 1)
    BY <2>3, <2>4 DEF Added
  <2>6. \A i \in Ids : stream'[i] = rest[i]
    BY <2>3, <2>4, StreamTyped
  <2>7. Marked({Current(c)}, "deleted")
    BY <2>3, <2>6 DEF Marked
  <2>8. \A i \in Ids : stream[i].state \in Marks
    BY StreamTyped DEF Entries
  <2>9. Carried
    BY <2>3, <2>4, <2>6, <2>8, StreamTyped DEF Carried, Marks
  <2> QED BY <2>1, <2>2, <2>5, <2>7, <2>9
<1> QED BY <1>2, <1>3

LEMMA StepCarries ==
  ASSUME TypeOK, Next
  PROVE  Carried
<1>1. ASSUME NEW j \in Jobs, Enqueue(j) \/ ReplayAdd(j) PROVE Carried
  BY <1>1, StreamAppended DEF Enqueue, ReplayAdd
<1>2. CASE ReplayDelete \/ ReplayBreaks \/ \E i \in Ids : Lapse(i)
  BY <1>2, StreamKept DEF ReplayDelete, ReplayBreaks, Lapse, store
<1>3. ASSUME NEW c \in Consumers, Start(c) PROVE Carried
  <2>1. stream' = stream /\ last' \in 0..Len(stream)
    BY <1>3, StreamTyped DEF Start
  <2>2. \A i \in Ids : stream[i].state \in Marks
    BY StreamTyped DEF Entries
  <2> QED BY <2>1, <2>2, StreamTyped DEF Carried, Marks
<1>4. ASSUME NEW c \in Consumers,
             \/ Stop(c) \/ Crash(c) \/ Claim(c) \/ ClaimFails(c)
             \/ HandlerReturns(c) \/ HandlerThrows(c)
      PROVE  Carried
  BY <1>4, StreamKept
  DEF Stop, Crash, Claim, ClaimFails, HandlerReturns, HandlerThrows, store
<1>5. ASSUME NEW c \in Consumers, Read(c) \/ ReadFails(c) PROVE Carried
  BY <1>5, StreamKept, StreamDelivered DEF Read, ReadFails
<1>6. ASSUME NEW c \in Consumers, Xack(c) \/ Xdel(c) \/ AckFails(c) PROVE Carried
  <2>1. pc[c] \in Working /\ last' = last
    BY <1>6 DEF Xack, Xdel, AckFails, Working
  <2>2. \/ stream' = stream
        \/ \E s \in {"acked", "deleted"} : stream' = With({Current(c)}, s)
    BY <1>6 DEF Xack, Xdel, AckFails, Acked
  <2> QED BY <2>1, <2>2, StreamKept, StreamMarked
<1>7. ASSUME NEW c \in Consumers, Retry(c) \/ RetryFails(c) PROVE Carried
  BY <1>7, StreamKept, StreamSettled DEF Retry, RetryFails
<1> QED BY <1>1, <1>2, <1>3, <1>4, <1>5, <1>6, <1>7 DEF Next, Handling

(***************************************************************************)
(* Types.                                                                  *)
(***************************************************************************)

IdleOK == idle \subseteq {i \in Ids : stream[i].state = "pending"}

Labels == {"down", "claim", "read", "handle", "ack", "delete", "retry"}

BatchOK ==
  /\ pc \in [Consumers -> Labels] /\ batch \in [Consumers -> SUBSET Ids]
  /\ \A c \in Consumers : pc[c] \in Working => batch[c] # {}

CountsOK ==
  /\ dlq \in [Jobs -> Nat] /\ failures \in [Jobs -> 0..MaxAttempts]

RestOK ==
  /\ group \in BOOLEAN /\ replaying \in Jobs \cup {None}
  /\ faults \in 0..MaxFaults /\ lapses \in 0..MaxLapses
  /\ replays \in 0..MaxReplays
  /\ queued \subseteq Jobs /\ accepted \subseteq queued
  /\ extracted \subseteq queued /\ split \subseteq queued

LEMMA TypeParts ==
  TypeOK <=> /\ stream \in Seq(Entries) /\ last \in 0..Len(stream)
             /\ IdleOK /\ BatchOK /\ CountsOK /\ RestOK
BY DEF TypeOK, Entries, Marks, IdleOK, Labels, Working, BatchOK, CountsOK, RestOK

\* What SMT is to know of the two tables of counts.
LEMMA Counts ==
  ASSUME CountsOK
  PROVE  /\ \A j \in Jobs : dlq[j] \in Nat /\ failures[j] \in 0..MaxAttempts
         /\ \A j \in Jobs, n \in Nat :
              /\ [dlq EXCEPT ![j] = n] \in [Jobs -> Nat]
              /\ [dlq EXCEPT ![j] = n][j] = n
              /\ \A k \in Jobs \ {j} : [dlq EXCEPT ![j] = n][k] = dlq[k]
         /\ \A j \in Jobs, n \in 0..MaxAttempts :
              /\ [failures EXCEPT ![j] = n] \in [Jobs -> 0..MaxAttempts]
              /\ [failures EXCEPT ![j] = n][j] = n
              /\ \A k \in Jobs \ {j} : [failures EXCEPT ![j] = n][k] = failures[k]
BY Zenon DEF CountsOK

LEMMA BatchStep ==
  ASSUME TypeOK, Next
  PROVE  BatchOK'
<1>1. BatchOK /\ Carried /\ Ids \subseteq Ids'
  <2>1. BatchOK /\ Carried
    BY TypeParts, StepCarries
  <2> QED BY <2>1, StreamTyped DEF Carried, Ids
<1>2. batch \in [Consumers -> SUBSET Ids']
  BY <1>1 DEF BatchOK
<1>3. CASE UNCHANGED <<pc, batch>>
  BY <1>1, <1>2, <1>3 DEF BatchOK
<1>4. ASSUME NEW c \in Consumers, NEW label \in Labels, Goto(c, label),
             UNCHANGED batch, label \in Working => batch[c] # {}
      PROVE  BatchOK'
  BY <1>1, <1>2, <1>4 DEF BatchOK, Goto
<1>5. ASSUME NEW c \in Consumers, NEW label \in Labels, Goto(c, label),
             NEW S \in SUBSET Ids, batch' = [batch EXCEPT ![c] = S],
             label \in Working => S # {}
      PROVE  BatchOK'
  BY <1>1, <1>2, <1>5 DEF BatchOK, Goto
<1>6. \A c \in Consumers : pc[c] \in Working => batch[c] # {} /\ Current(c) \in batch[c]
  BY CurrentHeld DEF TypeOK, Working
<1>7. \A c \in Consumers : batch[c] \in SUBSET Ids
  BY <1>1 DEF BatchOK
<1>8. CASE (\E j \in Jobs : Enqueue(j) \/ ReplayAdd(j)) \/ ReplayDelete \/ ReplayBreaks
             \/ \E i \in Ids : Lapse(i)
  BY <1>3, <1>8 DEF Enqueue, ReplayAdd, ReplayDelete, ReplayBreaks, Lapse
<1>9. ASSUME NEW c \in Consumers,
             \/ Start(c) \/ Stop(c) \/ ClaimFails(c)
             \/ HandlerReturns(c) \/ HandlerThrows(c) \/ Xack(c) \/ AckFails(c)
      PROVE  BatchOK'
  <2>1. PICK label \in Labels : Goto(c, label) /\ (label \in Working => pc[c] \in Working)
    BY <1>9 DEF Start, Stop, ClaimFails, HandlerReturns, HandlerThrows, Failed, Xack,
       AckFails, Labels, Working
  <2>2. UNCHANGED batch
    BY <1>9 DEF Start, Stop, ClaimFails, HandlerReturns, HandlerThrows, Xack, AckFails
  <2> QED BY <1>4, <1>6, <2>1, <2>2
<1>10. ASSUME NEW c \in Consumers, Crash(c) \/ RetryFails(c) PROVE BatchOK'
  <2>1. PICK label \in {"down", "claim"} : Goto(c, label)
    BY <1>10 DEF Crash, RetryFails
  <2>2. batch' = [batch EXCEPT ![c] = {}] /\ label \in Labels /\ label \notin Working
    BY <1>10 DEF Crash, RetryFails, Labels, Working
  <2> QED BY <1>5, <2>1, <2>2
<1>11. ASSUME NEW c \in Consumers, Claim(c) PROVE BatchOK'
  <2>1. Claimable \in SUBSET Ids
    BY TypeParts DEF IdleOK, Claimable, Oldest
  <2>2. Goto(c, "read") /\ "read" \in Labels /\ "read" \notin Working
          /\ batch' = [batch EXCEPT ![c] = Claimable]
    BY <1>11 DEF Claim, Labels, Working
  <2> QED BY <1>5, <2>1, <2>2
<1>12. ASSUME NEW c \in Consumers, Read(c) PROVE BatchOK'
  <2> DEFINE all == batch[c] \cup Fresh
  <2>1. all \in SUBSET Ids
    BY <1>7, FreshClosed DEF Undelivered
  <2>2. Goto(c, AfterDrain(all)) /\ batch' = [batch EXCEPT ![c] = all]
    BY <1>12 DEF Read
  <2>3. AfterDrain(all) \in Labels /\ (AfterDrain(all) \in Working => all # {})
    BY DEF AfterDrain, Labels, Working
  <2> HIDE DEF all
  <2> QED BY <1>5, <2>1, <2>2, <2>3
<1>13. ASSUME NEW c \in Consumers, ReadFails(c) PROVE BatchOK'
  <2>1. Goto(c, AfterDrain(batch[c])) /\ UNCHANGED batch
    BY <1>13 DEF ReadFails
  <2>2. AfterDrain(batch[c]) \in Labels /\ (AfterDrain(batch[c]) \in Working => batch[c] # {})
    BY DEF AfterDrain, Labels, Working
  <2> QED BY <1>4, <2>1, <2>2
<1>14. ASSUME NEW c \in Consumers, Xdel(c) \/ Retry(c) PROVE BatchOK'
  <2> DEFINE left == batch[c] \ {Current(c)}
             label == IF batch[c] = {Current(c)} THEN "claim" ELSE "handle"
  <2>1. pc[c] \in Working /\ Goto(c, label) /\ batch' = [batch EXCEPT ![c] = left]
    BY <1>14 DEF Xdel, Retry, NextEntry, Working
  <2>2. left \in SUBSET Ids /\ label \in Labels /\ (label \in Working => left # {})
    BY <1>6, <1>7, <2>1 DEF Labels, Working
  <2> HIDE DEF left, label
  <2> QED BY <1>5, <2>1, <2>2
<1> QED BY <1>8, <1>9, <1>10, <1>11, <1>12, <1>13, <1>14 DEF Next, Handling

LEMMA IdleStep ==
  ASSUME TypeOK, BatchInv, Next
  PROVE  IdleOK'
<1>1. IdleOK /\ Carried /\ Ids \subseteq Ids'
  <2>1. IdleOK /\ Carried
    BY TypeParts, StepCarries
  <2> QED BY <2>1, StreamTyped DEF Carried, Ids
<1>2. ASSUME Marked({}, "deleted"), idle' \subseteq idle
      PROVE  IdleOK'
  BY <1>1, <1>2 DEF IdleOK, Marked
<1>3. ASSUME NEW c \in Consumers, NEW s, Marked({Current(c)}, s),
             idle' \subseteq idle \ {Current(c)}
      PROVE  IdleOK'
  BY <1>1, <1>3 DEF IdleOK, Marked
<1>4. ASSUME NEW j \in Jobs, Enqueue(j) \/ ReplayAdd(j) PROVE IdleOK'
  BY <1>2, <1>4, StreamAppended DEF Enqueue, ReplayAdd
<1>5. CASE ReplayDelete \/ ReplayBreaks
  BY <1>2, <1>5, StreamKept DEF ReplayDelete, ReplayBreaks, store
<1>6. ASSUME NEW i \in Ids, Lapse(i) PROVE IdleOK'
  <2>1. i \in Pending /\ idle' = idle \cup {i} /\ stream' = stream
    BY <1>6 DEF Lapse
  <2> QED BY <1>1, <2>1 DEF IdleOK, Pending
<1>7. ASSUME NEW c \in Consumers,
             \/ Start(c) \/ Stop(c) \/ Crash(c) \/ Claim(c) \/ ClaimFails(c)
             \/ HandlerReturns(c) \/ HandlerThrows(c)
      PROVE  IdleOK'
  <2>1. stream' = stream /\ idle' \subseteq idle
    BY <1>7 DEF Start, Stop, Crash, Claim, ClaimFails, HandlerReturns, HandlerThrows, store
  <2> QED BY <1>1, <2>1 DEF IdleOK
<1>8. ASSUME NEW c \in Consumers, Read(c) \/ ReadFails(c) PROVE IdleOK'
  <2>1. idle' = idle /\ (Deliver \/ (stream' = stream /\ last' = last))
    BY <1>8 DEF Read, ReadFails
  <2>2. CASE Deliver
    BY <1>1, <2>1, <2>2, StreamDelivered DEF IdleOK, Marked
  <2> QED BY <1>2, <2>1, <2>2, StreamKept
<1>9. ASSUME NEW c \in Consumers, Xack(c) \/ Xdel(c) \/ AckFails(c) PROVE IdleOK'
  <2>1. pc[c] \in Working /\ last' = last
    BY <1>9 DEF Xack, Xdel, AckFails, Working
  <2>2. \/ stream' = stream /\ idle' \subseteq idle
        \/ /\ \E s \in {"acked", "deleted"} : stream' = With({Current(c)}, s)
           /\ \/ idle' = idle \ {Current(c)}
              \/ pc[c] = "delete" /\ idle' = idle
    BY <1>9 DEF Xack, Xdel, AckFails, Acked
  <2>3. pc[c] = "delete" => Current(c) \notin idle
    BY <1>1 DEF IdleOK, BatchInv
  <2>4. CASE stream' = stream /\ idle' \subseteq idle
    BY <1>1, <2>4 DEF IdleOK
  <2>5. CASE /\ \E s \in {"acked", "deleted"} : stream' = With({Current(c)}, s)
             /\ idle' \subseteq idle \ {Current(c)}
    <3>1. PICK s \in {"acked", "deleted"} : stream' = With({Current(c)}, s)
      BY <2>5
    <3>2. Marked({Current(c)}, s)
      BY <2>1, <3>1, StreamMarked
    <3> QED BY <1>3, <2>5, <3>2
  <2> QED BY <2>2, <2>3, <2>4, <2>5
<1>10. ASSUME NEW c \in Consumers, Retry(c) \/ RetryFails(c) PROVE IdleOK'
  <2>1. pc[c] = "retry" /\ last' = last /\ (Settle(c) \/ (stream' = stream /\ idle' = idle))
    BY <1>10 DEF Retry, RetryFails
  <2>2. CASE Settle(c)
    BY <1>3, <2>1, <2>2, StreamSettled
  <2> QED BY <1>2, <2>1, <2>2, StreamKept
<1> QED BY <1>4, <1>5, <1>6, <1>7, <1>8, <1>9, <1>10 DEF Next, Handling

LEMMA RestStep ==
  ASSUME TypeOK, JobInv, Next
  PROVE  RestOK'
<1>1. RestOK
  BY TypeParts
<1>2. \A c \in Consumers : pc[c] \in Working => Job(c) \in queued
  BY CurrentHeld DEF JobInv
<1>3. MaxFaults \in Nat /\ MaxLapses \in Nat /\ MaxReplays \in Nat
  BY QueueAssumption
<1>4. CASE \/ \E j \in Jobs : Enqueue(j) \/ ReplayAdd(j)
           \/ ReplayDelete
  BY <1>1, <1>3, <1>4 DEF Enqueue, ReplayAdd, ReplayDelete, RestOK, bounds, observers
<1>5. CASE ReplayBreaks
  <2>1. replaying \in queued
    BY <1>1, <1>5 DEF ReplayBreaks, JobInv, RestOK
  <2> QED BY <1>1, <1>3, <1>5, <2>1 DEF ReplayBreaks, RestOK, Fault, store
<1>6. ASSUME NEW i \in Ids, Lapse(i) PROVE RestOK'
  <2>1. stream[i].job \in queued
    BY DEF JobInv
  <2> QED BY <1>1, <1>3, <1>6, <2>1 DEF Lapse, RestOK
<1>7. ASSUME NEW c \in Consumers,
             \/ Start(c) \/ Claim(c) \/ Read(c) \/ HandlerThrows(c)
             \/ Xack(c) \/ Xdel(c) \/ Retry(c)
      PROVE  RestOK'
  BY <1>1, <1>7 DEF Start, Claim, Read, HandlerThrows, Xack, Xdel, Retry, RestOK,
     bounds, observers, store
<1>8. ASSUME NEW c \in Consumers,
             \/ Stop(c) \/ Crash(c) \/ ClaimFails(c) \/ ReadFails(c) \/ AckFails(c)
             \/ RetryFails(c)
      PROVE  RestOK'
  BY <1>1, <1>3, <1>8 DEF Stop, Crash, ClaimFails, ReadFails, AckFails, RetryFails,
     RestOK, Fault, observers, store
<1>9. ASSUME NEW c \in Consumers, HandlerReturns(c) PROVE RestOK'
  <2>1. Job(c) \in queued
    BY <1>2, <1>9 DEF HandlerReturns, Working
  <2> QED BY <1>1, <1>9, <2>1 DEF HandlerReturns, RestOK, bounds, store
<1> QED BY <1>4, <1>5, <1>6, <1>7, <1>8, <1>9 DEF Next, Handling

\* A settled dead letter is counted, a deleted one had been, and a failure
\* counts up to MaxAttempts; nothing else changes the counts.
LEMMA CountsStep ==
  ASSUME TypeOK, JobInv, Next
  PROVE  /\ CountsOK'
         /\ \A j \in Jobs :
              /\ failures'[j] >= failures[j]
              /\ dlq'[j] > 0 => \/ dlq[j] > 0
                                \/ \E c \in Consumers : /\ pc[c] = "retry" /\ Job(c) = j
                                                        /\ Attempt(c) + 1 = MaxAttempts
              /\ dlq'[j] < dlq[j] => ReplayDelete /\ j = replaying /\ dlq'[j] = dlq[j] - 1
<1>1. CountsOK /\ RestOK
  BY TypeParts
<1> DEFINE Goal ==
      /\ CountsOK'
      /\ \A j \in Jobs :
           /\ failures'[j] >= failures[j]
           /\ dlq'[j] > 0 => \/ dlq[j] > 0
                             \/ \E c \in Consumers : /\ pc[c] = "retry" /\ Job(c) = j
                                                     /\ Attempt(c) + 1 = MaxAttempts
           /\ dlq'[j] < dlq[j] => ReplayDelete /\ j = replaying /\ dlq'[j] = dlq[j] - 1
<1>2. \A j \in Jobs : dlq[j] \in Nat /\ failures[j] \in 0..MaxAttempts
  BY <1>1, Counts
<1>3. CASE UNCHANGED <<dlq, failures>>
  BY <1>1, <1>2, <1>3, QueueAssumption DEF CountsOK
<1>4. CASE ReplayDelete
  <2>1. /\ replaying \in Jobs /\ dlq[replaying] - 1 \in Nat
        /\ dlq' = [dlq EXCEPT ![replaying] = dlq[replaying] - 1] /\ failures' = failures
    <3>1. /\ replaying \in Jobs /\ dlq[replaying] > 0
          /\ dlq' = [dlq EXCEPT ![replaying] = dlq[replaying] - 1] /\ failures' = failures
      BY <1>1, <1>4 DEF ReplayDelete, JobInv, RestOK, observers
    <3>2. dlq[replaying] \in Nat
      BY <1>2, <3>1
    <3> QED BY <3>1, <3>2
  <2>2. /\ dlq' \in [Jobs -> Nat] /\ dlq'[replaying] = dlq[replaying] - 1
        /\ \A k \in Jobs \ {replaying} : dlq'[k] = dlq[k]
    BY <1>1, <2>1, Counts
  <2>3. CountsOK'
    BY <1>1, <2>1, <2>2 DEF CountsOK
  <2> QED BY <1>2, <1>4, <2>1, <2>2, <2>3, QueueAssumption
<1>5. ASSUME NEW c \in Consumers, Settle(c), pc[c] = "retry", failures' = failures, last' = last
      PROVE  Goal
  <2>1. CASE dlq' = dlq
    BY <1>3, <1>5, <2>1
  <2>2. CASE dlq' = [dlq EXCEPT ![Job(c)] = @ + 1] /\ Attempt(c) + 1 = MaxAttempts
    <3>1. Job(c) \in Jobs
      BY <1>5, CurrentHeld DEF Working
    <3>2. dlq[Job(c)] + 1 \in Nat /\ dlq' = [dlq EXCEPT ![Job(c)] = dlq[Job(c)] + 1]
      BY <1>2, <2>2, <3>1
    <3>3. /\ dlq' \in [Jobs -> Nat] /\ dlq'[Job(c)] = dlq[Job(c)] + 1
          /\ \A k \in Jobs \ {Job(c)} : dlq'[k] = dlq[k]
      BY <1>1, <3>1, <3>2, Counts
    <3>4. CountsOK'
      BY <1>1, <1>5, <3>3 DEF CountsOK
    <3> QED BY <1>2, <1>5, <2>2, <3>1, <3>3, <3>4, QueueAssumption
  <2> QED BY <1>5, <2>1, <2>2, StreamSettled
<1>6. ASSUME NEW c \in Consumers, Failed(c), pc[c] \in Working, dlq' = dlq
      PROVE  Goal
  <2> DEFINE n == IF failures[Job(c)] < MaxAttempts THEN failures[Job(c)] + 1
                  ELSE failures[Job(c)]
  <2>1. Job(c) \in Jobs
    BY <1>6, CurrentHeld
  <2>2. /\ n \in 0..MaxAttempts /\ n >= failures[Job(c)]
        /\ failures' = [failures EXCEPT ![Job(c)] = n]
    BY <1>2, <1>6, <2>1, QueueAssumption DEF Failed
  <2> HIDE DEF n
  <2>3. /\ failures' \in [Jobs -> 0..MaxAttempts] /\ failures'[Job(c)] = n
        /\ \A k \in Jobs \ {Job(c)} : failures'[k] = failures[k]
    BY <1>1, <2>1, <2>2, Counts
  <2>4. CountsOK'
    BY <1>1, <1>6, <2>3 DEF CountsOK
  <2> QED BY <1>2, <1>6, <2>1, <2>2, <2>3, <2>4, QueueAssumption
<1> HIDE DEF Goal
<1>7. CASE \/ \E j \in Jobs : Enqueue(j) \/ ReplayAdd(j)
           \/ ReplayBreaks \/ \E i \in Ids : Lapse(i)
  <2>1. UNCHANGED <<dlq, failures>>
    BY <1>7 DEF Enqueue, ReplayAdd, ReplayBreaks, Lapse, store, observers
  <2> QED BY <1>3, <2>1 DEF Goal
<1>8. ASSUME NEW c \in Consumers,
             \/ Start(c) \/ Stop(c) \/ Crash(c) \/ Claim(c) \/ ClaimFails(c)
             \/ Read(c) \/ ReadFails(c) \/ HandlerReturns(c) \/ Xack(c) \/ Xdel(c)
      PROVE  Goal
  <2>1. UNCHANGED <<dlq, failures>>
    BY <1>8 DEF Start, Stop, Crash, Claim, ClaimFails, Read, ReadFails, HandlerReturns,
       Xack, Xdel, store, observers
  <2> QED BY <1>3, <2>1 DEF Goal
<1>9. ASSUME NEW c \in Consumers, HandlerThrows(c) \/ AckFails(c) PROVE Goal
  <2>1. Failed(c) /\ pc[c] \in Working /\ dlq' = dlq
    BY <1>9 DEF HandlerThrows, AckFails, Working, store
  <2> QED BY <1>6, <2>1
<1>10. ASSUME NEW c \in Consumers, Retry(c) \/ RetryFails(c) PROVE Goal
  <2>1. /\ pc[c] = "retry" /\ failures' = failures /\ last' = last
        /\ Settle(c) \/ dlq' = dlq
    BY <1>10 DEF Retry, RetryFails, observers
  <2>2. CASE Settle(c)
    BY <1>5, <2>1, <2>2
  <2>3. CASE dlq' = dlq
    BY <1>3, <2>1, <2>3 DEF Goal
  <2> QED BY <2>1, <2>2, <2>3
<1>11. Goal
  BY <1>4, <1>7, <1>8, <1>9, <1>10 DEF Next, Handling, Goal
<1> QED BY <1>11 DEF Goal

LEMMA TypeStep ==
  ASSUME TypeOK, JobInv, BatchInv, Next
  PROVE  TypeOK'
<1>1. stream' \in Seq(Entries) /\ last' \in 0..Len(stream')
  BY StepCarries, StreamTyped DEF Carried
<1>2. BatchOK' /\ IdleOK' /\ RestOK' /\ CountsOK'
  BY BatchStep, IdleStep, RestStep, CountsStep
<1> QED BY <1>1, <1>2
     DEF TypeOK, Entries, Marks, IdleOK, Labels, Working, BatchOK, CountsOK, RestOK

(***************************************************************************)
(* What the steps do to the consumers.                                     *)
(***************************************************************************)

LEMMA Monotone ==
  ASSUME Next
  PROVE  queued \subseteq queued' /\ extracted \subseteq extracted' /\ split \subseteq split'
<1>1. CASE \E j \in Jobs : Enqueue(j) \/ ReplayAdd(j)
  BY <1>1 DEF Enqueue, ReplayAdd, observers
<1>2. CASE ReplayDelete \/ ReplayBreaks \/ \E i \in Ids : Lapse(i)
  BY <1>2 DEF ReplayDelete, ReplayBreaks, Lapse, observers
<1>3. ASSUME NEW c \in Consumers,
             \/ Start(c) \/ Stop(c) \/ Crash(c) \/ Claim(c) \/ ClaimFails(c)
             \/ Read(c) \/ ReadFails(c) \/ HandlerReturns(c) \/ HandlerThrows(c)
      PROVE  queued \subseteq queued' /\ extracted \subseteq extracted' /\ split \subseteq split'
  BY <1>3 DEF Start, Stop, Crash, Claim, ClaimFails, Read, ReadFails, HandlerReturns,
     HandlerThrows, observers
<1>4. ASSUME NEW c \in Consumers,
             Xack(c) \/ Xdel(c) \/ AckFails(c) \/ Retry(c) \/ RetryFails(c)
      PROVE  queued \subseteq queued' /\ extracted \subseteq extracted' /\ split \subseteq split'
  BY <1>4 DEF Xack, Xdel, AckFails, Retry, RetryFails, observers
<1> QED BY <1>1, <1>2, <1>3, <1>4 DEF Next, Handling

\* What a step may do to consumer c: hand it entries, or move it on from one
\* entry's handling to its acknowledgement, deletion or retry.
Gets(c, i) == \/ Claim(c) /\ i \in Claimable
              \/ Read(c) /\ i \in Fresh

MovesOn(c) ==
  pc'[c] \in {"ack", "delete", "retry"}
    => /\ batch'[c] = batch[c] /\ pc[c] \in Working
       /\ \/ pc'[c] = pc[c]
          \/ HandlerReturns(c) /\ pc'[c] = "ack"
          \/ Xack(c) /\ pc'[c] = "delete"
          \/ (HandlerThrows(c) \/ AckFails(c)) /\ pc'[c] = "retry"

LEMMA ConsumerStep ==
  ASSUME TypeOK, Next, NEW c \in Consumers
  PROVE  MovesOn(c) /\ \A i \in batch'[c] : i \in batch[c] \/ Gets(c, i)
<1> DEFINE Goal == MovesOn(c) /\ \A i \in batch'[c] : i \in batch[c] \/ Gets(c, i)
<1>1. BatchOK
  BY TypeParts
<1>2. CASE pc'[c] = pc[c] /\ batch'[c] = batch[c]
  BY <1>2 DEF MovesOn, Working
<1>3. CASE pc'[c] \in {"down", "claim", "read", "handle"} /\ batch'[c] \subseteq batch[c]
  BY <1>3 DEF MovesOn
<1>4. CASE UNCHANGED <<pc, batch>>
  BY <1>2, <1>4
<1>5. ASSUME NEW d \in Consumers, NEW label, Goto(d, label),
             UNCHANGED batch \/ \E S : batch' = [batch EXCEPT ![d] = S],
             d # c
      PROVE  Goal
  <2>1. pc'[c] = pc[c] /\ batch'[c] = batch[c]
    BY <1>1, <1>5 DEF Goto, BatchOK
  <2> QED BY <1>2, <2>1
<1>6. CASE (\E j \in Jobs : Enqueue(j) \/ ReplayAdd(j)) \/ ReplayDelete \/ ReplayBreaks
             \/ \E i \in Ids : Lapse(i)
  BY <1>4, <1>6 DEF Enqueue, ReplayAdd, ReplayDelete, ReplayBreaks, Lapse
<1>7. ASSUME NEW d \in Consumers,
             \/ Start(d) \/ Stop(d) \/ Crash(d) \/ Claim(d) \/ ClaimFails(d)
             \/ Read(d) \/ ReadFails(d) \/ Handling(d) \/ AckFails(d) \/ RetryFails(d)
      PROVE  \E label : Goto(d, label)
  BY <1>7 DEF Start, Stop, Crash, Claim, ClaimFails, Read, ReadFails, Handling,
     HandlerReturns, HandlerThrows, Failed, Xack, Xdel, NextEntry, AckFails, Retry,
     RetryFails
<1>8. ASSUME NEW d \in Consumers,
             \/ Start(d) \/ Stop(d) \/ Crash(d) \/ Claim(d) \/ ClaimFails(d)
             \/ Read(d) \/ ReadFails(d) \/ Handling(d) \/ AckFails(d) \/ RetryFails(d)
      PROVE  UNCHANGED batch \/ \E S : batch' = [batch EXCEPT ![d] = S]
  BY <1>8 DEF Start, Stop, Crash, Claim, ClaimFails, Read, ReadFails, Handling,
     HandlerReturns, HandlerThrows, Failed, Xack, Xdel, NextEntry, AckFails, Retry,
     RetryFails
<1>9. CASE \/ Start(c) \/ Stop(c) \/ Crash(c) \/ ClaimFails(c) \/ ReadFails(c) \/ RetryFails(c)
  <2>1. PICK label : Goto(c, label) /\ label \in {"down", "claim", "read", "handle"}
    BY <1>9 DEF Start, Stop, Crash, ClaimFails, ReadFails, RetryFails, AfterDrain
  <2>2. batch' = batch \/ batch' = [batch EXCEPT ![c] = {}]
    BY <1>9 DEF Start, Stop, Crash, ClaimFails, ReadFails, RetryFails
  <2>3. pc'[c] = label /\ batch'[c] \subseteq batch[c]
    BY <1>1, <2>1, <2>2 DEF Goto, BatchOK
  <2> QED BY <1>3, <2>1, <2>3
<1>10. CASE Xdel(c) \/ Retry(c)
  <2>1. /\ Goto(c, IF batch[c] = {Current(c)} THEN "claim" ELSE "handle")
        /\ batch' = [batch EXCEPT ![c] = batch[c] \ {Current(c)}]
    BY <1>10 DEF Xdel, Retry, NextEntry
  <2>2. /\ pc'[c] = IF batch[c] = {Current(c)} THEN "claim" ELSE "handle"
        /\ batch'[c] = batch[c] \ {Current(c)}
    BY <1>1, <2>1 DEF Goto, BatchOK
  <2> QED BY <1>3, <2>2
<1>11. CASE Claim(c) \/ Read(c)
  <2>1. CASE Claim(c)
    <3>1. pc'[c] = "read" /\ batch'[c] = Claimable
      BY <1>1, <2>1 DEF Claim, Goto, BatchOK
    <3> QED BY <2>1, <3>1 DEF MovesOn, Gets
  <2>2. CASE Read(c)
    <3>1. pc'[c] \in {"claim", "handle"} /\ batch'[c] = batch[c] \cup Fresh
      BY <1>1, <2>2 DEF Read, Goto, BatchOK, AfterDrain
    <3> QED BY <2>2, <3>1 DEF MovesOn, Gets
  <2> QED BY <1>11, <2>1, <2>2
<1>12. CASE HandlerReturns(c) \/ HandlerThrows(c) \/ Xack(c) \/ AckFails(c)
  <2>1. batch' = batch /\ pc[c] \in Working
    BY <1>12 DEF HandlerReturns, HandlerThrows, Xack, AckFails, Working
  <2>2. \/ HandlerReturns(c) /\ Goto(c, "ack")
        \/ Xack(c) /\ Goto(c, "delete")
        \/ (HandlerThrows(c) \/ AckFails(c)) /\ Goto(c, "retry")
    BY <1>12 DEF HandlerReturns, HandlerThrows, Xack, AckFails, Failed
  <2>3. \/ HandlerReturns(c) /\ pc'[c] = "ack"
        \/ Xack(c) /\ pc'[c] = "delete"
        \/ (HandlerThrows(c) \/ AckFails(c)) /\ pc'[c] = "retry"
    BY <1>1, <2>2 DEF Goto, BatchOK
  <2> QED BY <2>1, <2>3 DEF MovesOn
<1> HIDE DEF Goal
<1>13. ASSUME NEW d \in Consumers,
              \/ Start(d) \/ Stop(d) \/ Crash(d) \/ Claim(d) \/ ClaimFails(d)
              \/ Read(d) \/ ReadFails(d) \/ Handling(d) \/ AckFails(d) \/ RetryFails(d)
       PROVE  Goal
  <2>1. CASE d = c
    BY <1>9, <1>10, <1>11, <1>12, <1>13, <2>1 DEF Handling, Goal
  <2>2. CASE d # c
    BY <1>5, <1>7, <1>8, <1>13, <2>2
  <2> QED BY <2>1, <2>2
<1> QED BY <1>6, <1>13 DEF Next, Goal

\* A consumer whose batch a step leaves alone has the same entry in hand.
LEMMA SameCurrent ==
  ASSUME TypeOK, Next, NEW c \in Consumers, pc[c] \in Working, batch'[c] = batch[c]
  PROVE  /\ Current(c)' = Current(c) /\ Current(c) \in Ids
         /\ Job(c)' = Job(c) /\ Attempt(c)' = Attempt(c)
<1>1. Current(c)' = Current(c)
  BY DEF Current
<1>2. Current(c) \in Ids
  BY CurrentHeld
<1>3. /\ stream'[Current(c)].job = stream[Current(c)].job
      /\ stream'[Current(c)].attempt = stream[Current(c)].attempt
  BY <1>2, StepCarries DEF Carried
<1> QED BY <1>1, <1>2, <1>3 DEF Job, Attempt

\* Where a new entry comes from.
LEMMA NewEntry ==
  ASSUME TypeOK, Next, NEW i \in Ids', i \notin Ids
  PROVE  /\ i = Len(stream) + 1 /\ stream'[i].state = "waiting" /\ i > last'
         /\ \/ /\ stream'[i].attempt = 0 /\ stream'[i].job \in Jobs
               /\ Enqueue(stream'[i].job) \/ ReplayAdd(stream'[i].job)
            \/ \E c \in Consumers : /\ pc[c] = "retry" /\ stream'[i].job = Job(c)
                                    /\ stream'[i].attempt = Attempt(c) + 1
<1> DEFINE Goal ==
      /\ i = Len(stream) + 1 /\ stream'[i].state = "waiting" /\ i > last'
      /\ \/ /\ stream'[i].attempt = 0 /\ stream'[i].job \in Jobs
            /\ Enqueue(stream'[i].job) \/ ReplayAdd(stream'[i].job)
         \/ \E c \in Consumers : /\ pc[c] = "retry" /\ stream'[i].job = Job(c)
                                 /\ stream'[i].attempt = Attempt(c) + 1
<1>1. /\ i \in 1..Len(stream') /\ i \notin 1..Len(stream) /\ Len(stream) \in Nat
      /\ Len(stream') \in Nat /\ last' \in 0..Len(stream)
  BY StreamTyped, StepCarries DEF Carried, Ids
<1>2. Len(stream') # Len(stream)
  BY <1>1
<1>3. ASSUME NEW j \in Jobs, Enqueue(j) \/ ReplayAdd(j) PROVE Goal
  <2>1. Added(j, 0)
    BY <1>3, StreamAppended DEF Enqueue, ReplayAdd
  <2>2. i = Len(stream) + 1
    BY <1>1, <2>1 DEF Added
  <2> QED BY <1>1, <1>3, <2>1, <2>2 DEF Added
<1>4. ASSUME NEW c \in Consumers, Retry(c) \/ RetryFails(c) PROVE Goal
  <2>1. pc[c] = "retry" /\ last' = last /\ (Settle(c) \/ stream' = stream)
    BY <1>4 DEF Retry, RetryFails
  <2>2. Added(Job(c), Attempt(c) + 1)
    BY <1>2, <2>1, StreamSettled
  <2>3. i = Len(stream) + 1
    BY <1>1, <2>2 DEF Added
  <2> QED BY <1>1, <2>1, <2>2, <2>3 DEF Added
<1>5. CASE ReplayDelete \/ ReplayBreaks \/ \E k \in Ids : Lapse(k)
  BY <1>2, <1>5 DEF ReplayDelete, ReplayBreaks, Lapse, store
<1>6. ASSUME NEW c \in Consumers,
             \/ Start(c) \/ Stop(c) \/ Crash(c) \/ Claim(c) \/ ClaimFails(c)
             \/ HandlerReturns(c) \/ HandlerThrows(c)
      PROVE  FALSE
  BY <1>2, <1>6
  DEF Start, Stop, Crash, Claim, ClaimFails, HandlerReturns, HandlerThrows, store
<1>7. ASSUME NEW c \in Consumers, Read(c) \/ ReadFails(c) PROVE FALSE
  BY <1>2, <1>7, StreamDelivered DEF Read, ReadFails
<1>8. ASSUME NEW c \in Consumers, Xack(c) \/ Xdel(c) \/ AckFails(c) PROVE FALSE
  <2>1. pc[c] \in Working /\ last' = last
    BY <1>8 DEF Xack, Xdel, AckFails, Working
  <2>2. \/ stream' = stream
        \/ \E s \in {"acked", "deleted"} : stream' = With({Current(c)}, s)
    BY <1>8 DEF Xack, Xdel, AckFails, Acked
  <2> QED BY <1>2, <2>1, <2>2, StreamMarked
<1> HIDE DEF Goal
<1>9. Goal
  BY <1>3, <1>4, <1>5, <1>6, <1>7, <1>8 DEF Next, Handling, Goal
<1> QED BY <1>9 DEF Goal

(***************************************************************************)
(* The invariant is inductive.                                             *)
(***************************************************************************)

LEMMA GroupStep ==
  ASSUME TypeOK, GroupInv, Next
  PROVE  GroupInv'
<1>1. ASSUME ~group
      PROVE  \/ group'
             \/ /\ accepted' = {} /\ replaying' = None /\ pc' = pc /\ dlq' = dlq
  <2>1. /\ accepted = {} /\ replaying = None /\ \A j \in Jobs : ~ (dlq[j] > 0)
        /\ \A c \in Consumers : pc[c] = "down"
    BY <1>1 DEF GroupInv
  <2>2. ASSUME NEW j \in Jobs, Enqueue(j) \/ ReplayAdd(j)
        PROVE  accepted' = {} /\ replaying' = None /\ pc' = pc /\ dlq' = dlq
    BY <1>1, <2>1, <2>2 DEF Enqueue, ReplayAdd
  <2>3. ~ ReplayDelete /\ ~ ReplayBreaks
    BY <2>1 DEF ReplayDelete, ReplayBreaks
  <2>4. ASSUME NEW i \in Ids, Lapse(i)
        PROVE  accepted' = {} /\ replaying' = None /\ pc' = pc /\ dlq' = dlq
    BY <2>1, <2>4 DEF Lapse
  <2>5. ASSUME NEW c \in Consumers
        PROVE  /\ Start(c) => group'
               /\ ~ (\/ Stop(c) \/ Crash(c) \/ Claim(c) \/ ClaimFails(c)
                     \/ Read(c) \/ ReadFails(c) \/ Handling(c) \/ AckFails(c)
                     \/ RetryFails(c))
    <3>1. pc[c] = "down"
      BY <2>1
    <3> QED BY <3>1 DEF Start, Stop, Crash, Claim, ClaimFails, Read, ReadFails, Handling,
            HandlerReturns, HandlerThrows, Xack, Xdel, AckFails, Retry, RetryFails
  <2> QED BY <2>2, <2>3, <2>4, <2>5 DEF Next
<1>2. ASSUME group PROVE group'
  <2>1. CASE \E j \in Jobs : Enqueue(j) \/ ReplayAdd(j)
    BY <1>2, <2>1 DEF Enqueue, ReplayAdd
  <2>2. CASE ReplayDelete \/ ReplayBreaks \/ \E i \in Ids : Lapse(i)
    BY <1>2, <2>2 DEF ReplayDelete, ReplayBreaks, Lapse, store
  <2>3. ASSUME NEW c \in Consumers,
               \/ Start(c) \/ Stop(c) \/ Crash(c) \/ Claim(c) \/ ClaimFails(c)
               \/ Read(c) \/ ReadFails(c) \/ HandlerReturns(c) \/ HandlerThrows(c)
        PROVE  group'
    BY <1>2, <2>3 DEF Start, Stop, Crash, Claim, ClaimFails, Read, ReadFails,
       HandlerReturns, HandlerThrows, store
  <2>4. ASSUME NEW c \in Consumers,
               Xack(c) \/ Xdel(c) \/ AckFails(c) \/ Retry(c) \/ RetryFails(c)
        PROVE  group'
    BY <1>2, <2>4 DEF Xack, Xdel, AckFails, Retry, RetryFails
  <2> QED BY <2>1, <2>2, <2>3, <2>4 DEF Next, Handling
<1> QED BY <1>1, <1>2 DEF GroupInv

LEMMA ReplayingStep ==
  ASSUME Next
  PROVE  \/ replaying' = replaying /\ ~ ReplayDelete
         \/ replaying' = None
         \/ \E j \in Jobs : replaying' = j /\ ReplayAdd(j)
<1> DEFINE Goal == \/ replaying' = replaying /\ ~ ReplayDelete
                   \/ replaying' = None
                   \/ \E j \in Jobs : replaying' = j /\ ReplayAdd(j)
<1>1. ASSUME NEW j \in Jobs, Enqueue(j) \/ ReplayAdd(j) PROVE Goal
  BY <1>1 DEF Enqueue, ReplayAdd, ReplayDelete
<1>2. CASE ReplayDelete \/ ReplayBreaks
  BY <1>2 DEF ReplayDelete, ReplayBreaks
<1>3. CASE replaying' = replaying
  BY <1>3 DEF ReplayDelete
<1>4. ASSUME NEW i \in Ids, Lapse(i) PROVE replaying' = replaying
  BY <1>4 DEF Lapse
<1>5. ASSUME NEW c \in Consumers,
             \/ Start(c) \/ Stop(c) \/ Crash(c) \/ Claim(c) \/ ClaimFails(c)
             \/ Read(c) \/ ReadFails(c) \/ HandlerReturns(c) \/ HandlerThrows(c)
      PROVE  replaying' = replaying
  BY <1>5 DEF Start, Stop, Crash, Claim, ClaimFails, Read, ReadFails, HandlerReturns,
     HandlerThrows
<1>6. ASSUME NEW c \in Consumers,
             Xack(c) \/ Xdel(c) \/ AckFails(c) \/ Retry(c) \/ RetryFails(c)
      PROVE  replaying' = replaying
  BY <1>6 DEF Xack, Xdel, AckFails, Retry, RetryFails
<1> QED BY <1>1, <1>2, <1>3, <1>4, <1>5, <1>6 DEF Next, Handling

LEMMA JobStep ==
  ASSUME TypeOK, JobInv, Next
  PROVE  JobInv'
<1>1. /\ \A i \in Ids : stream[i].job \in queued
      /\ \A j \in Jobs : dlq[j] > 0 => j \in queued
      /\ replaying # None => dlq[replaying] > 0 /\ replaying \in Jobs
  BY TypeParts DEF JobInv, RestOK
<1>2. queued \subseteq queued'
  BY Monotone
<1>3. \A c \in Consumers : pc[c] \in Working => Job(c) \in queued
  BY <1>1, CurrentHeld
<1>4. ASSUME NEW i \in Ids' PROVE stream'[i].job \in queued'
  <2>1. CASE i \in Ids
    BY <1>1, <1>2, <2>1, StepCarries DEF Carried
  <2>2. CASE i \notin Ids
    <3>1. ASSUME stream'[i].job \in Jobs,
                 Enqueue(stream'[i].job) \/ ReplayAdd(stream'[i].job)
          PROVE  stream'[i].job \in queued'
      BY <1>1, <1>2, <3>1 DEF Enqueue, ReplayAdd
    <3>2. ASSUME NEW c \in Consumers, pc[c] = "retry", stream'[i].job = Job(c)
          PROVE  stream'[i].job \in queued'
      BY <1>2, <1>3, <3>2 DEF Working
    <3> QED BY <2>2, <3>1, <3>2, NewEntry
  <2> QED BY <2>1, <2>2
<1>5. ASSUME NEW j \in Jobs, dlq'[j] > 0 PROVE j \in queued'
  BY <1>1, <1>2, <1>3, <1>5, CountsStep DEF Working
<1>6. ASSUME replaying' # None PROVE dlq'[replaying'] > 0
  <2>1. \A j \in Jobs : dlq[j] \in Nat /\ dlq'[j] \in Nat
    BY TypeParts, CountsStep DEF CountsOK
  <2>2. CASE replaying' = replaying /\ ~ ReplayDelete
    BY <1>1, <1>6, <2>1, <2>2, CountsStep
  <2>3. ASSUME NEW j \in Jobs, replaying' = j, ReplayAdd(j) PROVE dlq'[replaying'] > 0
    BY <2>3 DEF ReplayAdd
  <2> QED BY <1>6, <2>2, <2>3, ReplayingStep
<1> QED BY <1>4, <1>5, <1>6 DEF JobInv

LEMMA BatchInvStep ==
  ASSUME TypeOK, BatchInv, Next
  PROVE  BatchInv'
<1>1. ASSUME NEW c \in Consumers, NEW i \in batch'[c]
      PROVE  stream'[i].state # "waiting"
  <2>1. CASE i \in batch[c]
    BY <2>1, TypeParts, StepCarries DEF BatchOK, Carried, BatchInv
  <2>2. CASE Claim(c) /\ i \in Claimable
    <3>1. i \in Ids /\ stream[i].state = "pending"
      BY <2>2, TypeParts DEF Claimable, Oldest, IdleOK
    <3> QED BY <3>1, StepCarries DEF Carried
  <2>3. CASE Read(c) /\ i \in Fresh
    <3>1. Deliver /\ i \in Ids
      BY <2>3, FreshClosed DEF Read, Undelivered
    <3> QED BY <2>3, <3>1, StreamDelivered DEF Marked
  <2> QED BY <2>1, <2>2, <2>3, ConsumerStep DEF Gets
<1>2. ASSUME NEW c \in Consumers, pc'[c] = "delete"
      PROVE  stream'[Current(c)'].state # "pending"
  <2>1. batch'[c] = batch[c] /\ pc[c] \in Working /\ (pc[c] = "delete" \/ Xack(c))
    BY <1>2, ConsumerStep DEF MovesOn
  <2>2. Current(c)' = Current(c) /\ Current(c) \in Ids /\ Current(c) \in batch[c]
    BY <2>1, SameCurrent, CurrentHeld
  <2>3. CASE pc[c] = "delete"
    <3>1. stream[Current(c)].state \notin {"waiting", "pending"}
      BY <2>2, <2>3 DEF BatchInv
    <3> QED BY <2>2, <3>1, StepCarries DEF Carried
  <2>4. CASE Xack(c)
    <3>1. CASE Current(c) \in Pending
      BY <2>1, <2>2, <2>4, <3>1, StreamMarked DEF Xack, Acked
    <3>2. CASE Current(c) \notin Pending
      BY <2>2, <2>4, <3>2 DEF Xack, Acked, Pending
    <3> QED BY <3>1, <3>2
  <2> QED BY <2>1, <2>3, <2>4
<1>3. ASSUME NEW c \in Consumers, pc'[c] \in {"ack", "delete"}
      PROVE  Job(c)' \in extracted'
  <2>1. /\ batch'[c] = batch[c] /\ pc[c] \in Working
        /\ pc[c] \in {"ack", "delete"} \/ HandlerReturns(c)
    BY <1>3, ConsumerStep DEF MovesOn, Xack
  <2>2. Job(c) \in extracted'
    BY <2>1, Monotone DEF BatchInv, HandlerReturns
  <2> QED BY <2>1, <2>2, SameCurrent
<1> QED BY <1>1, <1>2, <1>3 DEF BatchInv

LEMMA AttemptStep ==
  ASSUME TypeOK, JobInv, AttemptInv, Next
  PROVE  AttemptInv'
<1>1. \A j \in Jobs : /\ dlq[j] \in Nat /\ failures[j] \in 0..MaxAttempts
                      /\ failures'[j] \in 0..MaxAttempts /\ failures'[j] >= failures[j]
  BY TypeParts, CountsStep DEF CountsOK
<1>2. MaxAttempts \in Nat \ {0}
  BY QueueAssumption
<1>3. \A i \in Ids : stream[i].job \in Jobs /\ stream[i].attempt \in 0..MaxAttempts - 1
  BY StreamTyped DEF Entries
<1>4. ASSUME NEW i \in Ids' PROVE stream'[i].attempt <= failures'[stream'[i].job]
  <2>1. CASE i \in Ids
    <3>1. /\ stream'[i].attempt = stream[i].attempt /\ stream'[i].job = stream[i].job
          /\ stream[i].attempt <= failures[stream[i].job]
      BY <2>1, StepCarries DEF Carried, AttemptInv
    <3> QED BY <1>1, <1>2, <1>3, <2>1, <3>1
  <2>2. CASE i \notin Ids
    <3>1. CASE stream'[i].attempt = 0 /\ stream'[i].job \in Jobs
      BY <1>1, <1>2, <3>1
    <3>2. ASSUME NEW c \in Consumers, pc[c] = "retry", stream'[i].job = Job(c),
                 stream'[i].attempt = Attempt(c) + 1
          PROVE  stream'[i].attempt <= failures'[stream'[i].job]
      <4>1. /\ Job(c) \in Jobs /\ Attempt(c) \in 0..MaxAttempts - 1
            /\ Attempt(c) + 1 <= failures[Job(c)]
        BY <3>2, CurrentHeld DEF Working, AttemptInv
      <4> QED BY <1>1, <1>2, <3>2, <4>1
    <3> QED BY <2>2, <3>1, <3>2, NewEntry
  <2> QED BY <2>1, <2>2
<1>5. ASSUME NEW c \in Consumers, pc'[c] = "retry"
      PROVE  Attempt(c)' + 1 <= failures'[Job(c)']
  <2>1. /\ batch'[c] = batch[c] /\ pc[c] \in Working
        /\ pc[c] = "retry" \/ Failed(c)
    BY <1>5, ConsumerStep DEF MovesOn, HandlerThrows, AckFails
  <2>2. /\ Job(c)' = Job(c) /\ Attempt(c)' = Attempt(c) /\ Current(c) \in Ids
        /\ Job(c) \in Jobs /\ Attempt(c) \in 0..MaxAttempts - 1
        /\ Attempt(c) <= failures[Job(c)]
    BY <2>1, SameCurrent, CurrentHeld DEF AttemptInv, Job, Attempt
  <2>3. CASE pc[c] = "retry"
    <3>1. Attempt(c) + 1 <= failures[Job(c)]
      BY <2>3 DEF AttemptInv
    <3> QED BY <1>1, <1>2, <2>2, <3>1
  <2>4. CASE Failed(c)
    <3>1. failures'[Job(c)] = IF failures[Job(c)] < MaxAttempts THEN failures[Job(c)] + 1
                              ELSE failures[Job(c)]
      BY <2>2, <2>4, TypeParts, Zenon DEF Failed, CountsOK
    <3> QED BY <1>1, <1>2, <2>2, <3>1
  <2> QED BY <2>1, <2>3, <2>4
<1>6. ASSUME NEW j \in Jobs, dlq'[j] > 0 PROVE failures'[j] = MaxAttempts
  <2>1. CASE dlq[j] > 0
    <3>1. failures[j] = MaxAttempts
      BY <2>1 DEF AttemptInv, DeadLetterEarned
    <3> QED BY <1>1, <1>2, <3>1
  <2>2. ASSUME NEW c \in Consumers, pc[c] = "retry", Job(c) = j,
               Attempt(c) + 1 = MaxAttempts
        PROVE  failures'[j] = MaxAttempts
    <3>1. MaxAttempts <= failures[j]
      BY <2>2 DEF AttemptInv
    <3> QED BY <1>1, <1>2, <3>1
  <2> QED BY <1>6, <2>1, <2>2, CountsStep
<1> QED BY <1>4, <1>5, <1>6 DEF AttemptInv, DeadLetterEarned

\* Between two consumers an entry changes hands only through Claim, which
\* takes it from the idle ones, or Read, which takes it undelivered.
LEMMA HandStep ==
  ASSUME TypeOK, BatchInv, HandInv, Next
  PROVE  HandInv'
<1>1. IdleOK /\ BatchOK /\ split \subseteq split'
  BY TypeParts, Monotone
<1>2. \A c \in Consumers : batch[c] \subseteq Ids
  BY <1>1 DEF BatchOK
<1>3. \A i \in Ids : stream'[i].job = stream[i].job
  BY StepCarries DEF Carried
<1>4. ASSUME NEW c \in Consumers, NEW i \in Ids, Gets(c, i)
      PROVE  /\ i \notin idle'
             /\ \A d \in Consumers \ {c} : batch'[d] = batch[d]
             /\ i \in idle \/ \A d \in Consumers : i \notin batch[d]
  <2>1. CASE Claim(c) /\ i \in Claimable
    BY <1>1, <2>1 DEF Claim, Claimable, Oldest, BatchOK
  <2>2. CASE Read(c) /\ i \in Fresh
    <3>1. stream[i].state = "waiting" /\ idle' = idle
      BY <2>2, FreshClosed DEF Read, Undelivered
    <3>2. i \notin idle /\ \A d \in Consumers : i \notin batch[d]
      BY <1>1, <3>1 DEF IdleOK, BatchInv
    <3>3. \A d \in Consumers \ {c} : batch'[d] = batch[d]
      BY <1>1, <2>2 DEF Read, BatchOK
    <3> QED BY <3>1, <3>2, <3>3
  <2> QED BY <1>4, <2>1, <2>2 DEF Gets
<1>5. \A c \in Consumers : batch'[c] \subseteq Ids
  <2>1. Claimable \subseteq Ids /\ Fresh \subseteq Ids
    BY <1>1, FreshClosed DEF Claimable, Oldest, IdleOK, Undelivered
  <2> QED BY <1>2, <2>1, ConsumerStep DEF Gets
<1>6. ASSUME NEW c \in Consumers, NEW i \in batch'[c], i \in idle'
      PROVE  stream'[i].job \in split'
  <2>1. i \in Ids /\ i \in batch[c]
    BY <1>4, <1>5, <1>6, ConsumerStep
  <2>2. CASE i \in idle
    BY <1>1, <1>3, <2>1, <2>2 DEF HandInv
  <2>3. CASE i \notin idle
    <3>1. PICK k \in Ids : Lapse(k)
      <4>1. ASSUME NEW j \in Jobs, Enqueue(j) \/ ReplayAdd(j) PROVE idle' = idle
        BY <4>1 DEF Enqueue, ReplayAdd
      <4>2. CASE ReplayDelete \/ ReplayBreaks
        BY <1>6, <2>3, <4>2 DEF ReplayDelete, ReplayBreaks, store
      <4>3. ASSUME NEW d \in Consumers,
                   \/ Start(d) \/ Stop(d) \/ Crash(d) \/ Claim(d) \/ ClaimFails(d)
                   \/ Read(d) \/ ReadFails(d) \/ HandlerReturns(d) \/ HandlerThrows(d)
            PROVE  idle' \subseteq idle
        BY <4>3 DEF Start, Stop, Crash, Claim, ClaimFails, Read, ReadFails,
           HandlerReturns, HandlerThrows, store
      <4>4. ASSUME NEW d \in Consumers,
                   Xack(d) \/ Xdel(d) \/ AckFails(d) \/ Retry(d) \/ RetryFails(d)
            PROVE  idle' \subseteq idle
        BY <4>4 DEF Xack, Xdel, AckFails, Acked, Retry, RetryFails, Settle
      <4> QED BY <1>6, <2>3, <4>1, <4>2, <4>3, <4>4 DEF Next, Handling
    <3>2. k = i /\ Held(i)
      BY <1>6, <2>1, <2>3, <3>1 DEF Lapse, Held
    <3>3. stream[i].job \in split'
      BY <3>1, <3>2 DEF Lapse
    <3> QED BY <1>3, <2>1, <3>3
  <2> QED BY <2>2, <2>3
<1>7. ASSUME NEW c \in Consumers, NEW d \in Consumers, NEW i \in batch'[c] \cap batch'[d],
             c # d
      PROVE  stream'[i].job \in split'
  <2>1. i \in Ids
    BY <1>5
  <2>2. CASE i \in batch[c] /\ i \in batch[d]
    BY <1>1, <1>3, <1>7, <2>1, <2>2 DEF HandInv, OneHandler
  <2>3. ASSUME NEW e \in Consumers, NEW f \in Consumers, e # f, Gets(e, i),
               i \in batch'[f]
        PROVE  stream'[i].job \in split'
    <3>1. i \in batch[f] /\ i \in idle
      BY <1>4, <2>1, <2>3
    <3> QED BY <1>1, <1>3, <2>1, <3>1 DEF HandInv
  <2> QED BY <1>7, <2>2, <2>3, ConsumerStep
<1> QED BY <1>6, <1>7 DEF HandInv, OneHandler

\* An entry stops being one that is or will be delivered when its job is
\* extracted, or when it is settled.
LEMMA LiveStep ==
  ASSUME TypeOK, Next, group, NEW i \in Ids, Live(i)
  PROVE  \/ Live(i)'
         \/ \E c \in Consumers : pc[c] \in {"ack", "delete"} /\ i = Current(c)
         \/ \E c \in Consumers : /\ pc[c] = "retry" /\ i = Current(c)
                                 /\ Settle(c) /\ last' = last
<1> DEFINE Goal ==
      \/ Live(i)'
      \/ \E c \in Consumers : pc[c] \in {"ack", "delete"} /\ i = Current(c)
      \/ \E c \in Consumers : /\ pc[c] = "retry" /\ i = Current(c)
                              /\ Settle(c) /\ last' = last
<1>1. i \in Ids' /\ Carried
  BY StreamTyped, StepCarries DEF Carried, Ids
<1>2. stream[i].state = "pending" \/ (i > last /\ stream[i].state = "waiting")
  BY DEF Live, Undelivered
<1>3. ASSUME stream'[i].state = stream[i].state, last' = last PROVE Goal
  BY <1>1, <1>2, <1>3 DEF Live, Undelivered
<1>4. ASSUME NEW j \in Jobs, Enqueue(j) \/ ReplayAdd(j) PROVE Goal
  BY <1>3, <1>4, StreamAppended DEF Enqueue, ReplayAdd, Marked
<1>5. CASE ReplayDelete \/ ReplayBreaks \/ \E k \in Ids : Lapse(k)
  BY <1>3, <1>5 DEF ReplayDelete, ReplayBreaks, Lapse, store
<1>6. ASSUME NEW c \in Consumers,
             \/ Start(c) \/ Stop(c) \/ Crash(c) \/ Claim(c) \/ ClaimFails(c)
             \/ HandlerReturns(c) \/ HandlerThrows(c)
      PROVE  Goal
  <2>1. stream' = stream /\ last' = last
    BY <1>6 DEF Start, Stop, Crash, Claim, ClaimFails, HandlerReturns, HandlerThrows, store
  <2> QED BY <1>3, <2>1
<1>7. ASSUME NEW c \in Consumers, Read(c) \/ ReadFails(c) PROVE Goal
  <2>1. Deliver \/ (stream' = stream /\ last' = last)
    BY <1>7 DEF Read, ReadFails
  <2>2. CASE Deliver
    <3>1. /\ stream'[i].state = IF i \in Fresh THEN "pending" ELSE stream[i].state
          /\ i \in Undelivered => i \in Fresh \/ i > last'
      BY <2>2, StreamDelivered DEF Marked
    <3>2. stream'[i].state = "pending" \/ (i > last' /\ stream'[i].state = "waiting")
      BY <1>2, <3>1 DEF Undelivered
    <3> QED BY <1>1, <3>2 DEF Live, Undelivered
  <2> QED BY <1>3, <2>1, <2>2
<1>8. ASSUME NEW c \in Consumers, Xack(c) \/ Xdel(c) \/ AckFails(c) PROVE Goal
  <2>1. pc[c] \in {"ack", "delete"} /\ pc[c] \in Working /\ last' = last
    BY <1>8 DEF Xack, Xdel, AckFails, Working
  <2>2. \/ stream' = stream
        \/ \E s \in {"acked", "deleted"} : stream' = With({Current(c)}, s)
    BY <1>8 DEF Xack, Xdel, AckFails, Acked
  <2>3. i = Current(c) \/ stream'[i].state = stream[i].state
    BY <2>1, <2>2, StreamMarked DEF Marked
  <2> QED BY <1>3, <2>1, <2>3
<1>9. ASSUME NEW c \in Consumers, Retry(c) \/ RetryFails(c) PROVE Goal
  <2>1. pc[c] = "retry" /\ last' = last /\ (Settle(c) \/ stream' = stream)
    BY <1>9 DEF Retry, RetryFails
  <2>2. CASE Settle(c)
    <3>1. i = Current(c) \/ stream'[i].state = stream[i].state
      BY <2>1, <2>2, StreamSettled DEF Marked
    <3> QED BY <1>3, <2>1, <2>2, <3>1
  <2> QED BY <1>3, <2>1, <2>2
<1> HIDE DEF Goal
<1>10. Goal
  BY <1>4, <1>5, <1>6, <1>7, <1>8, <1>9 DEF Next, Handling, Goal
<1> QED BY <1>10 DEF Goal

\* A new entry will be delivered.
LEMMA NewLive ==
  ASSUME TypeOK, Next, NEW j, NEW a, Added(j, a), NEW n
  PROVE  Kept(j, n)'
<1>1. Len(stream) + 1 \in Ids' /\ Len(stream) + 1 > last'
  BY StreamTyped, StepCarries DEF Added, Carried, Ids
<1>2. PICK i \in Ids' : i = Len(stream) + 1
  BY <1>1
<1>3. stream'[i].job = j /\ stream'[i].state = "waiting" /\ i > last'
  BY <1>1, <1>2 DEF Added
<1>4. Live(i)'
  BY <1>2, <1>3 DEF Live, Undelivered
<1> QED BY <1>2, <1>3, <1>4 DEF Kept

LEMMA KeptCarried ==
  ASSUME TypeOK, BatchInv, JobInv, Next, group, NEW j \in Jobs, NEW n \in Nat,
         dlq[j] >= n, Kept(j, n), ~ (ReplayDelete /\ replaying = j)
  PROVE  Kept(j, n)'
<1>1. dlq[j] \in Nat /\ dlq'[j] \in Nat /\ dlq'[j] >= dlq[j]
  BY TypeParts, CountsStep DEF CountsOK
<1>2. CASE j \in extracted
  BY <1>2, Monotone DEF Kept
<1>3. CASE dlq[j] > n
  BY <1>1, <1>3 DEF Kept
<1>4. ASSUME NEW i \in Ids, stream[i].job = j, Live(i) PROVE Kept(j, n)'
  <2>1. CASE Live(i)'
    <3>1. i \in Ids' /\ stream'[i].job = j
      BY <1>4, StreamTyped, StepCarries DEF Carried, Ids
    <3> QED BY <2>1, <3>1 DEF Kept
  <2>2. ASSUME NEW c \in Consumers, pc[c] \in {"ack", "delete"}, i = Current(c)
        PROVE  Kept(j, n)'
    <3>1. j \in extracted
      BY <1>4, <2>2 DEF BatchInv, Job
    <3> QED BY <1>2, <3>1
  <2>3. ASSUME NEW c \in Consumers, pc[c] = "retry", i = Current(c), Settle(c), last' = last
        PROVE  Kept(j, n)'
    <3>1. Job(c) = j
      BY <1>4, <2>3 DEF Job
    <3>2. CASE Added(Job(c), Attempt(c) + 1)
      BY <3>1, <3>2, NewLive
    <3>3. CASE dlq' = [dlq EXCEPT ![Job(c)] = @ + 1]
      <4>1. dlq'[j] = dlq[j] + 1
        BY <3>1, <3>3, TypeParts, Zenon DEF CountsOK
      <4>2. dlq'[j] > n
        BY <1>1, <4>1
      <4> QED BY <4>2 DEF Kept
    <3> QED BY <2>3, <3>2, <3>3, StreamSettled
  <2> QED BY <1>4, <2>1, <2>2, <2>3, LiveStep
<1> QED BY <1>2, <1>3, <1>4 DEF Kept

LEMMA KeptStep ==
  ASSUME TypeOK, GroupInv, JobInv, BatchInv, KeptInv, Next
  PROVE  KeptInv'
<1>1. /\ accepted \subseteq Jobs
      /\ replaying # None => replaying \in Jobs /\ dlq[replaying] > 0
  BY TypeParts DEF RestOK, JobInv
<1>2. \A j \in Jobs : dlq[j] \in Nat /\ dlq'[j] \in Nat
  BY TypeParts, CountsStep DEF CountsOK
<1>3. \A j \in accepted' : j \in accepted \/ (group /\ Enqueue(j) /\ j \in Jobs)
  <2>1. CASE accepted' = accepted
    BY <2>1
  <2>2. ASSUME NEW j \in Jobs, Enqueue(j) \/ ReplayAdd(j)
        PROVE  accepted' = accepted \/ (group /\ Enqueue(j) /\ accepted' = accepted \cup {j})
    BY <2>2 DEF Enqueue, ReplayAdd, observers
  <2>3. CASE ReplayDelete \/ ReplayBreaks \/ \E i \in Ids : Lapse(i)
    BY <2>1, <2>3 DEF ReplayDelete, ReplayBreaks, Lapse, observers
  <2>4. ASSUME NEW c \in Consumers,
               \/ Start(c) \/ Stop(c) \/ Crash(c) \/ Claim(c) \/ ClaimFails(c)
               \/ Read(c) \/ ReadFails(c) \/ HandlerReturns(c) \/ HandlerThrows(c)
        PROVE  accepted' = accepted
    BY <2>4 DEF Start, Stop, Crash, Claim, ClaimFails, Read, ReadFails, HandlerReturns,
       HandlerThrows, observers
  <2>5. ASSUME NEW c \in Consumers,
               Xack(c) \/ Xdel(c) \/ AckFails(c) \/ Retry(c) \/ RetryFails(c)
        PROVE  accepted' = accepted
    BY <2>5 DEF Xack, Xdel, AckFails, Retry, RetryFails, observers
  <2> QED BY <2>2, <2>3, <2>4, <2>5 DEF Next, Handling
<1>4. ASSUME NEW j \in accepted' PROVE Kept(j, 0)'
  <2>1. CASE j \in accepted
    <3>1. group /\ Kept(j, 0) /\ j \in Jobs
      BY <1>1, <2>1 DEF GroupInv, KeptInv
    <3>2. CASE ReplayDelete /\ replaying = j
      <4>1. Kept(j, 1) /\ dlq'[j] = dlq[j] - 1
        <5>1. replaying # None /\ dlq' = [dlq EXCEPT ![replaying] = @ - 1]
          BY <3>2 DEF ReplayDelete
        <5> QED BY <3>1, <3>2, <5>1, TypeParts, Zenon DEF KeptInv, CountsOK
      <4>2. CASE j \in extracted \/ dlq[j] > 1
        BY <1>2, <3>1, <4>1, <4>2, Monotone DEF Kept
      <4>3. ASSUME NEW i \in Ids, stream[i].job = j, Live(i) PROVE Kept(j, 0)'
        <5>1. stream' = stream /\ last' = last
          BY <3>2 DEF ReplayDelete
        <5> QED BY <4>3, <5>1 DEF Kept, Live, Undelivered, Ids
      <4> QED BY <4>1, <4>2, <4>3 DEF Kept
    <3>3. CASE ~ (ReplayDelete /\ replaying = j)
      BY <1>2, <3>1, <3>3, KeptCarried
    <3> QED BY <3>2, <3>3
  <2>2. CASE Enqueue(j) /\ j \in Jobs
    <3>1. Added(j, 0)
      BY <2>2, StreamAppended DEF Enqueue
    <3> QED BY <3>1, NewLive
  <2> QED BY <1>3, <2>1, <2>2
<1>5. ASSUME replaying' # None PROVE Kept(replaying, 1)'
  <2>1. CASE replaying' = replaying /\ ~ ReplayDelete
    <3>1. group /\ Kept(replaying, 1) /\ replaying \in Jobs /\ dlq[replaying] >= 1
      BY <1>1, <1>2, <1>5, <2>1 DEF GroupInv, KeptInv
    <3>2. \A j \in Jobs : j = replaying => Kept(j, 1)'
      BY <2>1, <3>1, KeptCarried
    <3> QED BY <2>1, <3>1, <3>2 DEF Kept
  <2>2. ASSUME NEW j \in Jobs, replaying' = j, ReplayAdd(j) PROVE Kept(replaying, 1)'
    <3>1. Added(j, 0)
      BY <2>2, StreamAppended DEF ReplayAdd
    <3>2. Kept(j, 1)'
      BY <3>1, NewLive
    <3> QED BY <2>2, <3>2 DEF Kept
  <2> QED BY <1>5, <2>1, <2>2, ReplayingStep
<1> QED BY <1>4, <1>5 DEF KeptInv

\* Only what is to be delivered is delivered or reclaimed: no step makes an
\* entry active again.
LEMMA LiveBack ==
  ASSUME TypeOK, BatchInv, Next, NEW i \in Ids, Live(i)'
  PROVE  Live(i)
<1>1. stream'[i].state = "pending" \/ (stream'[i].state = "waiting" /\ i > last')
  BY DEF Live, Undelivered
<1>2. i \in Nat /\ last \in Nat /\ last' \in Nat
  BY StreamTyped, StepCarries DEF Carried
<1>3. ASSUME NEW S, NEW s \in {"acked", "deleted"}, Marked(S, s), last' >= last
      PROVE  Live(i)
  <2>1. stream'[i].state = stream[i].state
    BY <1>1, <1>3 DEF Marked
  <2> QED BY <1>1, <1>2, <1>3, <2>1 DEF Live, Undelivered
<1>4. ASSUME NEW j \in Jobs, Enqueue(j) \/ ReplayAdd(j) PROVE Live(i)
  <2>1. last' = last /\ stream' = Append(stream, Entry(j, 0))
    BY <1>4 DEF Enqueue, ReplayAdd
  <2>2. Marked({}, "deleted") /\ last' >= last
    BY <1>2, <2>1, StreamAppended
  <2> QED BY <1>3, <2>2
<1>5. ASSUME stream' = stream, last' >= last PROVE Live(i)
  <2>1. Marked({}, "deleted")
    BY <1>5 DEF Marked
  <2> QED BY <1>3, <1>5, <2>1
<1>6. CASE ReplayDelete \/ ReplayBreaks \/ \E k \in Ids : Lapse(k)
  BY <1>2, <1>5, <1>6 DEF ReplayDelete, ReplayBreaks, Lapse, store
<1>7. ASSUME NEW c \in Consumers, Start(c) PROVE Live(i)
  <2>1. stream' = stream /\ last' >= last
    BY <1>7, StreamTyped DEF Start
  <2> QED BY <1>5, <2>1
<1>8. ASSUME NEW c \in Consumers,
             \/ Stop(c) \/ Crash(c) \/ Claim(c) \/ ClaimFails(c)
             \/ HandlerReturns(c) \/ HandlerThrows(c)
      PROVE  Live(i)
  <2>1. stream' = stream /\ last' = last
    BY <1>8 DEF Stop, Crash, Claim, ClaimFails, HandlerReturns, HandlerThrows, store
  <2> QED BY <1>2, <1>5, <2>1
<1>9. ASSUME NEW c \in Consumers, Read(c) \/ ReadFails(c) PROVE Live(i)
  <2>1. Deliver \/ (stream' = stream /\ last' = last)
    BY <1>9 DEF Read, ReadFails
  <2>2. CASE Deliver
    <3>1. /\ stream'[i].state = IF i \in Fresh THEN "pending" ELSE stream[i].state
          /\ Fresh \subseteq Undelivered /\ last' >= last
      BY <2>2, StreamDelivered DEF Marked
    <3>2. CASE i \in Fresh
      BY <3>1, <3>2 DEF Live
    <3>3. CASE i \notin Fresh
      BY <1>1, <1>2, <3>1, <3>3 DEF Live, Undelivered
    <3> QED BY <3>2, <3>3
  <2> QED BY <1>2, <1>5, <2>1, <2>2
<1>10. ASSUME NEW c \in Consumers, Xack(c) \/ Xdel(c) \/ AckFails(c) PROVE Live(i)
  <2>1. pc[c] \in Working /\ last' = last /\ last' >= last
    BY <1>2, <1>10 DEF Xack, Xdel, AckFails, Working
  <2>2. \/ stream' = stream
        \/ \E s \in {"acked", "deleted"} : stream' = With({Current(c)}, s)
    BY <1>10 DEF Xack, Xdel, AckFails, Acked
  <2>3. CASE stream' = stream
    BY <1>5, <2>1, <2>3
  <2>4. ASSUME NEW s \in {"acked", "deleted"}, stream' = With({Current(c)}, s)
        PROVE  Live(i)
    BY <1>3, <2>1, <2>4, StreamMarked
  <2> QED BY <2>2, <2>3, <2>4
<1>11. ASSUME NEW c \in Consumers, Retry(c) \/ RetryFails(c) PROVE Live(i)
  <2>1. /\ pc[c] = "retry" /\ last' = last /\ last' >= last
        /\ Settle(c) \/ stream' = stream
    BY <1>2, <1>11 DEF Retry, RetryFails
  <2> QED BY <1>3, <1>5, <2>1, StreamSettled
<1> QED BY <1>4, <1>6, <1>7, <1>8, <1>9, <1>10, <1>11 DEF Next, Handling

LEMMA ActiveBack ==
  ASSUME TypeOK, BatchInv, Next, NEW i \in Ids, i \in Actives'
  PROVE  i \in Actives
<1>1. CASE Live(i)'
  BY <1>1, LiveBack DEF Actives
<1>2. ASSUME NEW c \in Consumers, i \in batch'[c] PROVE i \in Actives
  <2>1. CASE i \in batch[c]
    BY <2>1 DEF Actives, Held
  <2>2. CASE Claim(c) /\ i \in Claimable
    <3>1. stream[i].state = "pending"
      BY <2>2, TypeParts DEF Claimable, Oldest, IdleOK
    <3> QED BY <3>1 DEF Actives, Live
  <2>3. CASE Read(c) /\ i \in Fresh
    BY <2>3, FreshClosed DEF Actives, Live
  <2> QED BY <1>2, <2>1, <2>2, <2>3, ConsumerStep DEF Gets
<1> QED BY <1>1, <1>2 DEF Actives, Held

\* A step that adds neither an entry nor a dead letter of job j.
LEMMA SoleKept ==
  ASSUME TypeOK, BatchInv, Next, NEW j \in Jobs, Sole(j),
         dlq'[j] = dlq[j], Room(j)' = Room(j),
         \A i \in Ids' : stream'[i].job = j => i \in Ids
  PROVE  Sole(j)'
<1>1. ASSUME NEW i \in Ids', stream'[i].job = j, i \in Actives'
      PROVE  i \in Ids /\ stream[i].job = j /\ i \in Actives
  <2>1. i \in Ids
    BY <1>1
  <2> QED BY <1>1, <2>1, ActiveBack, StepCarries DEF Carried
<1>2. dlq'[j] <= Room(j)'
  BY DEF Sole
<1>3. \A i \in Ids' : stream'[i].job = j /\ i \in Actives' => dlq'[j] + 1 <= Room(j)'
  BY <1>1 DEF Sole
<1>4. \A i, k \in Ids' :
        stream'[i].job = j /\ i \in Actives' /\ stream'[k].job = j /\ k \in Actives'
          => i = k
  BY <1>1 DEF Sole
<1> QED BY <1>2, <1>3, <1>4 DEF Sole

\* A step that adds an entry of job j when no other is active, and there is
\* room.
LEMMA SoleAdded ==
  ASSUME TypeOK, Next, NEW j \in Jobs, NEW a, Added(j, a),
         dlq'[j] \in Nat, dlq'[j] + 1 <= Room(j)',
         \A i \in Ids : stream[i].job = j => i \notin Actives'
  PROVE  Sole(j)'
<1>1. \A i \in Ids' : stream'[i].job = j /\ i \in Actives' => i = Len(stream) + 1
  <2>1. \A i \in Ids' : i \in Ids \/ i = Len(stream) + 1
    BY StreamTyped DEF Added, Ids
  <2>2. \A i \in Ids : stream'[i].job = stream[i].job
    BY StepCarries DEF Carried
  <2> QED BY <2>1, <2>2
<1>2. Room(j)' \in {1, 2}
  BY DEF Room
<1>3. dlq'[j] <= Room(j)'
  BY <1>2
<1>4. \A i, k \in Ids' :
        stream'[i].job = j /\ i \in Actives' /\ stream'[k].job = j /\ k \in Actives'
          => i = k
  BY <1>1
<1> QED BY <1>3, <1>4 DEF Sole

\* Settling an entry ends it, unless another consumer has it in hand.
LEMMA SettledInactive ==
  ASSUME TypeOK, BatchInv, HandInv, Next, NEW c \in Consumers, pc[c] = "retry",
         Settle(c), last' = last, Current(c) \notin batch'[c],
         \A d \in Consumers \ {c} : batch'[d] = batch[d],
         Job(c) \notin split, Sole(Job(c))
  PROVE  /\ \A i \in Ids : stream[i].job = Job(c) => i \notin Actives'
         /\ dlq[Job(c)] + 1 <= Room(Job(c))
<1>1. /\ Current(c) \in batch[c] /\ Current(c) \in Ids
      /\ stream[Current(c)].job = Job(c)
  BY CurrentHeld DEF Working
<1>2. Current(c) \in Actives
  BY <1>1 DEF Actives, Held
<1>3. Current(c) \notin Actives'
  <2>1. stream'[Current(c)].state = "deleted"
    BY <1>1, StreamSettled DEF Marked
  <2>2. \A d \in Consumers : Current(c) \notin batch'[d]
    BY <1>1 DEF HandInv, OneHandler
  <2>3. PICK i \in Ids : i = Current(c)
    BY <1>1
  <2>4. i \notin Actives'
    BY <2>1, <2>2, <2>3 DEF Actives, Live, Held, Undelivered
  <2> QED BY <2>3, <2>4 DEF Actives
<1>4. ASSUME NEW i \in Ids, stream[i].job = Job(c), i \in Actives'
      PROVE  FALSE
  <2>1. i \in Actives
    BY <1>4, ActiveBack
  <2>2. i = Current(c)
    BY <1>1, <1>2, <1>4, <2>1 DEF Sole
  <2> QED BY <1>3, <1>4, <2>2
<1> QED BY <1>1, <1>2, <1>4 DEF Sole

LEMMA SoleStep ==
  ASSUME TypeOK, JobInv, BatchInv, HandInv, SoleInv, Next
  PROVE  SoleInv'
<1>1. \A j \in Jobs : dlq[j] \in Nat /\ dlq'[j] \in Nat
  BY TypeParts, CountsStep DEF CountsOK
<1>2. \A i \in Ids : stream[i].job \in queued
  BY DEF JobInv
<1> SUFFICES ASSUME NEW j \in Jobs, j \notin split'
             PROVE  Sole(j)'
  BY DEF SoleInv
<1>3. j \notin split /\ Sole(j)
  BY Monotone DEF SoleInv
<1>4. Room(j) \in {1, 2} /\ (replaying = None => Room(j) = 1)
  BY QueueAssumption DEF Room
<1>5. ASSUME Len(stream') = Len(stream), dlq'[j] = dlq[j], Room(j)' = Room(j)
      PROVE  Sole(j)'
  BY <1>3, <1>5, SoleKept DEF Ids
<1>6. ASSUME NEW k \in Jobs, Enqueue(k) PROVE Sole(j)'
  <2>1. Added(k, 0) /\ dlq' = dlq /\ replaying' = replaying /\ k \notin queued
    BY <1>6, StreamAppended DEF Enqueue
  <2>2. CASE k = j
    <3>1. dlq[j] = 0
      BY <1>1, <2>1, <2>2 DEF JobInv
    <3>2. \A i \in Ids : stream[i].job # j
      BY <1>2, <2>1, <2>2
    <3>3. dlq'[j] + 1 <= Room(j)'
      BY <2>1, <3>1 DEF Room
    <3> QED BY <1>1, <2>1, <2>2, <3>2, <3>3, SoleAdded
  <2>3. CASE k # j
    <3>1. \A i \in Ids' : stream'[i].job = j => i \in Ids
      BY <2>1, <2>3, StreamTyped DEF Added, Ids
    <3> QED BY <1>3, <2>1, <3>1, SoleKept DEF Room
  <2> QED BY <2>2, <2>3
<1>7. ASSUME NEW k \in Jobs, ReplayAdd(k) PROVE Sole(j)'
  <2>1. /\ Added(k, 0) /\ dlq' = dlq /\ replaying = None /\ replaying' = k
        /\ dlq[k] > 0
    BY <1>7, StreamAppended DEF ReplayAdd
  <2>2. CASE k = j
    <3>1. dlq[j] = 1 /\ \A i \in Ids : stream[i].job = j => i \notin Actives
      BY <1>1, <1>3, <1>4, <2>1, <2>2 DEF Sole
    <3>2. \A i \in Ids : stream[i].job = j => i \notin Actives'
      BY <3>1, ActiveBack
    <3>3. dlq'[j] + 1 <= Room(j)'
      BY <2>1, <2>2, <3>1 DEF Room
    <3> QED BY <1>1, <2>1, <2>2, <3>2, <3>3, SoleAdded
  <2>3. CASE k # j
    <3>1. \A i \in Ids' : stream'[i].job = j => i \in Ids
      BY <2>1, <2>3, StreamTyped DEF Added, Ids
    <3>2. Room(j)' = Room(j)
      BY <1>4, <2>1, <2>3 DEF Room
    <3> QED BY <1>3, <2>1, <3>1, <3>2, SoleKept
  <2> QED BY <2>2, <2>3
<1>8. CASE ReplayDelete
  <2>1. /\ stream' = stream /\ replaying \in Jobs /\ replaying' = None
        /\ dlq' = [dlq EXCEPT ![replaying] = @ - 1]
    BY <1>8, TypeParts DEF ReplayDelete, RestOK
  <2>2. Room(j)' = 1
    BY <2>1, QueueAssumption DEF Room
  <2>3. CASE replaying # j
    <3>1. dlq'[j] = dlq[j]
      BY <2>1, <2>3, TypeParts, Zenon DEF CountsOK
    <3>2. Room(j) = 1
      BY <2>3 DEF Room
    <3> QED BY <1>5, <2>1, <2>2, <3>1, <3>2
  <2>4. CASE replaying = j
    <3>1. dlq'[j] = dlq[j] - 1
      BY <2>1, <2>4, TypeParts, Zenon DEF CountsOK
    <3>2. Room(j) = 2
      BY <2>4 DEF Room
    <3>3. \A i \in Ids' : i \in Ids /\ stream'[i].job = stream[i].job
                          /\ (i \in Actives' => i \in Actives)
      BY <2>1, ActiveBack DEF Ids
    <3>4. dlq'[j] <= Room(j)'
      BY <1>1, <1>3, <2>2, <3>1, <3>2 DEF Sole
    <3>5. \A i \in Ids' : stream'[i].job = j /\ i \in Actives' => dlq'[j] + 1 <= Room(j)'
      BY <1>1, <1>3, <2>2, <3>1, <3>2, <3>3 DEF Sole
    <3>6. \A i, k \in Ids' :
            stream'[i].job = j /\ i \in Actives' /\ stream'[k].job = j /\ k \in Actives'
              => i = k
      BY <1>3, <3>3 DEF Sole
    <3> QED BY <3>4, <3>5, <3>6 DEF Sole
  <2> QED BY <2>3, <2>4
<1>9. CASE ReplayBreaks
  <2>1. stream' = stream /\ dlq' = dlq /\ replaying' = None /\ replaying # j
    BY <1>9 DEF ReplayBreaks, store
  <2>2. Room(j)' = 1 /\ Room(j) = 1
    BY <2>1, QueueAssumption DEF Room
  <2> QED BY <1>5, <2>1, <2>2
<1>10. ASSUME NEW i \in Ids, Lapse(i) PROVE Sole(j)'
  BY <1>5, <1>10 DEF Lapse, Room
<1>11. ASSUME NEW c \in Consumers,
              \/ Start(c) \/ Stop(c) \/ Crash(c) \/ Claim(c) \/ ClaimFails(c)
              \/ HandlerReturns(c) \/ HandlerThrows(c)
       PROVE  Sole(j)'
  <2>1. stream' = stream /\ dlq' = dlq /\ replaying' = replaying
    BY <1>11 DEF Start, Stop, Crash, Claim, ClaimFails, HandlerReturns, HandlerThrows,
       store
  <2> QED BY <1>5, <2>1 DEF Room
<1>12. ASSUME NEW c \in Consumers, Read(c) \/ ReadFails(c) PROVE Sole(j)'
  <2>1. /\ Deliver \/ stream' = stream
        /\ dlq' = dlq /\ replaying' = replaying
    BY <1>12 DEF Read, ReadFails
  <2>2. Len(stream') = Len(stream)
    BY <2>1, StreamDelivered
  <2> QED BY <1>5, <2>1, <2>2 DEF Room
<1>13. ASSUME NEW c \in Consumers, Xack(c) \/ Xdel(c) \/ AckFails(c) PROVE Sole(j)'
  <2>1. pc[c] \in Working /\ last' = last /\ dlq' = dlq /\ replaying' = replaying
    BY <1>13 DEF Xack, Xdel, AckFails, Working
  <2>2. \/ stream' = stream
        \/ \E s \in {"acked", "deleted"} : stream' = With({Current(c)}, s)
    BY <1>13 DEF Xack, Xdel, AckFails, Acked
  <2>3. Len(stream') = Len(stream)
    BY <2>1, <2>2, StreamMarked
  <2> QED BY <1>5, <2>1, <2>3 DEF Room
<1>14. ASSUME NEW c \in Consumers, Retry(c) \/ RetryFails(c) PROVE Sole(j)'
  <2>1. /\ pc[c] = "retry" /\ last' = last /\ replaying' = replaying
        /\ Settle(c) \/ (stream' = stream /\ dlq' = dlq)
    BY <1>14 DEF Retry, RetryFails
  <2>2. Room(j)' = Room(j)
    BY <2>1 DEF Room
  <2>3. CASE stream' = stream /\ dlq' = dlq
    BY <1>5, <2>2, <2>3
  <2>4. CASE Settle(c) /\ Job(c) # j
    <3>1. \/ Len(stream') = Len(stream) /\ dlq' = [dlq EXCEPT ![Job(c)] = @ + 1]
          \/ Added(Job(c), Attempt(c) + 1) /\ dlq' = dlq
      BY <2>1, <2>4, StreamSettled
    <3>2. dlq'[j] = dlq[j]
      BY <2>4, <3>1, TypeParts, Zenon DEF CountsOK
    <3>3. \A i \in Ids' : stream'[i].job = j => i \in Ids
      BY <2>4, <3>1, StreamTyped DEF Added, Ids
    <3> QED BY <1>3, <2>2, <3>2, <3>3, SoleKept
  <2>5. CASE Settle(c) /\ Job(c) = j
    <3>1. /\ Current(c) \notin batch'[c]
          /\ \A d \in Consumers \ {c} : batch'[d] = batch[d]
      BY <1>14, TypeParts DEF Retry, RetryFails, NextEntry, BatchOK
    <3>2. /\ \A i \in Ids : stream[i].job = j => i \notin Actives'
          /\ dlq[j] + 1 <= Room(j)
      BY <1>3, <2>1, <2>5, <3>1, SettledInactive
    <3>3. CASE Len(stream') = Len(stream) /\ dlq' = [dlq EXCEPT ![Job(c)] = @ + 1]
      <4>1. dlq'[j] = dlq[j] + 1
        BY <2>5, <3>3, TypeParts, Zenon DEF CountsOK
      <4>2. \A i \in Ids' : stream'[i].job = j => i \notin Actives'
        BY <3>2, <3>3, StepCarries DEF Carried, Ids
      <4>3. dlq'[j] <= Room(j)'
        BY <2>2, <3>2, <4>1
      <4> QED BY <4>2, <4>3 DEF Sole
    <3>4. CASE Added(Job(c), Attempt(c) + 1) /\ dlq' = dlq
      BY <1>1, <2>2, <2>5, <3>2, <3>4, SoleAdded
    <3> QED BY <2>1, <2>5, <3>3, <3>4, StreamSettled
  <2> QED BY <2>1, <2>3, <2>4, <2>5
<1> QED BY <1>6, <1>7, <1>8, <1>9, <1>10, <1>11, <1>12, <1>13, <1>14
        DEF Next, Handling

LEMMA InvInit == Init => IInv
<1> SUFFICES ASSUME Init PROVE IInv
  OBVIOUS
<1>1. /\ stream = <<>> /\ Len(stream) = 0 /\ Ids = {} /\ stream \in Seq(Entries)
  BY EmptySeq DEF Init, Ids
<1>2. \A j \in Jobs : dlq[j] = 0
  BY DEF Init
<1>3. TypeOK
  <2>1. IdleOK
    BY DEF Init, IdleOK
  <2>2. BatchOK
    BY DEF Init, BatchOK, Labels, Working
  <2>3. RestOK
    <3>1. group \in BOOLEAN
      BY Zenon DEF Init
    <3>2. faults \in 0..MaxFaults /\ lapses \in 0..MaxLapses /\ replays \in 0..MaxReplays
      BY QueueAssumption DEF Init
    <3> QED BY <3>1, <3>2 DEF Init, RestOK
  <2>4. CountsOK
    BY QueueAssumption DEF Init, CountsOK
  <2>5. last \in 0..Len(stream)
    BY <1>1 DEF Init
  <2> QED BY <1>1, <2>1, <2>2, <2>3, <2>4, <2>5, TypeParts
<1>4. GroupInv /\ JobInv /\ BatchInv /\ AttemptInv /\ HandInv /\ KeptInv
  BY <1>1, <1>2 DEF Init, GroupInv, JobInv, BatchInv, AttemptInv, HandInv, KeptInv,
     DeadLetterEarned, OneHandler
<1>5. SoleInv
  BY <1>1, <1>2 DEF SoleInv, Sole, Room
<1> QED BY <1>3, <1>4, <1>5 DEF IInv

LEMMA InvStep == IInv /\ [Next]_vars => IInv'
<1> SUFFICES ASSUME IInv, [Next]_vars PROVE IInv'
  OBVIOUS
<1>1. CASE Next
  BY <1>1, TypeStep, GroupStep, JobStep, BatchInvStep, AttemptStep, HandStep, KeptStep,
     SoleStep DEF IInv
<1>2. CASE UNCHANGED vars
  <2>1. TypeOK'
    BY <1>2 DEF vars, store, bounds, observers, IInv, TypeOK, Ids
  <2>2. GroupInv' /\ JobInv'
    BY <1>2 DEF vars, store, bounds, observers, IInv, GroupInv, JobInv, Ids
  <2>3. BatchInv' /\ AttemptInv'
    BY <1>2 DEF vars, store, bounds, observers, IInv, BatchInv, AttemptInv,
       DeadLetterEarned, Job, Attempt, Current, Ids
  <2>4. HandInv'
    BY <1>2 DEF vars, store, bounds, observers, IInv, HandInv, OneHandler
  <2>5. KeptInv'
    BY <1>2 DEF vars, store, bounds, observers, IInv, KeptInv, Kept, Live, Undelivered, Ids
  <2>6. SoleInv'
    BY <1>2 DEF vars, store, bounds, observers, IInv, SoleInv, Sole, Room, Actives, Live,
       Held, Undelivered, Ids
  <2> QED BY <2>1, <2>2, <2>3, <2>4, <2>5, <2>6 DEF IInv
<1> QED BY <1>1, <1>2

LEMMA Invariance == Spec => []IInv
BY InvInit, InvStep, PTL DEF Spec

(***************************************************************************)
(* Theorems.                                                               *)
(***************************************************************************)

(* The queue, its consumers and the replay keep their types: in particular *)
(* only entries the group holds as pending are ever reclaimed              *)
(* (extraction.ts:102).                                                    *)
THEOREM TypeCorrect == Spec => []TypeOK
<1>1. IInv => TypeOK
  BY DEF IInv
<1> QED BY <1>1, Invariance, PTL

(* Restarts, lost replies and failures alone never put an entry in the     *)
(* hands of two consumers: its handler must have outlived the idle time    *)
(* (extraction.ts:102-114).                                                *)
THEOREM HandlersAlone == Spec => []OneHandler
<1>1. IInv => OneHandler
  BY DEF IInv, HandInv
<1> QED BY <1>1, Invariance, PTL

LEMMA LostNever == ASSUME IInv PROVE NoJobLost
<1>1. SUFFICES ASSUME NEW j \in accepted, j \notin extracted
               PROVE  Copies(j) > 0
  BY DEF NoJobLost
<1> DEFINE live == {i \in Ids : stream[i].job = j /\ Live(i)}
<1>2. TypeOK /\ Kept(j, 0) /\ j \in Jobs
  BY TypeParts DEF IInv, KeptInv, RestOK
<1>3. IsFiniteSet(live)
  <2>1. live \in SUBSET Ids /\ IsFiniteSet(Ids)
    BY <1>2, StreamTyped, FS_Interval
  <2> HIDE DEF live
  <2> QED BY <2>1, FS_Subset
<1>4. Cardinality(live) \in Nat /\ (Cardinality(live) = 0 => live = {})
  <2> HIDE DEF live
  <2> QED BY <1>3, FS_CardinalityType, FS_EmptySet
<1>5. dlq[j] \in Nat
  BY <1>2, TypeParts DEF CountsOK
<1>6. dlq[j] > 0 \/ live # {}
  BY <1>1, <1>2 DEF Kept
<1>7. Copies(j) = Cardinality(live) + dlq[j]
  BY DEF Copies
<1> HIDE DEF live
<1> QED BY <1>4, <1>5, <1>6, <1>7

(* Between acknowledgement, deletion, requeueing, dead-lettering, replay   *)
(* and any crash there is no moment at which a job added to the group is   *)
(* neither extracted, nor to be delivered, nor in the dead letters         *)
(* (extraction.ts:116-157).                                                *)
THEOREM NothingLost == Spec => []NoJobLost
<1>1. IInv => NoJobLost
  BY LostNever
<1> QED BY <1>1, Invariance, PTL

(* No requeue, crash, reclaim or replay makes a dead letter of a job       *)
(* before maxAttempts attempts at it have failed, by the handler or by the *)
(* acknowledgement of what it did (extraction-consumer.ts:106-111).        *)
THEOREM GivenUpLast == Spec => []DeadLetterEarned
<1>1. IInv => DeadLetterEarned
  BY DEF IInv, AttemptInv
<1> QED BY <1>1, Invariance, PTL

(* However its attempts, acks, requeues and crashes fall, a job that is in *)
(* one hand is in one place, or in two while its dead letter is being      *)
(* replayed (extraction.ts:121-157, OPT-56).                               *)
THEOREM OneCopy == Spec => []SingleCopy
<1>1. ASSUME IInv PROVE SingleCopy
  <2> SUFFICES ASSUME NEW j \in Jobs \ split
               PROVE  Copies(j) <= IF replaying = j THEN 2 ELSE 1
    BY DEF SingleCopy
  <2> DEFINE live == {i \in Ids : stream[i].job = j /\ Live(i)}
  <2>1. TypeOK /\ Sole(j) /\ dlq[j] \in Nat
    BY <1>1, TypeParts DEF IInv, SoleInv, CountsOK
  <2>2. Copies(j) = Cardinality(live) + dlq[j]
    BY DEF Copies
  <2>3. CASE live = {}
    <3>1. Cardinality(live) = 0
      BY <2>3, FS_EmptySet
    <3> HIDE DEF live
    <3> QED BY <2>1, <2>2, <3>1 DEF Sole, Room
  <2>4. CASE live # {}
    <3>1. PICK i \in Ids : stream[i].job = j /\ Live(i)
      BY <2>4
    <3>2. live = {i}
      BY <2>1, <3>1 DEF Sole, Actives
    <3>3. dlq[j] + 1 <= Room(j)
      BY <2>1, <3>1 DEF Sole, Actives
    <3>4. Cardinality(live) = 1
      BY <3>2, FS_Singleton
    <3> HIDE DEF live
    <3> QED BY <2>1, <2>2, <3>3, <3>4 DEF Room
  <2> QED BY <2>3, <2>4
<1> QED BY <1>1, Invariance, PTL

(***************************************************************************)
(* The queue implements the safety of AtLeastOnce.                         *)
(***************************************************************************)

\* While no job is lost the standing of each is decided without its copies.
Standing ==
  [j \in Jobs |-> IF j \notin accepted THEN "none"
                  ELSE IF j \in extracted THEN "done"
                  ELSE IF dlq[j] > 0 THEN "dead" ELSE "owed"]

LEMMA StatusIsStanding ==
  ASSUME NoJobLost
  PROVE  [j \in Jobs |-> Status(j)] = Standing
<1>1. ASSUME NEW j \in Jobs
      PROVE  Status(j) = IF j \notin accepted THEN "none"
                         ELSE IF j \in extracted THEN "done"
                         ELSE IF dlq[j] > 0 THEN "dead" ELSE "owed"
  BY <1>1 DEF NoJobLost, Status
<1> QED BY <1>1 DEF Standing

\* One job's standing changes when only that job is accepted, extracted, added
\* to the dead letters or removed from them.
LEMMA OneMoves ==
  ASSUME NEW j \in Jobs,
         \A k \in Jobs \ {j} : /\ k \in accepted' <=> k \in accepted
                               /\ k \in extracted' <=> k \in extracted
                               /\ dlq'[k] = dlq[k]
  PROVE  Standing' = [Standing EXCEPT ![j] = Standing'[j]]
<1>1. \A k \in Jobs : k # j => Standing'[k] = Standing[k]
  BY Zenon DEF Standing
<1>2. /\ Standing = [k \in Jobs |-> Standing[k]]
      /\ Standing' = [k \in Jobs |-> Standing'[k]]
  BY DEF Standing
<1> HIDE DEF Standing
<1> QED BY <1>1, <1>2

\* How a step may change the standing of one job.
Moves(j) ==
  \/ Standing[j] = "none" /\ Standing'[j] = "owed"
  \/ Standing[j] \in {"owed", "dead"} /\ Standing'[j] = "done"
  \/ Standing[j] = "owed" /\ Standing'[j] = "dead"
  \/ Standing[j] = "dead" /\ Standing'[j] = "owed"

LEMMA StandingSame ==
  ASSUME NEW j \in Jobs, Standing' = [Standing EXCEPT ![j] = Standing'[j]],
         Standing'[j] = Standing[j]
  PROVE  Standing' = Standing
<1>1. Standing = [k \in Jobs |-> Standing[k]]
  BY DEF Standing
<1> HIDE DEF Standing
<1> QED BY <1>1

LEMMA StandingStep ==
  ASSUME IInv, IInv', [Next]_vars
  PROVE  \/ Standing' = Standing
         \/ \E j \in Jobs : Standing' = [Standing EXCEPT ![j] = Standing'[j]] /\ Moves(j)
<1>1. \A j \in Jobs : dlq[j] \in Nat /\ dlq'[j] \in Nat
  <2>1. TypeOK /\ TypeOK'
    BY DEF IInv
  <2> QED BY <2>1, TypeParts DEF CountsOK, TypeOK
<1>2. \A j \in Jobs : dlq[j] > 0 \/ j \in extracted \/ j \in accepted => j \in queued
  BY TypeParts DEF IInv, JobInv, RestOK
<1>3. CASE UNCHANGED <<accepted, extracted, dlq>>
  BY <1>3 DEF Standing
<1>4. ASSUME NEW j \in Jobs, Enqueue(j) PROVE Moves(j) \/ Standing'[j] = Standing[j]
  BY <1>1, <1>2, <1>4 DEF Enqueue, Moves, Standing
<1>5. ASSUME NEW j \in Jobs, Enqueue(j)
      PROVE  Standing' = [Standing EXCEPT ![j] = Standing'[j]]
  <2>1. dlq' = dlq /\ extracted' = extracted /\ accepted' \in {accepted, accepted \cup {j}}
    BY <1>5 DEF Enqueue
  <2> QED BY <2>1, OneMoves
<1>6. CASE ReplayDelete
  <2>1. /\ replaying \in Jobs /\ UNCHANGED <<accepted, extracted>>
        /\ dlq' = [dlq EXCEPT ![replaying] = @ - 1]
    BY <1>6, TypeParts DEF ReplayDelete, RestOK, IInv, observers
  <2>2. \A k \in Jobs \ {replaying} : dlq'[k] = dlq[k]
    BY <2>1, TypeParts, Zenon DEF IInv, CountsOK
  <2>3. dlq'[replaying] = dlq[replaying] - 1 /\ dlq[replaying] > 0
    <3>1. dlq \in [Jobs -> Nat]
      BY TypeParts DEF IInv, CountsOK
    <3> QED BY <2>1, <3>1, <1>6 DEF IInv, JobInv, ReplayDelete
  <2>4. Standing' = [Standing EXCEPT ![replaying] = Standing'[replaying]]
    BY <2>1, <2>2, OneMoves
  <2>5. Moves(replaying) \/ Standing'[replaying] = Standing[replaying]
    BY <1>1, <2>1, <2>3 DEF Moves, Standing
  <2> QED BY <2>1, <2>4, <2>5, StandingSame
<1>7. ASSUME NEW c \in Consumers, HandlerReturns(c)
      PROVE  \/ Standing' = Standing
             \/ \E j \in Jobs : Standing' = [Standing EXCEPT ![j] = Standing'[j]] /\ Moves(j)
  <2>1. /\ Job(c) \in Jobs /\ UNCHANGED <<accepted, dlq>>
        /\ extracted' = extracted \cup {Job(c)}
    BY <1>7, CurrentHeld DEF HandlerReturns, IInv, Working, store
  <2>2. PICK j \in Jobs : extracted' = extracted \cup {j}
    BY <2>1
  <2>3. Standing' = [Standing EXCEPT ![j] = Standing'[j]]
    BY <2>1, <2>2, OneMoves
  <2>4. Moves(j) \/ Standing'[j] = Standing[j]
    BY <2>1, <2>2 DEF Moves, Standing
  <2> QED BY <2>3, <2>4, StandingSame
<1>8. ASSUME NEW c \in Consumers, Retry(c) \/ RetryFails(c)
      PROVE  \/ Standing' = Standing
             \/ \E j \in Jobs : Standing' = [Standing EXCEPT ![j] = Standing'[j]] /\ Moves(j)
  <2>1. /\ Job(c) \in Jobs /\ UNCHANGED <<accepted, extracted>>
        /\ dlq' = dlq \/ dlq' = [dlq EXCEPT ![Job(c)] = @ + 1]
    BY <1>8, CurrentHeld DEF Retry, RetryFails, Settle, IInv, Working, observers
  <2>2. PICK j \in Jobs : dlq' = dlq \/ dlq' = [dlq EXCEPT ![j] = @ + 1]
    BY <2>1
  <2>3. \A k \in Jobs \ {j} : dlq'[k] = dlq[k]
    BY <2>2, TypeParts, Zenon DEF IInv, CountsOK
  <2>4. dlq'[j] = dlq[j] \/ dlq'[j] = dlq[j] + 1
    BY <2>2, TypeParts, Zenon DEF IInv, CountsOK
  <2>5. Standing' = [Standing EXCEPT ![j] = Standing'[j]]
    BY <2>1, <2>3, OneMoves
  <2>6. Moves(j) \/ Standing'[j] = Standing[j]
    BY <1>1, <2>1, <2>4 DEF Moves, Standing
  <2> QED BY <2>5, <2>6, StandingSame
<1>9. \/ UNCHANGED <<accepted, extracted, dlq>>
      \/ \E j \in Jobs : Enqueue(j)
      \/ ReplayDelete
      \/ \E c \in Consumers : HandlerReturns(c) \/ Retry(c) \/ RetryFails(c)
  BY DEF Next, ReplayAdd, ReplayBreaks, Lapse, Start, Stop, Crash, Claim, ClaimFails,
     Read, ReadFails, Handling, HandlerThrows, Xack, Xdel, AckFails, vars, store, observers
<1> QED BY <1>3, <1>4, <1>5, <1>6, <1>7, <1>8, <1>9, StandingSame

(* Whatever is rejected, crashes or lapses, a job the queue has accepted   *)
(* is owed until it is extracted or dead-lettered, a dead letter stays one *)
(* until it is replayed or extracted after all, and no job is simply gone: *)
(* the safety of AtLeastOnce.                                              *)
THEOREM ImplementsQueueSafety == Spec => Delivery!Safety
<1>1. Init => Delivery!Init
  <2> SUFFICES ASSUME Init PROVE [j \in Jobs |-> Status(j)] = [j \in Jobs |-> "none"]
    BY DEF Delivery!Init
  <2>1. \A j \in Jobs : Status(j) = "none"
    BY DEF Init, Status
  <2> QED BY <2>1
<1>2. (/\ IInv /\ IInv' /\ [Next]_vars
       /\ [j \in Jobs |-> Status(j)] = Standing
       /\ ([j \in Jobs |-> Status(j)] = Standing)')
      => [Delivery!Next]_([j \in Jobs |-> Status(j)])
  <2> SUFFICES ASSUME IInv, IInv', [Next]_vars,
                      [j \in Jobs |-> Status(j)] = Standing,
                      [j \in Jobs |-> Status(j)]' = Standing'
               PROVE  [Delivery!Next]_([j \in Jobs |-> Status(j)])
    OBVIOUS
  <2>1. CASE Standing' = Standing
    BY <2>1
  <2>2. ASSUME NEW j \in Jobs, Standing' = [Standing EXCEPT ![j] = Standing'[j]], Moves(j)
        PROVE  Delivery!Next
    <3>1. Delivery!Accept(j) \/ Delivery!Finish(j) \/ Delivery!Bury(j) \/ Delivery!Replay(j)
      BY <2>2 DEF Moves, Delivery!Accept, Delivery!Finish, Delivery!Bury,
         Delivery!Replay, Delivery!Move
    <3> QED BY <3>1 DEF Delivery!Next
  <2> QED BY <2>1, <2>2, StandingStep
<1>3. IInv => [j \in Jobs |-> Status(j)] = Standing
  BY LostNever, StatusIsStanding
<1> QED BY <1>1, <1>2, <1>3, Invariance, PTL DEF Spec, Delivery!Safety
=============================================================================
