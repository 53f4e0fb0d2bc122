---------------------------- MODULE EvidenceLedger ----------------------------
(***************************************************************************)
(* The evidence-authority ledger of one Semantic (packages/neo4j/src/      *)
(* evidence-authority-ledger.ts), its writers (capture, adjudication,      *)
(* revocation), and the reader that derives a clearance from it and from   *)
(* the raw signal edges (read, clearance).                                 *)
(*                                                                         *)
(* A writer holds the lock on the ledger node from its first statement to  *)
(* its commit, so one writing transaction is one action, except that       *)
(* captureCase() counts the raw edges, which no lock covers, one statement *)
(* before it appends.  A reading transaction takes no lock: under Neo4j's  *)
(* read-committed isolation each of its statements sees what is committed  *)
(* when it runs.                                                           *)
(*                                                                         *)
(* The operation id of an event is a digest of who asks, the target and    *)
(* the action, so an event of the model is those three.                    *)
(***************************************************************************)
EXTENDS Naturals, Sequences, FiniteSets

CONSTANTS Signals,    \* source episode and kind of a signal, and so its case
          Principals, \* callers of the ledger's own operations
          Coverage,   \* the target that is not a case
          None,
          MaxEvents   \* bound: events of the ledger

ASSUME LedgerAssumption ==
  /\ Coverage \notin Signals /\ None \notin Signals
  /\ Signals \cap Principals = {}
  /\ MaxEvents \in Nat

VARIABLES
  history,  \* the ledger's events in the order of their sequence numbers
  edge,     \* edge[s]: its CONTRADICTS or CORRECTS edge, and how it is dated
  tx,       \* the capture that counted no raw edge and holds the lock
  reply,    \* the last answer that reached a writer
  reader    \* where a clearance is, what it has read and its verdict

vars == <<history, edge, tx, reply, reader>>

\* The ledger's own operations, and those of its review modules.
Openings ==
  [by : Principals, target : {Coverage}, action : {"opened"}]
    \cup [by : Principals, target : Signals, action : {"case_opened"}]
Adjudications ==
  [by : Principals, target : Signals,
   action : {"rejected", "resolution_started", "resolved"}]
Revocations == [by : Principals, target : {Coverage}, action : {"revoked"}]
Operations == Openings \cup Adjudications \cup Revocations

\* The two operations of a capture.
CoverageOp(s) == [by |-> s, target |-> Coverage, action |-> "opened"]
CaseOp(s) == [by |-> s, target |-> s, action |-> "case_opened"]

Events ==
  Operations \cup {CoverageOp(s) : s \in Signals} \cup {CaseOp(s) : s \in Signals}
States == {"none", "opened", "revoked", "case_opened", "rejected",
           "resolution_started", "resolved"}

\* A receipt is the sequence number of its event; 0 is a refusal.
NoReply == [to |-> None, sequence |-> 0]
Idle == [at |-> "idle", version |-> 0, cases |-> [s \in Signals |-> "none"],
         verdict |-> "none"]

TypeOK ==
  /\ history \in Seq(Events)
  /\ edge \in [Signals -> {"none", "early", "late"}]
  /\ tx \in Signals \cup {None}
  /\ reply \in [to : Events \cup {None}, sequence : 0..Len(history)]
  /\ reader \in [at : {"idle", "versioned", "listed", "paged"},
                 version : 0..Len(history), cases : [Signals -> States],
                 verdict : {"none", "clear", "coverage-gap", "unavailable",
                            "adjudication-pending", "record-time"}]

Init ==
  /\ history = <<>>
  /\ edge = [s \in Signals |-> "none"]
  /\ tx = None /\ reply = NoReply /\ reader = Idle

----------------------------------------------------------------------------
(* The history.                                                            *)

\* The latest event of a target, by sequence number.
State(h, t) ==
  LET I == {i \in DOMAIN h : h[i].target = t}
  IN IF I = {} THEN "none"
     ELSE h[CHOOSE i \in I : \A j \in I : j <= i].action

Recorded(h, e) == \E i \in DOMAIN h : h[i] = e
Sequence(h, e) == CHOOSE i \in DOMAIN h : h[i] = e

\* What may stand before what, in the events of one target.
Ordered(a, b) ==
  <<a, b>> \in {<<"opened", "revoked">>, <<"case_opened", "rejected">>,
                <<"case_opened", "resolution_started">>,
                <<"case_opened", "resolved">>,
                <<"resolution_started", "resolved">>}

\* validateOrderedHistory(): every transaction refuses a ledger it rejects.
Audited(h) ==
  /\ \A i, j \in DOMAIN h :
       i < j /\ h[i].target = h[j].target => Ordered(h[i].action, h[j].action)
  /\ \A j \in DOMAIN h :
       /\ h[j].action = "revoked" => \E i \in 1..(j - 1) : h[i].action = "opened"
       /\ h[j].action \in {"rejected", "resolution_started"} =>
            \E i \in 1..(j - 1) :
              h[i].target = h[j].target /\ h[i].action = "case_opened"
       /\ h[j].action = "resolved" =>
            \E i \in 1..(j - 1) :
              h[i].target = h[j].target /\ h[i].action = "resolution_started"
       /\ h[j].target # Coverage =>
            /\ \E i \in 1..(j - 1) : h[i].action = "opened"
            /\ \A i \in 1..(j - 1) : h[i].action # "revoked"

----------------------------------------------------------------------------
(* perform(): one operation of a principal.                                *)

Previous(action) ==
  CASE action \in {"opened", "case_opened"} -> "none"
    [] action = "revoked" -> "opened"
    [] action \in {"rejected", "resolution_started"} -> "case_opened"
    [] action = "resolved" -> "resolution_started"

\* Mutant: a case of a coverage that was revoked can still move.
AdmitsRevoked(h, e) ==
  /\ e.target # Coverage => State(h, Coverage) # "none"
  /\ State(h, e.target) = Previous(e.action)

Admits(h, e) ==
  /\ e.target # Coverage => State(h, Coverage) = "opened"
  /\ State(h, e.target) = Previous(e.action)

\* Mutant: the receipt names the event after its own.
AnswersNext(e, n) == reply' = [to |-> e, sequence |-> n + 1]

Answer(e, n) == reply' = [to |-> e, sequence |-> n]

\* Mutant: the guards run before the replay is looked for.
ReplayedLate(h, e) == Recorded(h, e) /\ Admits(h, e)

\* The operation was recorded before: its stored receipt is the answer.
Replayed(h, e) == Audited(h) /\ Recorded(h, e)

\* The transaction commits; its answer may be lost.
Appends(es, e) ==
  /\ Len(history) + Len(es) <= MaxEvents
  /\ history' = history \o es
  /\ Answer(e, Len(history) + Len(es)) \/ reply' = NoReply

Perform(e) ==
  /\ tx = None
  /\ IF Replayed(history, e)
     THEN Answer(e, Sequence(history, e)) /\ UNCHANGED history
     ELSE IF Audited(history) /\ Admits(history, e)
     THEN Appends(<<e>>, e)
     ELSE Answer(e, 0) /\ UNCHANGED history
  /\ UNCHANGED <<edge, tx, reader>>

----------------------------------------------------------------------------
(* captureCase(): a signal's case, and the coverage if it is the first.    *)

\* Both were recorded together, or the case alone under an older coverage.
CaptureReplayed(h, s) ==
  /\ Replayed(h, CaseOp(s))
  /\ IF Recorded(h, CoverageOp(s))
     THEN Sequence(h, CaseOp(s)) = Sequence(h, CoverageOp(s)) + 1
     ELSE State(h, Coverage) # "none"

CaptureFresh(h, s) ==
  Audited(h) /\ ~Recorded(h, CaseOp(s)) /\ ~Recorded(h, CoverageOp(s))

Unmarked(s) == edge[s] = "none"

\* No coverage yet, and no edge that it would have missed.
Uncovered ==
  State(history, Coverage) = "none" /\ \A s \in Signals : Unmarked(s)

Capture(s) ==
  /\ tx = None
  /\ IF CaptureReplayed(history, s)
     THEN /\ Answer(CaseOp(s), Sequence(history, CaseOp(s)))
          /\ UNCHANGED <<history, tx>>
     ELSE IF CaptureFresh(history, s) /\ Admits(history, CaseOp(s))
     THEN Appends(<<CaseOp(s)>>, CaseOp(s)) /\ UNCHANGED tx
     ELSE IF CaptureFresh(history, s) /\ Uncovered
     THEN tx' = s /\ UNCHANGED <<history, reply>>
     ELSE Answer(CaseOp(s), 0) /\ UNCHANGED <<history, tx>>
  /\ UNCHANGED <<edge, reader>>

\* Coverage and case in one statement.
CaptureAppend(s) ==
  /\ tx = s
  /\ tx' = None
  /\ Appends(<<CoverageOp(s), CaseOp(s)>>, CaseOp(s))
  /\ UNCHANGED <<edge, reader>>

\* A transaction that fails is rolled back, and its caller may try again.
CaptureFails ==
  /\ tx # None
  /\ tx' = None /\ reply' = NoReply
  /\ UNCHANGED <<history, edge, reader>>

\* linkSignal(): the store path draws an edge at any time, dated by its own
\* clock.
LinkSignal(s) ==
  /\ Unmarked(s)
  /\ \E date \in {"early", "late"} : edge' = [edge EXCEPT ![s] = date]
  /\ UNCHANGED <<history, tx, reply, reader>>

----------------------------------------------------------------------------
(* deriveClearance(): the listing, the outbox page and the edges, each in  *)
(* a transaction of its own.                                               *)

Conclude(verdict) == reader' = [Idle EXCEPT !.verdict = verdict]

\* listCases(), the first statement.
ListVersion ==
  /\ reader.at = "idle"
  /\ reader' = [Idle EXCEPT !.at = "versioned", !.version = Len(history)]
  /\ UNCHANGED <<history, edge, tx, reply>>

Terminal == {"rejected", "resolved"}

Settled(state) == state \in Terminal

\* listCases(), the second: an event beyond the version read is refused.
ListCases ==
  /\ reader.at = "versioned"
  /\ LET cases == [s \in Signals |-> State(history, s)]
         listed == {s \in Signals : cases[s] # "none"}
     IN IF Len(history) > reader.version THEN Conclude("unavailable")
        ELSE IF State(history, Coverage) # "opened" \/ listed = {}
        THEN Conclude("coverage-gap")
        ELSE IF \E s \in listed : ~Settled(cases[s])
        THEN Conclude("adjudication-pending")
        ELSE reader' = [reader EXCEPT !.at = "listed", !.cases = cases]
  /\ UNCHANGED <<history, edge, tx, reply>>

\* pullOutbox() from the start, one row: its version is the listing's.
PullOutbox ==
  /\ reader.at = "listed"
  /\ IF history[1].action = "opened" /\ Len(history) = reader.version
     THEN reader' = [reader EXCEPT !.at = "paged"]
     ELSE Conclude("record-time")
  /\ UNCHANGED <<history, edge, tx, reply>>

\* Mutant: an edge without a case is skipped.
MatchedIfListed(s) == edge[s] = "late"

\* An edge is dated under the coverage and has a case in the listing.
Matched(s) == edge[s] = "late" /\ reader.cases[s] # "none"

ReadEdges ==
  /\ reader.at = "paged"
  /\ Conclude(IF \A s \in Signals : Unmarked(s) \/ Matched(s)
              THEN "clear" ELSE "coverage-gap")
  /\ UNCHANGED <<history, edge, tx, reply>>

\* A transaction that fails is an exception, never a verdict.
ReadFails ==
  /\ reader.at # "idle"
  /\ reader' = Idle
  /\ UNCHANGED <<history, edge, tx, reply>>

----------------------------------------------------------------------------

Next ==
  \/ \E e \in Operations : Perform(e)
  \/ \E s \in Signals : Capture(s) \/ CaptureAppend(s) \/ LinkSignal(s)
  \/ CaptureFails
  \/ ListVersion \/ ListCases \/ PullOutbox \/ ReadEdges \/ ReadFails

Spec == Init /\ [][Next]_vars

----------------------------------------------------------------------------
(* Properties.                                                             *)

(* The ledger never locks itself out: captures, adjudications and          *)
(* revocations in any order, repeated after lost answers and by callers    *)
(* that derive the same id, leave a history that the audit at the start of *)
(* every later transaction accepts: each operation is there once, no case  *)
(* is without coverage or moves after the revocation, and none is settled  *)
(* twice (evidence-authority-ledger.ts:808-854).                           *)
AuditAccepts == Audited(history)

\* What the ledger is to its readers: the latest event of every target.
Authority ==
  INSTANCE CaseAuthority
    WITH Cases <- Signals, coverage <- State(history, Coverage),
         case <- [s \in Signals |-> State(history, s)]

(* An answer tells the truth while it is the last one: a receipt names the *)
(* event of its operation, and a refusal, which callers take as terminal   *)
(* and never retry (capture.ts:194), is never given to an operation that   *)
(* an earlier, unanswered attempt recorded.                                *)
AnswersTruthful ==
  reply.to # None =>
    IF reply.sequence = 0 THEN ~Recorded(history, reply.to)
                          ELSE history[reply.sequence] = reply.to

(* A clearance is earned although its three transactions are apart: at the *)
(* version it read, coverage was open and every case settled, and every    *)
(* edge there is when it concludes, one that was drawn meanwhile too,      *)
(* belongs to a case that is settled still                                 *)
(* (evidence-authority-clearance.ts:9-11 and 489-502).                     *)
ClearEarned ==
  [][reader.at = "paged" /\ reader'.verdict = "clear" =>
       LET past == SubSeq(history, 1, reader.version)
       IN /\ State(past, Coverage) = "opened"
          /\ \E s \in Signals : State(past, s) # "none"
          /\ \A s \in Signals : State(past, s) \in Terminal \cup {"none"}
          /\ \A s \in Signals :
               edge[s] # "none" => State(history, s) \in Terminal]_vars
=============================================================================
