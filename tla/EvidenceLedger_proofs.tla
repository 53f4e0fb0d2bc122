------------------------- MODULE EvidenceLedger_proofs -------------------------
(* Proofs about EvidenceLedger, for any signals, principals and bound on   *)
(* the events.                                                             *)
EXTENDS EvidenceLedger, SequenceTheorems, WellFoundedInduction, TLAPS

(***************************************************************************)
(* Events.                                                                 *)
(***************************************************************************)

LEMMA EventTypes ==
  ASSUME NEW e \in Events
  PROVE  /\ e.target \in Signals \cup {Coverage}
         /\ e.action \in States \ {"none"}
         /\ e.target = Coverage <=> e.action \in {"opened", "revoked"}
BY LedgerAssumption
   DEF Events, Operations, Openings, Adjudications, Revocations, CoverageOp,
       CaseOp, States

LEMMA CaptureOps ==
  ASSUME NEW s \in Signals
  PROVE  /\ CoverageOp(s) \in Events /\ CaseOp(s) \in Events
         /\ CoverageOp(s) \notin Operations /\ CaseOp(s) \notin Operations
BY LedgerAssumption
   DEF Events, Operations, Openings, Adjudications, Revocations, CoverageOp,
       CaseOp

LEMMA OperationIsEvent == Operations \subseteq Events
BY DEF Events

\* A bounded set of numbers has a last member.
LEMMA LastExists ==
  ASSUME NEW n \in Nat, NEW S \in SUBSET (1..n), S # {}
  PROVE  \E i \in S : \A j \in S : j <= i
<1> DEFINE gap == {n - i : i \in S}
<1>1. gap \in SUBSET Nat
  BY SMT
<1>2. gap # {}
  BY Zenon
<1>3. PICK g \in gap : \A h \in gap : ~ (<<h, g>> \in OpToRel(<, Nat))
  <2> HIDE DEF gap
  <2> QED BY <1>1, <1>2, NatLessThanWellFounded, WFMin
<1>4. PICK i \in S : g = n - i
  OBVIOUS
<1>5. ASSUME NEW j \in S PROVE j <= i
  <2>1. n - j \in Nat /\ g \in Nat /\ n - j \in gap
    BY <1>4, SMT
  <2>2. <<n - j, g>> \in OpToRel(<, Nat) <=> n - j < g
    BY <2>1 DEF OpToRel
  <2>3. ~ (n - j < g)
    BY <1>3, <2>1, <2>2, Zenon
  <2> QED BY <1>4, <2>3
<1> QED BY <1>5

(***************************************************************************)
(* The state of a target.                                                  *)
(***************************************************************************)

LEMMA LatestExists ==
  ASSUME NEW h \in Seq(Events), NEW t, \E i \in DOMAIN h : h[i].target = t
  PROVE  \E i \in DOMAIN h :
           /\ h[i].target = t /\ h[i].action = State(h, t)
           /\ \A j \in DOMAIN h : h[j].target = t => j <= i
<1> DEFINE I == {i \in DOMAIN h : h[i].target = t}
           last == CHOOSE i \in I : \A j \in I : j <= i
<1>1. Len(h) \in Nat /\ DOMAIN h = 1..Len(h)
  BY LenProperties
<1>2. I # {} /\ I \in SUBSET (1..Len(h))
  BY <1>1
<1>3. \E i \in I : \A j \in I : j <= i
  <2> HIDE DEF I
  <2> QED BY <1>1, <1>2, LastExists
<1>4. last \in I /\ \A j \in I : j <= last
  <2> HIDE DEF I
  <2> QED BY <1>3
<1>5. State(h, t) = h[last].action
  BY <1>2, Zenon DEF State
<1> HIDE DEF last
<1> QED BY <1>4, <1>5

LEMMA StateOfLatest ==
  ASSUME NEW h \in Seq(Events), NEW t, NEW i \in DOMAIN h, h[i].target = t,
         \A j \in DOMAIN h : h[j].target = t => j <= i
  PROVE  State(h, t) = h[i].action
<1>1. DOMAIN h = 1..Len(h) /\ Len(h) \in Nat
  BY LenProperties
<1>2. PICK k \in DOMAIN h : /\ h[k].target = t /\ h[k].action = State(h, t)
                            /\ \A j \in DOMAIN h : h[j].target = t => j <= k
  BY LatestExists
<1>3. k <= i /\ i <= k
  BY <1>2
<1> QED BY <1>1, <1>2, <1>3

LEMMA StateNone ==
  ASSUME NEW h \in Seq(Events), NEW t
  PROVE  /\ State(h, t) \in States
         /\ State(h, t) = "none" <=> \A i \in DOMAIN h : h[i].target # t
<1>1. CASE \A i \in DOMAIN h : h[i].target # t
  BY <1>1 DEF State, States
<1>2. CASE \E i \in DOMAIN h : h[i].target = t
  <2>1. PICK i \in DOMAIN h : h[i].action = State(h, t)
    BY <1>2, LatestExists
  <2>2. h[i] \in Events
    BY ElementOfSeq, LenProperties
  <2> QED BY <1>2, <2>1, <2>2, EventTypes
<1> QED BY <1>1, <1>2

\* Appending one event.
LEMMA AppendOne ==
  ASSUME NEW h \in Seq(Events), NEW e \in Events
  PROVE  /\ h \o <<e>> \in Seq(Events)
         /\ Len(h) \in Nat /\ Len(h \o <<e>>) = Len(h) + 1
         /\ DOMAIN h = 1..Len(h) /\ DOMAIN (h \o <<e>>) = 1..(Len(h) + 1)
         /\ \A i \in 1..Len(h) : (h \o <<e>>)[i] = h[i] /\ h[i] \in Events
         /\ (h \o <<e>>)[Len(h) + 1] = e
<1>1. <<e>> \in Seq(Events) /\ Len(<<e>>) = 1 /\ <<e>>[1] = e
  OBVIOUS
<1> QED BY <1>1, ConcatProperties, LenProperties, ElementOfSeq

LEMMA StateAfter ==
  ASSUME NEW h \in Seq(Events), NEW e \in Events, NEW t
  PROVE  State(h \o <<e>>, t) = IF e.target = t THEN e.action ELSE State(h, t)
<1> DEFINE g == h \o <<e>>
<1>0. /\ g \in Seq(Events)
      /\ Len(h) \in Nat /\ Len(g) = Len(h) + 1
      /\ DOMAIN h = 1..Len(h) /\ DOMAIN g = 1..(Len(h) + 1)
      /\ \A i \in 1..Len(h) : g[i] = h[i] /\ h[i] \in Events
      /\ g[Len(h) + 1] = e
  BY AppendOne
<1> HIDE DEF g
<1>1. CASE e.target = t
  <2>1. /\ Len(h) + 1 \in DOMAIN g /\ g[Len(h) + 1].target = t
        /\ \A j \in DOMAIN g : j <= Len(h) + 1
    BY <1>0, <1>1
  <2>2. State(g, t) = e.action
    BY <1>0, <2>1, StateOfLatest
  <2> QED BY <1>1, <2>2 DEF g
<1>2. CASE e.target # t /\ \A i \in DOMAIN h : h[i].target # t
  <2>1. \A i \in DOMAIN g : g[i].target # t
    BY <1>0, <1>2
  <2>2. State(g, t) = "none" /\ State(h, t) = "none"
    BY <1>0, <1>2, <2>1, StateNone
  <2> QED BY <1>2, <2>2 DEF g
<1>3. CASE e.target # t /\ \E i \in DOMAIN h : h[i].target = t
  <2>1. PICK k \in DOMAIN h : /\ h[k].target = t /\ h[k].action = State(h, t)
                              /\ \A j \in DOMAIN h : h[j].target = t => j <= k
    BY <1>3, LatestExists
  <2>2. k \in DOMAIN g /\ g[k].target = t /\ g[k].action = State(h, t)
    BY <1>0, <2>1
  <2>3. \A j \in DOMAIN g : g[j].target = t => j <= k
    BY <1>0, <1>3, <2>1
  <2>4. State(g, t) = g[k].action
    BY <1>0, <2>2, <2>3, StateOfLatest
  <2> QED BY <1>3, <2>2, <2>4 DEF g
<1> QED BY <1>1, <1>2, <1>3

(***************************************************************************)
(* The audit.                                                              *)
(***************************************************************************)

LEMMA AuditedPrefix ==
  ASSUME NEW h \in Seq(Events), Audited(h)
  PROVE  /\ \A i \in DOMAIN h : h[i].target # Coverage => State(h, Coverage) # "none"
         /\ \A i, j \in DOMAIN h : h[i] = h[j] => i = j
<1> USE LenProperties
<1>1. ASSUME NEW i \in DOMAIN h, h[i].target # Coverage
      PROVE  State(h, Coverage) # "none"
  <2>1. PICK j \in 1..(i - 1) : h[j].action = "opened"
    BY <1>1 DEF Audited
  <2>2. j \in DOMAIN h /\ h[j] \in Events
    BY ElementOfSeq
  <2>3. h[j].target = Coverage
    BY <2>1, <2>2, EventTypes
  <2> QED BY <2>2, <2>3, StateNone
<1>2. ASSUME NEW i \in DOMAIN h, NEW j \in DOMAIN h, h[i] = h[j], i < j
      PROVE  FALSE
  <2>1. Ordered(h[i].action, h[j].action)
    BY <1>2 DEF Audited
  <2> QED BY <1>2, <2>1 DEF Ordered
<1>3. ASSUME NEW i \in DOMAIN h, NEW j \in DOMAIN h, h[i] = h[j]
      PROVE  i = j
  <2>1. ~(i < j) /\ ~(j < i)
    BY <1>2, <1>3
  <2> QED BY <2>1
<1> QED BY <1>1, <1>3

\* What perform() admits, the audit accepts.
LEMMA AppendKeepsAudit ==
  ASSUME NEW h \in Seq(Events), NEW e \in Events, Audited(h), Admits(h, e)
  PROVE  Audited(h \o <<e>>)
<1> DEFINE g == h \o <<e>>
           n == Len(h)
           Placed(f, j) ==
             /\ f[j].action = "revoked" => \E i \in 1..(j - 1) : f[i].action = "opened"
             /\ f[j].action \in {"rejected", "resolution_started"} =>
                  \E i \in 1..(j - 1) :
                    f[i].target = f[j].target /\ f[i].action = "case_opened"
             /\ f[j].action = "resolved" =>
                  \E i \in 1..(j - 1) :
                    f[i].target = f[j].target /\ f[i].action = "resolution_started"
             /\ f[j].target # Coverage =>
                  /\ \E i \in 1..(j - 1) : f[i].action = "opened"
                  /\ \A i \in 1..(j - 1) : f[i].action # "revoked"
<1>0. /\ g \in Seq(Events)
      /\ n \in Nat /\ Len(g) = n + 1
      /\ DOMAIN h = 1..n /\ DOMAIN g = 1..(n + 1)
      /\ \A i \in 1..n : g[i] = h[i] /\ h[i] \in Events
      /\ g[n + 1] = e
  BY AppendOne
<1>a. /\ \A i, j \in 1..n : i < j /\ h[i].target = h[j].target =>
            Ordered(h[i].action, h[j].action)
      /\ \A j \in 1..n : Placed(h, j)
  BY <1>0 DEF Audited
<1>b. /\ e.target # Coverage => State(h, Coverage) = "opened"
      /\ State(h, e.target) = Previous(e.action)
  BY DEF Admits
<1> HIDE DEF g, n
<1>1. ASSUME NEW i \in 1..n, h[i].target = e.target
      PROVE  Ordered(h[i].action, e.action)
  <2>1. PICK k \in 1..n :
          /\ h[k].target = e.target /\ h[k].action = Previous(e.action)
          /\ \A j \in 1..n : h[j].target = e.target => j <= k
    BY <1>0, <1>1, <1>b, LatestExists
  <2>2. e.action \in States \ {"none"} /\ h[k].action \in States \ {"none"}
    BY <1>0, EventTypes
  <2>3. CASE i = k
    BY <2>1, <2>2, <2>3 DEF Previous, Ordered, States
  <2>4. CASE i # k
    <3>1. Ordered(h[i].action, Previous(e.action))
      BY <1>0, <1>1, <1>a, <2>1, <2>4
    <3> QED BY <2>1, <2>2, <3>1 DEF Previous, Ordered, States
  <2> QED BY <2>3, <2>4
<1>2. ASSUME NEW i \in DOMAIN g, NEW j \in DOMAIN g, i < j,
             g[i].target = g[j].target
      PROVE  Ordered(g[i].action, g[j].action)
  <2>1. CASE j \in 1..n
    BY <1>0, <1>2, <1>a, <2>1
  <2>2. CASE j = n + 1
    BY <1>0, <1>1, <1>2, <2>2
  <2> QED BY <1>0, <2>1, <2>2
<1>3. ASSUME NEW j \in 1..n PROVE Placed(g, j)
  <2>1. \A i \in 1..j : g[i] = h[i]
    BY <1>0
  <2>2. j \in 1..j /\ \A i \in 1..(j - 1) : i \in 1..j
    BY <1>0
  <2> QED BY <1>a, <2>1, <2>2
<1>4. e.action \in States \ {"none"}
  BY EventTypes
<1>5. ASSUME NEW a \in States \ {"none"}, NEW t, State(h, t) = a
      PROVE  \E i \in 1..n : g[i].target = t /\ g[i].action = a
  BY <1>0, <1>5, StateNone, LatestExists
<1>6. (n + 1) - 1 = n
  BY <1>0
<1>7. Placed(g, n + 1)
  <2>1. e.action = "revoked" => \E i \in 1..n : g[i].action = "opened"
    BY <1>b, <1>5 DEF Previous, States
  <2>2. e.action \in {"rejected", "resolution_started"} =>
          \E i \in 1..n : g[i].target = e.target /\ g[i].action = "case_opened"
    BY <1>b, <1>5 DEF Previous, States
  <2>3. e.action = "resolved" =>
          \E i \in 1..n : g[i].target = e.target /\ g[i].action = "resolution_started"
    BY <1>b, <1>5 DEF Previous, States
  <2>4. ASSUME e.target # Coverage
        PROVE  /\ \E i \in 1..n : g[i].action = "opened"
               /\ \A i \in 1..n : g[i].action # "revoked"
    <3>1. \E i \in 1..n : g[i].action = "opened"
      BY <1>b, <1>5, <2>4 DEF States
    <3>2. ASSUME NEW i \in 1..n, h[i].action = "revoked" PROVE FALSE
      <4>1. h[i].target = Coverage
        BY <1>0, <3>2, EventTypes
      <4>2. PICK k \in 1..n :
              /\ h[k].target = Coverage /\ h[k].action = "opened"
              /\ \A j \in 1..n : h[j].target = Coverage => j <= k
        BY <1>0, <1>b, <2>4, <4>1, LatestExists
      <4>3. i < k
        BY <1>0, <3>2, <4>1, <4>2
      <4>4. Ordered("revoked", "opened")
        BY <1>a, <3>2, <4>1, <4>2, <4>3
      <4> QED BY <4>4 DEF Ordered
    <3> QED BY <1>0, <3>1, <3>2
  <2> QED BY <1>0, <1>6, <2>1, <2>2, <2>3, <2>4
<1>8. \A j \in DOMAIN g : Placed(g, j)
  BY <1>0, <1>3, <1>7
<1>9. Audited(g)
  BY <1>2, <1>8 DEF Audited
<1> QED BY <1>9 DEF g

(***************************************************************************)
(* What a step does to the history.                                        *)
(***************************************************************************)

\* A capture that counted no edge holds the lock while there is no coverage.
LockInv == tx # None => State(history, Coverage) = "none"

\* The coverage of a capture is followed by the case of that capture.
PairInv ==
  \A s \in Signals, i \in DOMAIN history :
    history[i] = CoverageOp(s) =>
      i + 1 \in DOMAIN history /\ history[i + 1] = CaseOp(s)

HistoryInv == history \in Seq(Events) /\ tx \in Signals \cup {None}
                /\ Audited(history) /\ LockInv /\ PairInv

AppendsOperation ==
  /\ tx = None /\ tx' = None
  /\ \E e \in Events : /\ history' = history \o <<e>> /\ Admits(history, e)
                        /\ \A s \in Signals : e # CoverageOp(s)
AppendsCapture ==
  /\ tx # None /\ tx' = None
  /\ \E s \in Signals : history' = history \o <<CoverageOp(s), CaseOp(s)>>
LeavesHistory ==
  /\ history' = history
  /\ \/ tx' \in {tx, None}
     \/ tx' \in Signals /\ State(history, Coverage) = "none"

LEMMA StepHistory ==
  ASSUME HistoryInv, [Next]_vars
  PROVE  AppendsOperation \/ AppendsCapture \/ LeavesHistory
<1>1. ASSUME NEW e \in Operations, Perform(e)
      PROVE  AppendsOperation \/ LeavesHistory
  <2>1. tx = None /\ tx' = None
    BY <1>1 DEF Perform
  <2>2. CASE history' = history
    BY <2>1, <2>2 DEF LeavesHistory
  <2>3. CASE history' # history
    <3>1. Admits(history, e) /\ history' = history \o <<e>>
      BY <1>1, <2>3 DEF Perform, Appends
    <3>2. e \in Events /\ \A s \in Signals : e # CoverageOp(s)
      BY OperationIsEvent, CaptureOps
    <3> QED BY <2>1, <3>1, <3>2 DEF AppendsOperation
  <2> QED BY <2>2, <2>3
<1>2. ASSUME NEW s \in Signals, Capture(s)
      PROVE  AppendsOperation \/ LeavesHistory
  <2>1. tx = None
    BY <1>2 DEF Capture
  <2>2. CASE history' = history /\ tx' = tx
    BY <2>2 DEF LeavesHistory
  <2>3. CASE ~(history' = history /\ tx' = tx)
    <3>1. CASE Admits(history, CaseOp(s)) /\ Appends(<<CaseOp(s)>>, CaseOp(s))
                 /\ tx' = tx
      <4>1. CaseOp(s) \in Events /\ \A u \in Signals : CaseOp(s) # CoverageOp(u)
        BY CaptureOps DEF CaseOp, CoverageOp
      <4> QED BY <2>1, <3>1, <4>1 DEF AppendsOperation, Appends
    <3>2. CASE Uncovered /\ tx' = s /\ history' = history
      BY <3>2 DEF LeavesHistory, Uncovered
    <3> QED BY <1>2, <2>3, <3>1, <3>2 DEF Capture
  <2> QED BY <2>2, <2>3
<1>3. ASSUME NEW s \in Signals, CaptureAppend(s)
      PROVE  AppendsCapture
  BY <1>3, LedgerAssumption DEF CaptureAppend, Appends, AppendsCapture
<1>4. CASE CaptureFails
  BY <1>4 DEF CaptureFails, LeavesHistory
<1>5. ASSUME NEW s \in Signals, LinkSignal(s) PROVE LeavesHistory
  BY <1>5 DEF LinkSignal, LeavesHistory
<1>6. CASE ListVersion \/ ListCases \/ PullOutbox \/ ReadEdges \/ ReadFails
  BY <1>6 DEF ListVersion, ListCases, PullOutbox, ReadEdges, ReadFails, LeavesHistory
<1>7. CASE UNCHANGED vars
  BY <1>7 DEF vars, LeavesHistory
<1> QED BY <1>1, <1>2, <1>3, <1>4, <1>5, <1>6, <1>7 DEF Next

\* A capture's append is two appends, and perform() would admit both.
LEMMA CaptureIsTwoAppends ==
  ASSUME NEW h \in Seq(Events), NEW s \in Signals, Audited(h),
         State(h, Coverage) = "none"
  PROVE  /\ h \o <<CoverageOp(s), CaseOp(s)>> =
              (h \o <<CoverageOp(s)>>) \o <<CaseOp(s)>>
         /\ h \o <<CoverageOp(s)>> \in Seq(Events)
         /\ Admits(h, CoverageOp(s))
         /\ Admits(h \o <<CoverageOp(s)>>, CaseOp(s))
<1> DEFINE c == CoverageOp(s)
           k == CaseOp(s)
<1>0. /\ c \in Events /\ c.target = Coverage /\ c.action = "opened"
      /\ k \in Events /\ k.target = s /\ k.action = "case_opened"
      /\ s # Coverage
  BY CaptureOps, LedgerAssumption DEF CoverageOp, CaseOp
<1> HIDE DEF c, k
<1>1. h \o <<c, k>> = (h \o <<c>>) \o <<k>>
  <2> DEFINE one == <<c>>
             two == <<k>>
             both == <<c, k>>
  <2>1. one \in Seq(Events) /\ two \in Seq(Events) /\ both \in Seq(Events)
    BY <1>0
  <2>2. /\ Len(one) = 1 /\ Len(two) = 1 /\ Len(both) = 2
        /\ one[1] = c /\ two[1] = k /\ both[1] = c /\ both[2] = k
    OBVIOUS
  <2> HIDE DEF one, two, both
  <2>3. /\ one \o two \in Seq(Events) /\ Len(one \o two) = 2
        /\ \A i \in 1..Len(one \o two) : (one \o two)[i] = both[i]
    <3>0. /\ one \o two \in Seq(Events) /\ Len(one \o two) = Len(one) + Len(two)
          /\ \A i \in 1..(Len(one) + Len(two)) :
               (one \o two)[i] = IF i <= Len(one) THEN one[i] ELSE two[i - Len(one)]
      BY <2>1, ConcatProperties
    <3>1. /\ one \o two \in Seq(Events) /\ Len(one \o two) = 2
          /\ (one \o two)[1] = c /\ (one \o two)[2] = k
      <4>1. 1 \in 1..(Len(one) + Len(two)) /\ 2 \in 1..(Len(one) + Len(two))
        BY <2>2
      <4> QED BY <2>2, <3>0, <4>1
    <3>2. \A i \in 1..2 : i = 1 \/ i = 2
      OBVIOUS
    <3> QED BY <2>2, <3>1, <3>2
  <2>4. one \o two = both
    BY <2>1, <2>2, <2>3, SeqEqual
  <2>5. (h \o one) \o two = h \o (one \o two)
    BY <2>1, ConcatAssociative
  <2> QED BY <2>4, <2>5 DEF one, two, both
<1>2. h \o <<c>> \in Seq(Events)
  BY <1>0, AppendOne
<1>3. Admits(h, c)
  BY <1>0 DEF Admits, Previous
<1>4. State(h, s) = "none"
  BY <1>0, AuditedPrefix, StateNone
<1>5. State(h \o <<c>>, Coverage) = "opened" /\ State(h \o <<c>>, s) = "none"
  BY <1>0, <1>4, StateAfter
<1>6. Admits(h \o <<c>>, k)
  BY <1>0, <1>5 DEF Admits, Previous
<1> QED BY <1>1, <1>2, <1>3, <1>6 DEF c, k

LEMMA CaptureKeepsAudit ==
  ASSUME NEW h \in Seq(Events), NEW s \in Signals, Audited(h),
         State(h, Coverage) = "none"
  PROVE  /\ h \o <<CoverageOp(s), CaseOp(s)>> \in Seq(Events)
         /\ Audited(h \o <<CoverageOp(s), CaseOp(s)>>)
<1>1. Audited(h \o <<CoverageOp(s)>>)
  BY CaptureOps, CaptureIsTwoAppends, AppendKeepsAudit
<1>2. /\ Audited((h \o <<CoverageOp(s)>>) \o <<CaseOp(s)>>)
      /\ (h \o <<CoverageOp(s)>>) \o <<CaseOp(s)>> \in Seq(Events)
  BY <1>1, CaptureOps, CaptureIsTwoAppends, AppendKeepsAudit, AppendOne
<1> QED BY <1>2, CaptureIsTwoAppends

LEMMA HistoryInit == ASSUME Init PROVE HistoryInv
<1>1. history = <<>> /\ tx = None
  BY DEF Init
<1>2. history \in Seq(Events) /\ DOMAIN history = {}
  BY <1>1
<1> QED BY <1>1, <1>2 DEF HistoryInv, Audited, LockInv, PairInv

LEMMA HistoryStep ==
  ASSUME HistoryInv, [Next]_vars
  PROVE  HistoryInv'
<1> USE DEF HistoryInv
<1>1. CASE LeavesHistory
  BY <1>1, LedgerAssumption DEF LeavesHistory, LockInv, PairInv
<1>2. CASE AppendsOperation
  <2>1. PICK e \in Events : /\ history' = history \o <<e>> /\ Admits(history, e)
                            /\ \A s \in Signals : e # CoverageOp(s)
    BY <1>2 DEF AppendsOperation
  <2>2. history' \in Seq(Events) /\ Audited(history')
    BY <2>1, AppendKeepsAudit, AppendOne
  <2>3. PairInv'
    <3> SUFFICES ASSUME NEW s \in Signals, NEW i \in DOMAIN history',
                        history'[i] = CoverageOp(s)
                 PROVE  i + 1 \in DOMAIN history' /\ history'[i + 1] = CaseOp(s)
      BY DEF PairInv
    <3>1. i \in DOMAIN history /\ history[i] = CoverageOp(s)
      BY <2>1, AppendOne
    <3>2. i + 1 \in DOMAIN history /\ history[i + 1] = CaseOp(s)
      BY <3>1 DEF PairInv
    <3> QED BY <2>1, <3>2, AppendOne
  <2> QED BY <1>2, <2>2, <2>3 DEF AppendsOperation, LockInv
<1>3. CASE AppendsCapture
  <2>1. PICK s \in Signals : history' = history \o <<CoverageOp(s), CaseOp(s)>>
    BY <1>3 DEF AppendsCapture
  <2>2. State(history, Coverage) = "none"
    BY <1>3 DEF AppendsCapture, LockInv
  <2>3. history' \in Seq(Events) /\ Audited(history')
    BY <2>1, <2>2, CaptureKeepsAudit
  <2>4. PairInv'
    <3>1. <<CoverageOp(s), CaseOp(s)>> \in Seq(Events)
            /\ Len(<<CoverageOp(s), CaseOp(s)>>) = 2
      BY CaptureOps
    <3>2. /\ Len(history) \in Nat /\ DOMAIN history = 1..Len(history)
          /\ DOMAIN history' = 1..(Len(history) + 2)
          /\ \A i \in 1..Len(history) : history'[i] = history[i]
          /\ history'[Len(history) + 1] = CoverageOp(s)
          /\ history'[Len(history) + 2] = CaseOp(s)
      BY <2>1, <2>3, <3>1, ConcatProperties, LenProperties
    <3> SUFFICES ASSUME NEW u \in Signals, NEW i \in DOMAIN history',
                        history'[i] = CoverageOp(u)
                 PROVE  i + 1 \in DOMAIN history' /\ history'[i + 1] = CaseOp(u)
      BY DEF PairInv
    <3>3. CASE i \in 1..Len(history)
      <4>1. i + 1 \in DOMAIN history /\ history[i + 1] = CaseOp(u)
        BY <3>2, <3>3 DEF PairInv
      <4> QED BY <3>2, <4>1
    <3>4. CASE i = Len(history) + 1
      <4>1. u = s
        BY <3>2, <3>4 DEF CoverageOp
      <4> QED BY <3>2, <3>4, <4>1
    <3>5. CASE i = Len(history) + 2
      BY <3>2, <3>5, LedgerAssumption DEF CoverageOp, CaseOp
    <3> QED BY <3>2, <3>3, <3>4, <3>5
  <2> QED BY <1>3, <2>3, <2>4 DEF AppendsCapture, LockInv
<1> QED BY <1>1, <1>2, <1>3, StepHistory

(* For any signals and principals, no sequence of captures, adjudications  *)
(* and revocations, repeated or interrupted, leaves a history that the     *)
(* ledger's own audit rejects.                                             *)
THEOREM AuditNeverRefuses == Spec => []AuditAccepts
<1>1. Init => HistoryInv
  BY HistoryInit
<1>2. HistoryInv /\ [Next]_vars => HistoryInv'
  BY HistoryStep
<1>3. HistoryInv => AuditAccepts
  BY DEF HistoryInv, AuditAccepts
<1> QED BY <1>1, <1>2, <1>3, PTL DEF Spec

(***************************************************************************)
(* Type correctness.                                                       *)
(***************************************************************************)

LEMMA SequenceOfRecorded ==
  ASSUME NEW h \in Seq(Events), NEW e, Recorded(h, e)
  PROVE  Sequence(h, e) \in 1..Len(h) /\ h[Sequence(h, e)] = e
BY LenProperties DEF Recorded, Sequence

\* Histories only grow, by one event or by two.
LEMMA HistoryGrows ==
  ASSUME HistoryInv, [Next]_vars
  PROVE  /\ history' \in Seq(Events) /\ Len(history) \in Nat
         /\ Len(history) <= Len(history')
         /\ DOMAIN history = 1..Len(history) /\ DOMAIN history' = 1..Len(history')
         /\ \A i \in 1..Len(history) : history'[i] = history[i]
<1> USE DEF HistoryInv
<1>0. history' \in Seq(Events)
  BY HistoryStep
<1>1. CASE LeavesHistory
  BY <1>0, <1>1, LenProperties DEF LeavesHistory
<1>2. CASE AppendsOperation
  BY <1>0, <1>2, AppendOne DEF AppendsOperation
<1>3. CASE AppendsCapture
  <2>1. PICK s \in Signals : history' = history \o <<CoverageOp(s), CaseOp(s)>>
    BY <1>3 DEF AppendsCapture
  <2>2. <<CoverageOp(s), CaseOp(s)>> \in Seq(Events)
          /\ Len(<<CoverageOp(s), CaseOp(s)>>) = 2
    BY CaptureOps
  <2> QED BY <1>0, <2>1, <2>2, ConcatProperties, LenProperties
<1> QED BY <1>1, <1>2, <1>3, StepHistory

ReplyType == reply \in [to : Events \cup {None}, sequence : 0..Len(history)]
EdgeType == edge \in [Signals -> {"none", "early", "late"}]
Verdicts == {"none", "clear", "coverage-gap", "unavailable",
             "adjudication-pending", "record-time"}
ReaderType ==
  reader \in [at : {"idle", "versioned", "listed", "paged"},
              version : 0..Len(history), cases : [Signals -> States],
              verdict : Verdicts]
TypeInv == HistoryInv /\ ReplyType /\ EdgeType /\ ReaderType

LEMMA ConcludeType ==
  ASSUME NEW verdict \in Verdicts, Conclude(verdict), Len(history') \in Nat
  PROVE  ReaderType'
BY DEF Conclude, Idle, ReaderType, States

LEMMA AppendsAnswers ==
  ASSUME NEW e \in Events, NEW es \in Seq(Events), HistoryInv, Appends(es, e)
  PROVE  ReplyType'
<1>1. history' = history \o es /\ Len(history') = Len(history) + Len(es)
        /\ Len(history) \in Nat /\ Len(es) \in Nat
  BY ConcatProperties, LenProperties DEF Appends, HistoryInv
<1> QED BY <1>1 DEF Appends, Answer, NoReply, ReplyType

LEMMA TypeStep ==
  ASSUME TypeInv, [Next]_vars
  PROVE  TypeInv'
<1> USE DEF TypeInv
<1>0. HistoryInv' /\ Len(history) \in Nat /\ Len(history') \in Nat
        /\ Len(history) <= Len(history') /\ history \in Seq(Events)
  BY HistoryStep, HistoryGrows, LenProperties DEF HistoryInv
<1>a. ASSUME UNCHANGED reply PROVE ReplyType'
  BY <1>0, <1>a DEF ReplyType
<1>b. ASSUME UNCHANGED reader PROVE ReaderType'
  BY <1>0, <1>b DEF ReaderType
<1>c. ASSUME NEW e \in Events, Answer(e, 0) PROVE ReplyType'
  BY <1>0, <1>c DEF Answer, ReplyType
<1>d. ASSUME NEW e \in Events, Recorded(history, e), Answer(e, Sequence(history, e))
      PROVE  ReplyType'
  <2>1. Sequence(history, e) \in 1..Len(history)
    BY <1>0, <1>d, SequenceOfRecorded
  <2> QED BY <1>0, <1>d, <2>1 DEF Answer, ReplyType
<1>1. ASSUME NEW e \in Operations, Perform(e) PROVE TypeInv'
  <2>1. e \in Events /\ <<e>> \in Seq(Events)
    BY OperationIsEvent
  <2>2. ReplyType'
    BY <1>1, <1>c, <1>d, <2>1, AppendsAnswers DEF Perform, Replayed
  <2> QED BY <1>0, <1>1, <1>b, <2>2 DEF Perform, EdgeType
<1>2. ASSUME NEW s \in Signals, Capture(s) PROVE TypeInv'
  <2>1. CaseOp(s) \in Events /\ <<CaseOp(s)>> \in Seq(Events)
    BY CaptureOps
  <2>2. ReplyType'
    BY <1>2, <1>a, <1>c, <1>d, <2>1, AppendsAnswers
       DEF Capture, CaptureReplayed, Replayed
  <2> QED BY <1>0, <1>2, <1>b, <2>2 DEF Capture, EdgeType
<1>3. ASSUME NEW s \in Signals, CaptureAppend(s) PROVE TypeInv'
  <2>1. CaseOp(s) \in Events /\ <<CoverageOp(s), CaseOp(s)>> \in Seq(Events)
    BY CaptureOps
  <2> QED BY <1>0, <1>3, <1>b, <2>1, AppendsAnswers DEF CaptureAppend, EdgeType
<1>4. CASE CaptureFails
  BY <1>0, <1>4, <1>b DEF CaptureFails, EdgeType, NoReply, ReplyType
<1>5. ASSUME NEW s \in Signals, LinkSignal(s) PROVE TypeInv'
  <2>1. EdgeType'
    BY <1>5 DEF LinkSignal, EdgeType
  <2> QED BY <1>0, <1>5, <1>a, <1>b, <2>1 DEF LinkSignal
<1>6. CASE ListVersion
  <2>1. reader' = [at |-> "versioned", version |-> Len(history),
                   cases |-> [s \in Signals |-> "none"], verdict |-> "none"]
    BY <1>6 DEF ListVersion, Idle
  <2>2. Len(history) \in 0..Len(history')
    BY <1>0
  <2>3. [s \in Signals |-> "none"] \in [Signals -> States]
    BY DEF States
  <2>4. ReaderType'
    BY <2>1, <2>2, <2>3 DEF ReaderType, Verdicts
  <2> QED BY <1>0, <1>6, <1>a, <2>4 DEF ListVersion, EdgeType
<1>7. CASE ListCases
  <2>1. ReaderType'
    <3>1. CASE \E v \in Verdicts : Conclude(v)
      BY <1>0, <3>1, ConcludeType
    <3>2. CASE reader' = [reader EXCEPT !.at = "listed",
                                        !.cases = [s \in Signals |-> State(history, s)]]
      <4>1. \A s \in Signals : State(history, s) \in States
        BY <1>0, StateNone
      <4>2. [s \in Signals |-> State(history, s)] \in [Signals -> States]
        BY <4>1
      <4> QED BY <1>0, <1>7, <3>2, <4>2 DEF ReaderType, ListCases
    <3> QED BY <1>7, <3>1, <3>2 DEF ListCases, Verdicts
  <2> QED BY <1>0, <1>7, <1>a, <2>1 DEF ListCases, EdgeType
<1>8. CASE PullOutbox
  <2>1. ReaderType'
    <3>1. CASE Conclude("record-time")
      BY <1>0, <3>1, ConcludeType DEF Verdicts
    <3>2. CASE reader' = [reader EXCEPT !.at = "paged"]
      BY <1>0, <1>8, <3>2 DEF PullOutbox, ReaderType
    <3> QED BY <1>8, <3>1, <3>2 DEF PullOutbox
  <2> QED BY <1>0, <1>8, <1>a, <2>1 DEF PullOutbox, EdgeType
<1>9. CASE ReadEdges
  <2>1. \E v \in Verdicts : Conclude(v)
    BY <1>9 DEF ReadEdges, Verdicts
  <2>2. ReaderType'
    BY <1>0, <2>1, ConcludeType
  <2> QED BY <1>0, <1>9, <1>a, <2>2 DEF ReadEdges, EdgeType
<1>10. CASE ReadFails
  BY <1>0, <1>10, <1>a DEF ReadFails, Idle, ReaderType, EdgeType, States, Verdicts
<1>11. CASE UNCHANGED vars
  BY <1>0, <1>11, <1>a, <1>b DEF vars, EdgeType
<1> QED BY <1>1, <1>2, <1>3, <1>4, <1>5, <1>6, <1>7, <1>8, <1>9, <1>10, <1>11
        DEF Next

LEMMA TypeInit == ASSUME Init PROVE TypeInv
<1>1. history = <<>> /\ Len(history) = 0
  BY DEF Init
<1> QED BY <1>1, HistoryInit
        DEF Init, TypeInv, ReplyType, EdgeType, ReaderType, NoReply, Idle, States,
            Verdicts

(* Type correctness, for any constants: in particular a receipt never      *)
(* names an event beyond the history.                                      *)
THEOREM TypeCorrect == Spec => []TypeOK
<1>1. Init => TypeInv
  BY TypeInit
<1>2. TypeInv /\ [Next]_vars => TypeInv'
  BY TypeStep
<1>3. TypeInv => TypeOK
  BY DEF TypeInv, TypeOK, HistoryInv, ReplyType, EdgeType, ReaderType, Verdicts
<1> QED BY <1>1, <1>2, <1>3, PTL DEF Spec

(***************************************************************************)
(* Answers.                                                                *)
(***************************************************************************)

\* What is appended last is what the answer names.
LEMMA AppendsTruth ==
  ASSUME NEW e \in Events, NEW es \in Seq(Events), HistoryInv, Appends(es, e),
         Len(es) > 0, es[Len(es)] = e
  PROVE  AnswersTruthful'
<1>1. /\ history' = history \o es /\ Len(history) \in Nat /\ Len(es) \in Nat
      /\ \A i \in 1..(Len(history) + Len(es)) :
           history'[i] = IF i <= Len(history) THEN history[i]
                                              ELSE es[i - Len(history)]
  BY ConcatProperties, LenProperties DEF Appends, HistoryInv
<1>2. history'[Len(history) + Len(es)] = e
  BY <1>1
<1>3. CASE Answer(e, Len(history) + Len(es))
  BY <1>1, <1>2, <1>3 DEF Answer, AnswersTruthful
<1>4. CASE reply' = NoReply
  BY <1>4 DEF NoReply, AnswersTruthful
<1> QED BY <1>3, <1>4 DEF Appends

\* A capture that was recorded is replayed.
LEMMA CaptureIsReplayed ==
  ASSUME HistoryInv, NEW s \in Signals, Recorded(history, CaseOp(s))
  PROVE  CaptureReplayed(history, s)
<1> USE DEF HistoryInv
<1>0. Replayed(history, CaseOp(s)) /\ Sequence(history, CaseOp(s)) \in DOMAIN history
        /\ history[Sequence(history, CaseOp(s))] = CaseOp(s)
  BY SequenceOfRecorded, LenProperties DEF Replayed
<1>1. CASE Recorded(history, CoverageOp(s))
  <2> DEFINE i == Sequence(history, CoverageOp(s))
  <2>1. i \in DOMAIN history /\ history[i] = CoverageOp(s)
    BY <1>1, SequenceOfRecorded, LenProperties
  <2>2. i + 1 \in DOMAIN history /\ history[i + 1] = CaseOp(s)
    BY <2>1 DEF PairInv
  <2>3. Sequence(history, CaseOp(s)) = i + 1
    BY <1>0, <2>2, AuditedPrefix
  <2> QED BY <1>0, <1>1, <2>3 DEF CaptureReplayed
<1>2. CASE ~Recorded(history, CoverageOp(s))
  <2>1. CaseOp(s).target # Coverage
    BY LedgerAssumption DEF CaseOp
  <2>2. State(history, Coverage) # "none"
    BY <1>0, <2>1, AuditedPrefix
  <2> QED BY <1>0, <1>2, <2>2 DEF CaptureReplayed
<1> QED BY <1>1, <1>2

LEMMA TruthStep ==
  ASSUME TypeInv, AnswersTruthful, [Next]_vars
  PROVE  AnswersTruthful'
<1>0. HistoryInv
  BY DEF TypeInv
<1>a. ASSUME UNCHANGED <<history, reply>> PROVE AnswersTruthful'
  BY <1>a DEF AnswersTruthful, Recorded
<1>b. ASSUME NEW e \in Events, Recorded(history, e), UNCHANGED history,
             Answer(e, Sequence(history, e))
      PROVE  AnswersTruthful'
  <2>1. Sequence(history, e) \in 1..Len(history)
          /\ history[Sequence(history, e)] = e /\ Len(history) \in Nat
    BY <1>0, <1>b, SequenceOfRecorded, LenProperties DEF HistoryInv
  <2> QED BY <1>b, <2>1 DEF Answer, AnswersTruthful
<1>c. ASSUME NEW e \in Events, ~Recorded(history, e), UNCHANGED history, Answer(e, 0)
      PROVE  AnswersTruthful'
  BY <1>c DEF Answer, AnswersTruthful, Recorded
<1>d. ASSUME NEW e \in Events, Appends(<<e>>, e) PROVE AnswersTruthful'
  <2>1. <<e>> \in Seq(Events) /\ Len(<<e>>) = 1 /\ <<e>>[1] = e
    OBVIOUS
  <2> QED BY <1>0, <1>d, <2>1, AppendsTruth
<1>1. ASSUME NEW e \in Operations, Perform(e) PROVE AnswersTruthful'
  <2>1. e \in Events
    BY OperationIsEvent
  <2>2. Audited(history) /\ (Replayed(history, e) <=> Recorded(history, e))
    BY <1>0 DEF HistoryInv, Replayed
  <2> QED BY <1>1, <1>b, <1>c, <1>d, <2>1, <2>2 DEF Perform
<1>2. ASSUME NEW s \in Signals, Capture(s) PROVE AnswersTruthful'
  <2>1. CaseOp(s) \in Events
    BY CaptureOps
  <2>2. CaptureReplayed(history, s) <=> Recorded(history, CaseOp(s))
    BY <1>0, CaptureIsReplayed DEF CaptureReplayed, Replayed
  <2> QED BY <1>2, <1>a, <1>b, <1>c, <1>d, <2>1, <2>2 DEF Capture
<1>3. ASSUME NEW s \in Signals, CaptureAppend(s) PROVE AnswersTruthful'
  <2> DEFINE es == <<CoverageOp(s), CaseOp(s)>>
  <2>1. es \in Seq(Events) /\ Len(es) = 2 /\ es[2] = CaseOp(s)
          /\ CaseOp(s) \in Events
    BY CaptureOps
  <2>2. Appends(es, CaseOp(s))
    BY <1>3 DEF CaptureAppend
  <2> HIDE DEF es
  <2> QED BY <1>0, <2>1, <2>2, AppendsTruth
<1>4. CASE CaptureFails
  BY <1>4 DEF CaptureFails, NoReply, AnswersTruthful
<1>5. ASSUME NEW s \in Signals, LinkSignal(s) PROVE AnswersTruthful'
  BY <1>5, <1>a DEF LinkSignal
<1>6. CASE ListVersion \/ ListCases \/ PullOutbox \/ ReadEdges \/ ReadFails
  BY <1>6, <1>a DEF ListVersion, ListCases, PullOutbox, ReadEdges, ReadFails
<1>7. CASE UNCHANGED vars
  BY <1>7, <1>a DEF vars
<1> QED BY <1>1, <1>2, <1>3, <1>4, <1>5, <1>6, <1>7 DEF Next

(* For any constants: a receipt is of the caller's own event, and nothing  *)
(* that was recorded is ever answered with a refusal.                      *)
THEOREM TruthfulAnswers == Spec => []AnswersTruthful
<1>1. Init => TypeInv /\ AnswersTruthful
  BY TypeInit DEF Init, NoReply, AnswersTruthful
<1>2. TypeInv /\ AnswersTruthful /\ [Next]_vars => (TypeInv /\ AnswersTruthful)'
  BY TypeStep, TruthStep
<1> QED BY <1>1, <1>2, PTL DEF Spec

(***************************************************************************)
(* Clearances.                                                             *)
(***************************************************************************)

Past == SubSeq(history, 1, reader.version)

\* What a reader that listed the cases knows of the history it listed.
ListedInv ==
  /\ State(Past, Coverage) = "opened"
  /\ \E s \in Signals : reader.cases[s] # "none"
  /\ \A s \in Signals : /\ reader.cases[s] = State(Past, s)
                        /\ reader.cases[s] \in Terminal \cup {"none"}
ReaderInv ==
  /\ reader.at # "idle" => reader.verdict = "none"
  /\ reader.at \in {"listed", "paged"} => ListedInv

LEMMA PrefixProperties ==
  ASSUME NEW h \in Seq(Events), NEW v \in 0..Len(h)
  PROVE  /\ SubSeq(h, 1, v) \in Seq(Events) /\ Len(SubSeq(h, 1, v)) = v
         /\ DOMAIN SubSeq(h, 1, v) = 1..v
         /\ \A i \in 1..v : SubSeq(h, 1, v)[i] = h[i] /\ i \in DOMAIN h
<1>1. Len(h) \in Nat /\ DOMAIN h = 1..Len(h)
  BY LenProperties
<1>2. SubSeq(h, 1, v) = [i \in 1..v |-> h[i]]
  BY <1>1
<1>3. \A i \in 1..v : h[i] \in Events
  BY <1>1, ElementOfSeq
<1>4. [i \in 1..v |-> h[i]] \in Seq(Events)
  BY <1>1, <1>3, IsASeq
<1> QED BY <1>1, <1>2, <1>4, LenProperties

\* A prefix stays as the history grows.
LEMMA PrefixKept ==
  ASSUME NEW h \in Seq(Events), NEW g \in Seq(Events), NEW v \in 0..Len(h),
         Len(h) <= Len(g), \A i \in 1..Len(h) : g[i] = h[i]
  PROVE  SubSeq(g, 1, v) = SubSeq(h, 1, v)
<1>1. v \in 0..Len(g) /\ v \in Nat /\ Len(h) \in Nat
  BY LenProperties
<1>2. \A i \in 1..v : SubSeq(g, 1, v)[i] = SubSeq(h, 1, v)[i]
  BY <1>1, PrefixProperties
<1>3. /\ SubSeq(g, 1, v) \in Seq(Events) /\ Len(SubSeq(g, 1, v)) = v
      /\ SubSeq(h, 1, v) \in Seq(Events) /\ Len(SubSeq(h, 1, v)) = v
  BY <1>1, PrefixProperties
<1> DEFINE p == SubSeq(g, 1, v)
           q == SubSeq(h, 1, v)
<1> HIDE DEF p, q
<1> QED BY <1>2, <1>3, SeqEqual DEF p, q

\* What is settled stays settled.
LEMMA TerminalStays ==
  ASSUME NEW h \in Seq(Events), Audited(h), NEW v \in 0..Len(h), NEW t,
         State(SubSeq(h, 1, v), t) \in Terminal
  PROVE  State(h, t) = State(SubSeq(h, 1, v), t)
<1> DEFINE p == SubSeq(h, 1, v)
<1>1. /\ p \in Seq(Events) /\ DOMAIN p = 1..v
      /\ \A i \in 1..v : p[i] = h[i] /\ i \in DOMAIN h
      /\ DOMAIN h = 1..Len(h) /\ Len(h) \in Nat
  BY PrefixProperties, LenProperties
<1> HIDE DEF p
<1>2. State(p, t) # "none" /\ State(p, t) \in Terminal
  BY DEF Terminal, p
<1>3. \E i \in DOMAIN p : p[i].target = t
  BY <1>1, <1>2, StateNone
<1>4. PICK i \in DOMAIN p : p[i].target = t /\ p[i].action = State(p, t)
  BY <1>1, <1>3, LatestExists
<1>5. i \in DOMAIN h /\ h[i].target = t /\ h[i].action = State(p, t)
  BY <1>1, <1>4
<1>6. ASSUME NEW j \in DOMAIN h, h[j].target = t, ~(j <= i) PROVE FALSE
  <2>1. Ordered(h[i].action, h[j].action)
    BY <1>1, <1>5, <1>6 DEF Audited
  <2> QED BY <1>2, <1>5, <2>1 DEF Ordered, Terminal
<1>7. State(h, t) = h[i].action
  BY <1>5, <1>6, StateOfLatest
<1> QED BY <1>5, <1>7 DEF p

LEMMA ReaderStep ==
  ASSUME TypeInv, ReaderInv, [Next]_vars
  PROVE  ReaderInv'
<1>0. /\ history \in Seq(Events) /\ history' \in Seq(Events)
      /\ Len(history) \in Nat /\ Len(history) <= Len(history')
      /\ \A i \in 1..Len(history) : history'[i] = history[i]
      /\ reader.version \in 0..Len(history)
  BY HistoryGrows DEF TypeInv, HistoryInv, ReaderType
<1>a. ASSUME UNCHANGED reader PROVE ReaderInv'
  <2>1. Past' = Past
    BY <1>0, <1>a, PrefixKept DEF Past
  <2> QED BY <1>a, <2>1 DEF ReaderInv, ListedInv
<1>b. ASSUME reader'.at = "idle" PROVE ReaderInv'
  BY <1>b DEF ReaderInv
<1>c. ASSUME NEW v, Conclude(v) PROVE ReaderInv'
  BY <1>b, <1>c DEF Conclude, Idle
<1>1. CASE UNCHANGED reader
  BY <1>1, <1>a
<1>2. CASE ListVersion
  BY <1>2 DEF ListVersion, Idle, ReaderInv
<1>3. CASE ListCases
  <2>1. CASE \E v : Conclude(v)
    BY <2>1, <1>c
  <2>2. CASE ~ \E v : Conclude(v)
    <3> DEFINE cases == [s \in Signals |-> State(history, s)]
    <3>1. /\ ~(Len(history) > reader.version)
          /\ State(history, Coverage) = "opened"
          /\ \E s \in Signals : cases[s] # "none"
          /\ \A s \in Signals : cases[s] # "none" => cases[s] \in Terminal
          /\ reader' = [reader EXCEPT !.at = "listed", !.cases = cases]
          /\ history' = history /\ reader.at = "versioned"
      BY <1>3, <2>2, Zenon DEF ListCases, Settled
    <3>2. reader.version = Len(history)
      BY <1>0, <3>1
    <3>3. /\ reader'.at = "listed" /\ reader'.cases = cases
          /\ reader'.version = reader.version /\ reader'.verdict = reader.verdict
      BY <3>1 DEF TypeInv, ReaderType
    <3>4. Past' = history
      BY <1>0, <3>1, <3>2, <3>3, SubSeqFull DEF Past
    <3>5. \A s \in Signals : reader'.cases[s] = State(history, s)
      BY <3>3
    <3>6. ListedInv'
      BY <3>1, <3>4, <3>5 DEF ListedInv
    <3> QED BY <3>1, <3>3, <3>6 DEF ReaderInv
  <2> QED BY <2>1, <2>2
<1>4. CASE PullOutbox
  <2>1. CASE Conclude("record-time")
    BY <2>1, <1>c
  <2>2. CASE reader' = [reader EXCEPT !.at = "paged"]
    <3>1. /\ reader'.at = "paged" /\ reader'.cases = reader.cases
          /\ reader'.version = reader.version /\ reader'.verdict = reader.verdict
          /\ history' = history /\ reader.at = "listed"
      BY <1>4, <2>2 DEF PullOutbox, TypeInv, ReaderType
    <3>2. Past' = Past
      BY <3>1 DEF Past
    <3> QED BY <3>1, <3>2 DEF ReaderInv, ListedInv
  <2> QED BY <1>4, <2>1, <2>2 DEF PullOutbox
<1>5. CASE ReadEdges
  BY <1>5, <1>c DEF ReadEdges
<1>6. CASE ReadFails
  BY <1>6, <1>b DEF ReadFails, Idle
<1>7. CASE ~(ListVersion \/ ListCases \/ PullOutbox \/ ReadEdges \/ ReadFails)
  BY <1>7, <1>1
     DEF Next, vars, Perform, Capture, CaptureAppend, CaptureFails, LinkSignal
<1> QED BY <1>2, <1>3, <1>4, <1>5, <1>6, <1>7

(* For any constants: a clearance that reads in three transactions what    *)
(* others go on writing concludes only what held at the version it read,   *)
(* and what holds of every edge when it concludes.                         *)
THEOREM EarnedClearance == Spec => ClearEarned
<1> DEFINE Earned ==
      reader.at = "paged" /\ reader'.verdict = "clear" =>
        LET past == SubSeq(history, 1, reader.version)
        IN /\ State(past, Coverage) = "opened"
           /\ \E s \in Signals : State(past, s) # "none"
           /\ \A s \in Signals : State(past, s) \in Terminal \cup {"none"}
           /\ \A s \in Signals :
                edge[s] # "none" => State(history, s) \in Terminal
<1>1. Init => TypeInv /\ ReaderInv
  BY TypeInit DEF Init, Idle, ReaderInv
<1>2. TypeInv /\ ReaderInv /\ [Next]_vars => (TypeInv /\ ReaderInv)'
  BY TypeStep, ReaderStep
<1>3. TypeInv /\ ReaderInv /\ [Next]_vars => Earned
  <2> SUFFICES ASSUME TypeInv, ReaderInv, [Next]_vars,
                      reader.at = "paged", reader'.verdict = "clear"
               PROVE  Earned
    OBVIOUS
  <2>1. ListedInv /\ reader.verdict = "none"
    BY DEF ReaderInv
  <2>2. ReadEdges
    <3>1. reader' # reader
      BY <2>1
    <3>2. ~ReadFails /\ ~ListVersion /\ ~ListCases /\ ~PullOutbox
      BY DEF ReadFails, Idle, ListVersion, ListCases, PullOutbox
    <3> QED BY <3>1, <3>2
            DEF Next, vars, Perform, Capture, CaptureAppend, CaptureFails, LinkSignal
  <2>3. \A s \in Signals : Unmarked(s) \/ Matched(s)
    BY <2>2 DEF ReadEdges, Conclude, Idle
  <2>4. ASSUME NEW s \in Signals, edge[s] # "none"
        PROVE  State(history, s) \in Terminal
    <3>1. State(Past, s) \in Terminal
      BY <2>1, <2>3, <2>4 DEF Unmarked, Matched, ListedInv
    <3> QED BY <3>1, TerminalStays DEF Past, TypeInv, HistoryInv, ReaderType
  <2> QED BY <2>1, <2>4 DEF ListedInv, Past
<1>4. TypeInv /\ ReaderInv /\ [Next]_vars => [Earned]_vars
  BY <1>3
<1>5. Spec => [][Earned]_vars
  <2> HIDE DEF Earned
  <2> QED BY <1>1, <1>2, <1>4, PTL DEF Spec
<1> QED BY <1>5 DEF ClearEarned, Earned

(***************************************************************************)
(* The ledger implements CaseAuthority.                                    *)
(***************************************************************************)

Cases(h) == [s \in Signals |-> State(h, s)]

\* One event moves its target as its action says, and nothing else.
LEMMA EventMoves ==
  ASSUME NEW h \in Seq(Events), NEW e \in Events, Admits(h, e)
  PROVE  LET g == h \o <<e>>
         IN IF e.target = Coverage
            THEN /\ Cases(g) = Cases(h)
                 /\ \/ State(h, Coverage) = "none" /\ State(g, Coverage) = "opened"
                    \/ State(h, Coverage) = "opened" /\ State(g, Coverage) = "revoked"
            ELSE /\ State(h, Coverage) = "opened" /\ State(g, Coverage) = "opened"
                 /\ e.target \in Signals
                 /\ State(h, e.target) = Previous(e.action)
                 /\ Cases(g) = [Cases(h) EXCEPT ![e.target] = e.action]
                 /\ e.action \in {"case_opened", "rejected", "resolution_started",
                                  "resolved"}
<1> DEFINE g == h \o <<e>>
<1>1. \A t : State(g, t) = IF e.target = t THEN e.action ELSE State(h, t)
  BY StateAfter
<1>2. /\ e.target \in Signals \cup {Coverage} /\ e.action \in States \ {"none"}
      /\ e.target = Coverage <=> e.action \in {"opened", "revoked"}
  BY EventTypes
<1>3. State(h, e.target) = Previous(e.action)
  BY DEF Admits
<1> HIDE DEF g
<1>4. CASE e.target = Coverage
  <2>1. Cases(g) = Cases(h)
    BY <1>1, <1>4, LedgerAssumption DEF Cases
  <2>2. /\ State(g, Coverage) = e.action
        /\ State(h, Coverage) = Previous(e.action)
        /\ e.action \in {"opened", "revoked"}
    BY <1>1, <1>2, <1>3, <1>4
  <2> QED BY <1>4, <2>1, <2>2 DEF Previous, g
<1>5. CASE e.target # Coverage
  <2>1. State(h, Coverage) = "opened" /\ State(g, Coverage) = "opened"
    BY <1>1, <1>5 DEF Admits
  <2>2. Cases(g) = [Cases(h) EXCEPT ![e.target] = e.action]
    BY <1>1, <1>2, <1>5 DEF Cases
  <2>3. e.action \in {"case_opened", "rejected", "resolution_started", "resolved"}
    BY <1>2, <1>5 DEF States
  <2> QED BY <1>2, <1>3, <1>5, <2>1, <2>2, <2>3 DEF g
<1> QED BY <1>4, <1>5

\* What a case may do, as the ledger's actions name it.
LEMMA CaseDecided ==
  ASSUME NEW h \in Seq(Events), NEW e \in Events, Admits(h, e),
         e.target # Coverage, history = h, history' = h \o <<e>>
  PROVE  Authority!Decide(e.target)
<1> DEFINE g == h \o <<e>>
           s == e.target
<1>1. /\ State(h, Coverage) = "opened" /\ State(g, Coverage) = "opened"
      /\ s \in Signals /\ State(h, s) = Previous(e.action)
      /\ Cases(g) = [Cases(h) EXCEPT ![s] = e.action]
      /\ e.action \in {"case_opened", "rejected", "resolution_started", "resolved"}
  BY EventMoves
<1>2. Authority!Move(s, Previous(e.action), e.action)
  BY <1>1 DEF Authority!Move, Cases
<1>3. \/ Previous(e.action) = "none" /\ e.action = "case_opened"
      \/ Previous(e.action) = "case_opened"
           /\ e.action \in {"rejected", "resolution_started"}
      \/ Previous(e.action) = "resolution_started" /\ e.action = "resolved"
  BY <1>1 DEF Previous
<1> QED BY <1>1, <1>2, <1>3 DEF Authority!Decide

\* No case precedes the coverage.
LEMMA NoneBeforeCoverage ==
  ASSUME NEW h \in Seq(Events), Audited(h), State(h, Coverage) = "none"
  PROVE  \A s \in Signals : State(h, s) = "none"
<1> SUFFICES ASSUME NEW s \in Signals, State(h, s) # "none" PROVE FALSE
  OBVIOUS
<1>1. PICK i \in DOMAIN h : h[i].target = s
  BY StateNone
<1>2. s # Coverage
  BY LedgerAssumption
<1> QED BY <1>1, <1>2, AuditedPrefix

LEMMA AuthorityStep ==
  ASSUME HistoryInv, [Next]_vars
  PROVE  [Authority!Next]_(Authority!authority)
<1> USE DEF HistoryInv
<1>1. CASE LeavesHistory
  <2>1. /\ State(history, Coverage)' = State(history, Coverage)
        /\ Cases(history)' = Cases(history)
    BY <1>1 DEF LeavesHistory
  <2> QED BY <2>1 DEF Authority!authority, Cases
<1>2. CASE AppendsOperation
  <2>1. PICK e \in Events : history' = history \o <<e>> /\ Admits(history, e)
    BY <1>2 DEF AppendsOperation
  <2>2. CASE e.target # Coverage
    <3>1. Authority!Decide(e.target) /\ e.target \in Signals
      BY <2>1, <2>2, CaseDecided, EventTypes
    <3> QED BY <3>1 DEF Authority!Next
  <2>3. CASE e.target = Coverage
    <3>1. /\ Cases(history') = Cases(history)
          /\ \/ /\ State(history, Coverage) = "none"
                /\ State(history', Coverage) = "opened"
             \/ /\ State(history, Coverage) = "opened"
                /\ State(history', Coverage) = "revoked"
      BY <2>1, <2>3, EventMoves
    <3>2. Authority!Cover \/ Authority!Revoke
      BY <3>1 DEF Authority!Cover, Authority!Revoke, Cases
    <3> QED BY <3>2 DEF Authority!Next
  <2> QED BY <2>2, <2>3
<1>3. CASE AppendsCapture
  <2>1. PICK s \in Signals : history' = history \o <<CoverageOp(s), CaseOp(s)>>
    BY <1>3 DEF AppendsCapture
  <2> DEFINE mid == history \o <<CoverageOp(s)>>
  <2>2. State(history, Coverage) = "none"
    BY <1>3 DEF AppendsCapture, LockInv
  <2>3. /\ history' = mid \o <<CaseOp(s)>> /\ mid \in Seq(Events)
        /\ Admits(history, CoverageOp(s)) /\ Admits(mid, CaseOp(s))
    BY <2>1, <2>2, CaptureIsTwoAppends
  <2>4. /\ CoverageOp(s).target = Coverage
        /\ CaseOp(s).target = s /\ CaseOp(s).action = "case_opened"
        /\ s # Coverage /\ CoverageOp(s) \in Events /\ CaseOp(s) \in Events
    BY CaptureOps, LedgerAssumption DEF CoverageOp, CaseOp
  <2>5. Cases(mid) = Cases(history)
    BY <2>3, <2>4, EventMoves
  <2> HIDE DEF mid
  <2>6. /\ State(history', Coverage) = "opened"
        /\ Cases(history') = [Cases(mid) EXCEPT ![s] = "case_opened"]
    BY <2>3, <2>4, EventMoves
  <2>7. State(history, s) = "none"
    BY <2>2, NoneBeforeCoverage
  <2>8. Authority!Move(s, "none", "case_opened")
    BY <2>5, <2>6, <2>7 DEF Authority!Move, Cases
  <2>9. Authority!Cover
    BY <2>2, <2>6, <2>8 DEF Authority!Cover
  <2> QED BY <2>9 DEF Authority!Next
<1> QED BY <1>1, <1>2, <1>3, StepHistory

(* The ledger, read by its latest events, is the authority CaseAuthority   *)
(* describes: whoever captures, adjudicates, revokes or repeats an         *)
(* operation, a case moves one legal transition at a time, only while its  *)
(* Semantic is covered, and nothing moves after the revocation.            *)
THEOREM ImplementsAuthority == Spec => Authority!Safety
<1>1. Init => Authority!Init
  <2> SUFFICES ASSUME Init PROVE Authority!Init
    OBVIOUS
  <2>1. history = <<>> /\ history \in Seq(Events) /\ DOMAIN history = {}
    BY DEF Init
  <2>2. \A t : State(history, t) = "none"
    BY <2>1, StateNone
  <2> QED BY <2>2 DEF Authority!Init
<1>2. Init => HistoryInv
  BY HistoryInit
<1>3. HistoryInv /\ [Next]_vars => HistoryInv'
  BY HistoryStep
<1>4. HistoryInv /\ [Next]_vars => [Authority!Next]_(Authority!authority)
  BY AuthorityStep
<1> QED BY <1>1, <1>2, <1>3, <1>4, PTL DEF Spec, Authority!Safety
=============================================================================
