---------------------- MODULE SignalConsolidation_proofs ----------------------
(* Proofs about SignalConsolidation, for any engines, runs, targets,       *)
(* scopes, thresholds, read windows and numbers of failures.               *)
EXTENDS SignalConsolidation, FiniteSetTheorems, WellFoundedInduction, TLAPS

(***************************************************************************)
(* Sets of ids.                                                            *)
(***************************************************************************)

\* A nonempty set of numbers has a first member, and a bounded one a last.
LEMMA FirstExists ==
  ASSUME NEW S \in SUBSET Nat, S # {}
  PROVE  \E i \in S : \A j \in S : i <= j
<1>1. PICK i \in S : \A j \in S : ~ (<<j, i>> \in OpToRel(<, Nat))
  BY NatLessThanWellFounded, WFMin
<1>2. ASSUME NEW j \in S PROVE i <= j
  <2>1. <<j, i>> \in OpToRel(<, Nat) <=> j < i
    BY DEF OpToRel
  <2>2. ~ (j < i)
    BY <1>1, <2>1, Zenon
  <2> QED BY <2>2
<1> QED BY <1>2

LEMMA LastExists ==
  ASSUME NEW n \in Nat, NEW S \in SUBSET (1..n), S # {}
  PROVE  \E i \in S : \A j \in S : j <= i
<1> DEFINE gap == {n - i : i \in S}
<1>1. gap \in SUBSET Nat
  BY SMT
<1>0. gap # {}
  BY Zenon
<1>2. PICK g \in gap : \A h \in gap : g <= h
  <2> HIDE DEF gap
  <2> QED BY <1>0, <1>1, FirstExists
<1>3. PICK i \in S : g = n - i
  OBVIOUS
<1>4. ASSUME NEW j \in S PROVE j <= i
  <2>1. g <= n - j
    BY <1>2
  <2> QED BY <1>3, <2>1
<1> QED BY <1>4

\* The cursors stay among the ids.
LEMMA NewestIsMember ==
  ASSUME NEW S \in SUBSET Ids, S # {}
  PROVE  Newest(S) \in S
<1>1. \E i \in S : \A j \in S : j <= i
  BY LastExists, ConstAssumption DEF Ids
<1> QED BY <1>1 DEF Newest

LEMMA CursorAfterType ==
  ASSUME NEW S \in SUBSET Ids
  PROVE  CursorAfter(S) \in 0..MaxSignals
<1>1. CASE Cardinality(S) < ownPendingQuota \/ S = {}
  BY <1>1, ConstAssumption DEF CursorAfter
<1>2. CASE ~(Cardinality(S) < ownPendingQuota \/ S = {})
  <2>1. Newest(S) \in S
    BY <1>2, NewestIsMember
  <2>2. CursorAfter(S) = Newest(S)
    BY <1>2, Zenon DEF CursorAfter
  <2>3. Newest(S) \in 1..MaxSignals
    BY <2>1 DEF Ids
  <2> QED BY <2>2, <2>3, ConstAssumption
<1> QED BY <1>1, <1>2

(***************************************************************************)
(* Type correctness.  That acknowledged ids are delivered ids needs the    *)
(* same of everything the runs hold.                                       *)
(***************************************************************************)

DeliveredInv ==
  /\ PendingIds \subseteq 1..delivered
  /\ \A r \in Runs : /\ batch[r] \subseteq 1..delivered
                     /\ \A p \in todo[r] : p.key.from \subseteq 1..delivered
                     /\ \A k \in durable[r] : k.from \subseteq 1..delivered

TypeInv == TypeOK /\ DeliveredInv

LEMMA TypeInit == ASSUME Init PROVE TypeInv
BY ConstAssumption DEF Init, TypeInv, TypeOK, DeliveredInv, Stages, Ids, PendingIds

LEMMA TypePublish ==
  ASSUME TypeInv, NEW t \in Targets, Publish(t)
  PROVE  TypeInv'
<1>1. stream' \in Seq(Targets) /\ Len(stream') = Len(stream) + 1
  BY DEF Publish, TypeInv, TypeOK
<1>2. TypeOK'
  BY <1>1, ConstAssumption DEF Publish, TypeInv, TypeOK, graphVars, runVars, cursors, reviewVars, bounds
<1>3. DeliveredInv'
  BY DEF Publish, TypeInv, TypeOK, DeliveredInv, PendingIds, runVars
<1> QED BY <1>2, <1>3 DEF TypeInv

LEMMA TypeRead ==
  ASSUME TypeInv, NEW r \in Runs, ReadOwn(r) \/ ReadNew(r) \/ (\E idle \in SUBSET PendingIds : ClaimStale(r, idle))
  PROVE  TypeInv'
<1>0. EngineOf[r] \in Engines
  BY ConstAssumption
<1>1. CASE ReadOwn(r)
  <2> DEFINE found == Oldest({i \in OwnIds(EngineOf[r]) : i > pendingCursor[EngineOf[r]]}, ownPendingQuota)
  <2>1. found \in SUBSET PendingIds /\ found \in SUBSET Ids
    BY <1>0, ConstAssumption DEF Oldest, OwnIds, PendingIds
  <2>2. CursorAfter(found) \in 0..MaxSignals
    BY <2>1, CursorAfterType
  <2> HIDE DEF found
  <2>3. /\ batch' = [batch EXCEPT ![r] = found]
        /\ pendingCursor' = [pendingCursor EXCEPT ![EngineOf[r]] = CursorAfter(found)]
        /\ pc' = [pc EXCEPT ![r] = "claim"]
        /\ UNCHANGED <<streamVars, lock, overlapped, graphVars, runScope, leaseFailure, todo,
                 durable, claimCursor, reviewVars, bounds>>
    BY <1>1 DEF ReadOwn, found
  <2>4. TypeOK'
    BY <1>0, <2>1, <2>2, <2>3 DEF TypeInv, TypeOK, Stages, streamVars, graphVars, reviewVars, bounds
  <2>5. DeliveredInv'
    BY <2>1, <2>3 DEF TypeInv, TypeOK, DeliveredInv, PendingIds, streamVars
  <2> QED BY <2>4, <2>5 DEF TypeInv
<1>2. CASE ReadNew(r)
  <2> DEFINE room  == Count - Cardinality(batch[r])
             limit == IF room > newQuota THEN room ELSE newQuota
             last  == IF delivered + limit < Len(stream) THEN delivered + limit
                      ELSE Len(stream)
  <2>1. last \in Nat /\ delivered <= last /\ last <= Len(stream)
    <3>1. IsFiniteSet(batch[r]) /\ Cardinality(batch[r]) \in Nat
      <4>1. IsFiniteSet(1..MaxSignals)
        BY FS_Interval, ConstAssumption
      <4> QED BY <4>1, FS_Subset, FS_CardinalityType DEF TypeInv, TypeOK, Ids
    <3>2. newQuota \in Nat /\ room \in Int
      BY <3>1, ConstAssumption DEF newQuota
    <3>3. limit \in Nat
      BY <3>2
    <3> HIDE DEF limit
    <3> QED BY <3>3 DEF TypeInv, TypeOK
  <2> HIDE DEF last
  <2>2. /\ delivered' = last
        /\ owner' = [i \in Ids |-> IF i \in (delivered + 1)..last THEN EngineOf[r] ELSE owner[i]]
        /\ batch' = [batch EXCEPT ![r] = @ \cup ((delivered + 1)..last)]
        /\ pc' = [pc EXCEPT ![r] = "generate"]
        /\ UNCHANGED <<stream, acked, lock, overlapped, graphVars, runScope, leaseFailure, todo,
                       durable, cursors, reviewVars, bounds>>
    BY <1>2 DEF ReadNew, last
  <2>3. (delivered + 1)..last \subseteq Ids /\ (delivered + 1)..last \subseteq 1..last
    BY <2>1, ConstAssumption DEF TypeInv, TypeOK, Ids
  <2>4. TypeOK'
    BY <1>0, <2>1, <2>2, <2>3, ConstAssumption
       DEF TypeInv, TypeOK, Stages, graphVars, cursors, reviewVars, bounds
  <2>5. 1..delivered \subseteq 1..last
    BY <2>1 DEF TypeInv, TypeOK
  <2>6. PendingIds' \subseteq 1..delivered'
    BY <2>2, <2>3, <2>5 DEF TypeInv, TypeOK, DeliveredInv, PendingIds
  <2>7. DeliveredInv'
    BY <2>2, <2>3, <2>5, <2>6 DEF TypeInv, TypeOK, DeliveredInv
  <2> QED BY <2>4, <2>7 DEF TypeInv
<1>3. ASSUME NEW idle \in SUBSET PendingIds, ClaimStale(r, idle)
      PROVE  TypeInv'
  <2> DEFINE quota == pendingQuota - Cardinality(batch[r])
             found == Oldest({i \in idle : i >= claimCursor[EngineOf[r]]}, quota)
             rest  == {i \in PendingIds : found # {} /\ i > Newest(found)}
             next  == IF Cardinality(found) < quota \/ rest = {} THEN 0
                      ELSE CHOOSE i \in rest : \A j \in rest : i <= j
  <2>1. found \in SUBSET PendingIds /\ found \in SUBSET Ids /\ rest \in SUBSET Ids
    BY DEF Oldest, PendingIds
  <2>2. next \in 0..MaxSignals
    <3> DEFINE first == CHOOSE i \in rest : \A j \in rest : i <= j
    <3> HIDE DEF rest, found, quota
    <3>1. rest # {} => first \in rest
      <4> SUFFICES ASSUME rest # {} PROVE first \in rest
        OBVIOUS
      <4>1. \E i \in rest : \A j \in rest : i <= j
        BY <2>1, FirstExists DEF Ids
      <4> QED BY <4>1
    <3> HIDE DEF first
    <3>2. next = IF Cardinality(found) < quota \/ rest = {} THEN 0 ELSE first
      BY DEF first
    <3> HIDE DEF next
    <3> QED BY <3>1, <3>2, <2>1, ConstAssumption DEF Ids
  <2> HIDE DEF found, rest, next, quota
  <2>3. /\ pc' = [pc EXCEPT ![r] = "new"]
        /\ \/ /\ owner' = [i \in Ids |-> IF i \in found THEN EngineOf[r] ELSE owner[i]]
              /\ batch' = [batch EXCEPT ![r] = @ \cup found]
              /\ claimCursor' = [claimCursor EXCEPT ![EngineOf[r]] = next]
           \/ UNCHANGED <<owner, batch, claimCursor>>
        /\ UNCHANGED <<stream, delivered, acked, lock, overlapped, graphVars, runScope,
                 leaseFailure, todo, durable, pendingCursor, reviewVars, bounds>>
    BY <1>3 DEF ClaimStale, quota, found, rest, next
  <2>4. TypeOK'
    BY <1>0, <2>1, <2>2, <2>3 DEF TypeInv, TypeOK, Stages, graphVars, reviewVars, bounds
  <2>5. PendingIds' \subseteq PendingIds
    BY <2>1, <2>3 DEF TypeInv, TypeOK, PendingIds
  <2>6. found \subseteq 1..delivered
    BY <2>1 DEF TypeInv, DeliveredInv
  <2>7. \A q \in Runs : batch'[q] \subseteq 1..delivered
    <3>1. batch' = [batch EXCEPT ![r] = batch[r] \cup found] \/ batch' = batch
      BY <2>3
    <3>2. batch \in [Runs -> SUBSET Ids] /\ \A q \in Runs : batch[q] \subseteq 1..delivered
      BY DEF TypeInv, TypeOK, DeliveredInv
    <3> QED BY <3>1, <3>2, <2>6
  <2>8. UNCHANGED <<delivered, todo, durable>>
    BY <2>3
  <2>9. DeliveredInv'
    BY <2>5, <2>7, <2>8 DEF TypeInv, DeliveredInv
  <2> QED BY <2>4, <2>9 DEF TypeInv
<1> QED BY <1>1, <1>2, <1>3

LEMMA TypeLease ==
  ASSUME TypeInv, NEW s \in Scopes, LeaseExpires(s) \/ LeaseLapses(s)
  PROVE  TypeInv'
<1>1. /\ lock' = [lock EXCEPT ![s] = None]
      /\ lapses' \in 0..MaxLapses
      /\ UNCHANGED <<streamVars, overlapped, graphVars, pc, runVars, cursors,
                     reviewVars, crashes, failures>>
  BY ConstAssumption DEF LeaseExpires, LeaseLapses, TypeInv, TypeOK, bounds
<1>2. TypeOK'
  BY <1>1 DEF TypeInv, TypeOK, streamVars, graphVars, cursors, reviewVars, runVars
<1>3. DeliveredInv'
  BY <1>1 DEF TypeInv, DeliveredInv, PendingIds, streamVars, runVars
<1> QED BY <1>2, <1>3 DEF TypeInv

LEMMA TypeAcquire ==
  ASSUME TypeInv, NEW r \in Runs, NEW s \in Scopes, Acquire(r, s)
  PROVE  TypeInv'
<1>0. EngineOf[r] \in Engines
  BY ConstAssumption
<1>1. TypeOK'
  BY <1>0 DEF Acquire, Overlapping, TypeInv, TypeOK, Stages, streamVars, graphVars, cursors, reviewVars, bounds
<1>2. DeliveredInv'
  BY DEF Acquire, TypeInv, DeliveredInv, PendingIds, streamVars
<1> QED BY <1>1, <1>2 DEF TypeInv

LEMMA TypeFails ==
  ASSUME TypeInv, NEW r \in Runs, HeartbeatFails(r) \/ RunAborts(r)
  PROVE  TypeInv'
<1>0. failures' \in 0..MaxFailures
  BY ConstAssumption DEF HeartbeatFails, RunAborts, TypeInv, TypeOK
<1>4. pc' \in [Runs -> Stages] /\ leaseFailure' \in [Runs -> BOOLEAN]
  BY DEF HeartbeatFails, RunAborts, TypeInv, TypeOK, Stages, runVars
<1>1. /\ UNCHANGED <<streamVars, lock, overlapped, graphVars, runScope, batch, todo, durable, cursors,
                     reviewVars, lapses, crashes>>
  BY DEF HeartbeatFails, RunAborts, runVars
<1>2. TypeOK'
  BY <1>0, <1>1, <1>4 DEF TypeInv, TypeOK, streamVars, graphVars, cursors, reviewVars
<1>3. DeliveredInv'
  BY <1>1 DEF TypeInv, DeliveredInv, PendingIds, streamVars
<1> QED BY <1>2, <1>3 DEF TypeInv

LEMMA TypeGenerate ==
  ASSUME TypeInv, NEW r \in Runs, Generate(r)
  PROVE  TypeInv'
<1> DEFINE new == {[key |-> [target |-> t, from |-> Cluster(r, t)],
                    confidence |-> confidence[t] + 1] : t \in Ripe(r)}
<1>1. \A t \in Targets : Cluster(r, t) \subseteq batch[r]
  BY DEF Cluster
<1>2. \A t \in Targets : confidence[t] + 1 \in Nat /\ Cluster(r, t) \in SUBSET Ids
  BY <1>1 DEF TypeInv, TypeOK
<1>3. new \in SUBSET Proposals
  BY <1>2 DEF Proposals, Keys, Ripe
<1>4. \A p \in new : p.key.from \subseteq 1..delivered
  BY <1>1 DEF Ripe, TypeInv, DeliveredInv
<1> HIDE DEF new
<1>5. /\ todo' = [todo EXCEPT ![r] = new]
      /\ pc' = [pc EXCEPT ![r] = "apply"]
      /\ UNCHANGED <<streamVars, lock, overlapped, graphVars, runScope, leaseFailure, batch,
                 durable, cursors, reviewVars, bounds>>
  BY DEF Generate, new
<1>6. TypeOK'
  BY <1>3, <1>5 DEF TypeInv, TypeOK, Stages, streamVars, graphVars, cursors, reviewVars, bounds
<1>7. \A q \in Runs : \A p \in todo'[q] : p.key.from \subseteq 1..delivered
  BY <1>4, <1>5 DEF TypeInv, TypeOK, DeliveredInv
<1>8. DeliveredInv'
  BY <1>5, <1>7 DEF TypeInv, DeliveredInv, PendingIds, streamVars
<1> QED BY <1>6, <1>8 DEF TypeInv

\* An application, whoever makes it, writes a typed confidence.
LEMMA GraphType ==
  ASSUME TypeInv, NEW p \in Proposals, SetConfidence(p) \/ UNCHANGED graphVars
  PROVE  confidence' \in [Targets -> Nat] /\ applied' \subseteq Keys
<1>1. p.key \in Keys /\ p.confidence \in Nat
  BY DEF Proposals
<1> QED BY <1>1 DEF SetConfidence, graphVars, TypeInv, TypeOK

LEMMA TypeHandle ==
  ASSUME TypeInv, NEW r \in Runs, NEW p \in todo[r],
         Apply(r, p) \/ ApplyFails(r, p) \/ Save(r, p)
  PROVE  TypeInv'
<1>1. p \in Proposals /\ p.key \in Keys
  BY DEF TypeInv, TypeOK, Proposals
<1>2. SetConfidence(p) \/ UNCHANGED graphVars
  BY DEF Apply, ApplyFails, Save
<1>3. confidence' \in [Targets -> Nat] /\ applied' \subseteq Keys
  BY <1>1, <1>2, GraphType
<1>4. /\ Handles(r, p)
      /\ durable' = [durable EXCEPT ![r] = durable[r] \cup {p.key}] \/ durable' = durable
      /\ pending' = Without(p.key) \cup {p} \/ pending' = pending
      /\ failures' \in 0..MaxFailures
  BY ConstAssumption DEF Apply, ApplyFails, Save, DurableWork, FailedWork, TypeInv, TypeOK
<1>11. durable' \in [Runs -> SUBSET Keys] /\ pending' \subseteq Proposals
  <2>1. durable \in [Runs -> SUBSET Keys] /\ pending \subseteq Proposals
    BY DEF TypeInv, TypeOK
  <2>2. durable' \in [Runs -> SUBSET Keys]
    BY <1>1, <1>4, <2>1
  <2>3. pending' \subseteq Proposals
    BY <1>1, <1>4, <2>1 DEF Without
  <2> QED BY <2>2, <2>3
<1>12. todo' \in [Runs -> SUBSET Proposals]
  BY <1>4 DEF Handles, TypeInv, TypeOK
<1>13. failures' \in 0..MaxFailures
  BY <1>4
<1>5. TypeOK'
  BY <1>3, <1>4, <1>11, <1>12, <1>13 DEF Handles, TypeInv, TypeOK, streamVars, cursors
<1>6. p.key.from \subseteq 1..delivered
  BY DEF TypeInv, DeliveredInv
<1>7. \A q \in Runs : \A k \in durable'[q] : k.from \subseteq 1..delivered
  <2>1. durable' = [durable EXCEPT ![r] = durable[r] \cup {p.key}] \/ durable' = durable
    BY <1>4
  <2>2. durable \in [Runs -> SUBSET Keys]
    BY DEF TypeInv, TypeOK
  <2>3. \A q \in Runs : \A k \in durable[q] : k.from \subseteq 1..delivered
    BY DEF TypeInv, DeliveredInv
  <2> QED BY <1>6, <2>1, <2>2, <2>3
<1>8. \A q \in Runs : todo'[q] \subseteq todo[q]
  BY <1>4 DEF Handles, TypeInv, TypeOK
<1>9. UNCHANGED <<owner, delivered, batch>>
  BY <1>4 DEF Handles, streamVars
<1>10. DeliveredInv'
  BY <1>7, <1>8, <1>9 DEF TypeInv, DeliveredInv, PendingIds
<1> QED BY <1>5, <1>10 DEF TypeInv

LEMMA TypeEnd ==
  ASSUME TypeInv, NEW r \in Runs, Handled(r) \/ Ack(r) \/ Release(r)
  PROVE  TypeInv'
<1>1. CASE Handled(r)
  <2>1. TypeOK'
    BY <1>1 DEF Handled, TypeInv, TypeOK, Stages, streamVars, graphVars, runVars, cursors, reviewVars, bounds
  <2>2. DeliveredInv'
    BY <1>1 DEF Handled, TypeInv, DeliveredInv, PendingIds, streamVars, runVars
  <2> QED BY <2>1, <2>2 DEF TypeInv
<1>2. CASE Ack(r)
  <2>1. Acknowledged(r) \subseteq 1..delivered
    BY DEF Acknowledged, TypeInv, DeliveredInv
  <2>2. TypeOK'
    BY <1>2, <2>1 DEF Ack, TypeInv, TypeOK, Stages, graphVars, runVars, cursors, reviewVars, bounds
  <2>3. PendingIds' \subseteq PendingIds
    BY <1>2 DEF Ack, PendingIds, TypeInv, TypeOK
  <2>4. DeliveredInv'
    BY <1>2, <2>3 DEF Ack, TypeInv, DeliveredInv, runVars
  <2> QED BY <2>2, <2>4 DEF TypeInv
<1>3. CASE Release(r)
  <2>0. lock' \in [Scopes -> Engines \cup {None}] /\ failures' \in 0..MaxFailures
    <3>1. lock \in [Scopes -> Engines \cup {None}] /\ failures \in 0..MaxFailures
      BY DEF TypeInv, TypeOK
    <3>2. \/ lock' = [lock EXCEPT ![runScope[r]] = IF lock[runScope[r]] = EngineOf[r]
                                                  THEN None ELSE lock[runScope[r]]]
          \/ lock' = lock
      BY <1>3 DEF Release
    <3>3. lock' \in [Scopes -> Engines \cup {None}]
      BY <3>1, <3>2
    <3>4. failures' \in 0..MaxFailures
      BY <1>3, <3>1, ConstAssumption DEF Release
    <3> QED BY <3>3, <3>4
  <2>1. TypeOK'
    BY <1>3, <2>0
       DEF Release, TypeInv, TypeOK, Stages, streamVars, graphVars, cursors, reviewVars
  <2>2. DeliveredInv'
    BY <1>3 DEF Release, TypeInv, TypeOK, DeliveredInv, PendingIds, streamVars
  <2> QED BY <2>1, <2>2 DEF TypeInv
<1> QED BY <1>1, <1>2, <1>3

LEMMA TypeCrash ==
  ASSUME TypeInv, NEW e \in Engines, Crash(e)
  PROVE  TypeInv'
<1>0. crashes' \in 0..MaxCrashes
  BY ConstAssumption DEF Crash, TypeInv, TypeOK
<1>1. TypeOK'
  BY <1>0
     DEF Crash, TypeInv, TypeOK, Stages, streamVars, graphVars, cursors, reviewVars, bounds
<1>2. DeliveredInv'
  BY DEF Crash, TypeInv, TypeOK, DeliveredInv, PendingIds, streamVars
<1> QED BY <1>1, <1>2 DEF TypeInv

LEMMA TypeReview ==
  ASSUME TypeInv, Review
  PROVE  TypeInv'
<1>1. pending \subseteq Proposals /\ approving \subseteq Proposals
  BY DEF TypeInv, TypeOK
<1>2. ASSUME NEW p \in pending, Reject(p) \/ ApproveFetches(p)
      PROVE  TypeOK'
  <2>1. p \in Proposals /\ p.key \in Keys
    BY <1>1 DEF Proposals
  <2> QED BY <1>2, <2>1 DEF Reject, ApproveFetches, Without, TypeInv, TypeOK, streamVars, graphVars,
             runVars, cursors, bounds
<1>3. ASSUME NEW p \in approving, ApproveApplies(p) \/ ApproveFails(p)
      PROVE  TypeOK'
  <2>1. p \in Proposals /\ p.key \in Keys
    BY <1>1 DEF Proposals
  <2>2. SetConfidence(p) \/ UNCHANGED graphVars
    BY <1>3 DEF ApproveApplies, ApproveFails
  <2>3. confidence' \in [Targets -> Nat] /\ applied' \subseteq Keys
    BY <2>1, <2>2, GraphType
  <2>4. removing' \subseteq removing \cup {p.key}
    BY <1>3 DEF ApproveApplies, ApproveFails, KeptUnlessApplied
  <2>5. /\ approving' = approving \ {p} /\ failures' \in 0..MaxFailures
        /\ UNCHANGED <<streamVars, lock, overlapped, pc, runVars, cursors, pending, rejected, lapses, crashes>>
    BY <1>3, ConstAssumption DEF ApproveApplies, ApproveFails, TypeInv, TypeOK, bounds
  <2> QED BY <2>1, <2>3, <2>4, <2>5 DEF TypeInv, TypeOK, streamVars, runVars, cursors
<1>4. ASSUME NEW k \in removing, ApproveRemoves(k)
      PROVE  TypeOK'
  BY <1>4 DEF ApproveRemoves, Without, TypeInv, TypeOK, streamVars, graphVars, runVars, cursors, bounds
<1>5. UNCHANGED <<owner, delivered, batch, todo, durable>>
  BY DEF Review, Reject, ApproveFetches, ApproveApplies, ApproveFails, ApproveRemoves, streamVars, runVars
<1>6. DeliveredInv'
  BY <1>5 DEF TypeInv, DeliveredInv, PendingIds
<1> QED BY <1>2, <1>3, <1>4, <1>6 DEF Review, TypeInv

LEMMA TypeNext ==
  ASSUME TypeInv, [Next]_vars
  PROVE  TypeInv'
<1>1. CASE UNCHANGED vars
  BY <1>1 DEF vars, TypeInv, TypeOK, DeliveredInv, PendingIds, streamVars, graphVars, runVars,
     cursors, reviewVars, bounds
<1>2. ASSUME NEW r \in Runs, Run(r) PROVE TypeInv'
  BY <1>2, TypeRead, TypeAcquire, TypeFails, TypeGenerate, TypeHandle, TypeEnd DEF Run, Step
<1>3. ASSUME NEW s \in Scopes, LeaseExpires(s) \/ LeaseLapses(s) PROVE TypeInv'
  BY <1>3, TypeLease
<1>4. ASSUME NEW e \in Engines, Crash(e) PROVE TypeInv'
  BY <1>4, TypeCrash
<1> QED BY <1>1, <1>2, <1>3, <1>4, TypePublish, TypeReview DEF Next

\* The state of the stream, the locks, the runs and the review store stays well
\* typed; in particular nothing is acknowledged that was not delivered.
THEOREM TypeCorrect == Spec => []TypeOK
<1>1. Init => TypeInv
  BY TypeInit
<1>2. TypeInv /\ [Next]_vars => TypeInv'
  BY TypeNext
<1>3. TypeInv => TypeOK
  BY DEF TypeInv
<1> QED BY <1>1, <1>2, <1>3, PTL DEF Spec

(***************************************************************************)
(* No signal is lost.  What makes an acknowledgement safe is that nothing  *)
(* is ever taken back: a durable proposal stays applied, waiting or        *)
(* rejected.  A proposal leaves the review store only when it is rejected  *)
(* or already applied.                                                     *)
(***************************************************************************)

LossInv == /\ removing \subseteq applied
           /\ \A r \in Runs : durable[r] \subseteq Kept
           /\ NoSignalLost

LEMMA AppliedGrows ==
  ASSUME NEW p, SetConfidence(p) \/ UNCHANGED graphVars
  PROVE  applied \subseteq applied' /\ (SetConfidence(p) => p.key \in applied')
BY DEF SetConfidence, NotApplied, graphVars

\* The keys left when one is removed, and when one is saved.
LEMMA WithoutKeys ==
  ASSUME NEW k
  PROVE  PendingKeys \subseteq {q.key : q \in Without(k)} \cup {k}
BY DEF PendingKeys, Without

\* Steps that concern neither the graph nor the review store.
Elsewhere == UNCHANGED <<graphVars, reviewVars>>

LEMMA LossElsewhere ==
  ASSUME LossInv, Elsewhere, \A r \in Runs : durable'[r] \subseteq durable[r],
         UNCHANGED acked
  PROVE  LossInv'
BY DEF LossInv, Elsewhere, Kept, PendingKeys, NoSignalLost, Effective, graphVars, reviewVars

LEMMA LossAck ==
  ASSUME LossInv, NEW r \in Runs, Ack(r)
  PROVE  LossInv'
<1>1. Acknowledged(r) \subseteq UNION {k.from : k \in Kept}
  BY DEF Acknowledged, LossInv
<1>2. UNCHANGED <<applied, pending, rejected, removing, durable>>
  BY DEF Ack, graphVars, reviewVars, runVars
<1>3. acked' \subseteq UNION {k.from : k \in Kept}
  BY <1>1 DEF Ack, LossInv, NoSignalLost, Effective, Kept
<1> QED BY <1>2, <1>3 DEF LossInv, NoSignalLost, Effective, Kept, PendingKeys

\* Whatever changes in the graph and the review store, it is enough that kept
\* keys stay kept.
LEMMA LossKept ==
  ASSUME LossInv, Kept \subseteq Kept', removing' \subseteq applied', UNCHANGED acked,
         \A r \in Runs : durable'[r] \subseteq Kept'
  PROVE  LossInv'
<1>1. acked \subseteq UNION {k.from : k \in Kept}
  BY DEF LossInv, NoSignalLost, Effective
<1>2. acked' \subseteq UNION {k.from : k \in Kept'}
  BY <1>1
<1>3. NoSignalLost'
  BY <1>2 DEF NoSignalLost, Effective, Kept
<1> QED BY <1>3 DEF LossInv

LEMMA LossHandle ==
  ASSUME TypeInv, LossInv, NEW r \in Runs, NEW p \in todo[r],
         Apply(r, p) \/ ApplyFails(r, p) \/ Save(r, p)
  PROVE  LossInv'
<1>1. UNCHANGED <<acked, removing, rejected>>
  BY DEF Apply, ApplyFails, Save, Handles, streamVars
<1>2. applied \subseteq applied'
  BY AppliedGrows DEF Apply, ApplyFails, Save
<1>3. PendingKeys \subseteq PendingKeys'
  <2>1. CASE UNCHANGED pending
    BY <2>1 DEF PendingKeys
  <2>2. CASE pending' = Without(p.key) \cup {p}
    <3>1. PendingKeys' = {q.key : q \in Without(p.key)} \cup {p.key}
      BY <2>2 DEF PendingKeys
    <3> QED BY <3>1, WithoutKeys
  <2>3. UNCHANGED pending \/ pending' = Without(p.key) \cup {p}
    BY DEF Apply, ApplyFails, Save
  <2> QED BY <2>1, <2>2, <2>3
<1>4. Kept \subseteq Kept'
  BY <1>1, <1>2, <1>3 DEF Kept
<1>5. \/ durable' = durable
      \/ durable' = [durable EXCEPT ![r] = durable[r] \cup {p.key}] /\ p.key \in Kept'
  <2>1. CASE Apply(r, p)
    BY <2>1, AppliedGrows DEF Apply, DurableWork, Kept
  <2>2. CASE ApplyFails(r, p)
    BY <2>2 DEF ApplyFails, FailedWork
  <2>3. CASE Save(r, p)
    BY <2>3 DEF Save, DurableWork, Kept, PendingKeys
  <2> QED BY <2>1, <2>2, <2>3
<1>6. durable \in [Runs -> SUBSET Keys]
  BY DEF TypeInv, TypeOK
<1>7. \A q \in Runs : durable'[q] \subseteq Kept'
  BY <1>4, <1>5, <1>6 DEF LossInv
<1>8. removing' \subseteq applied'
  BY <1>1, <1>2 DEF LossInv
<1> QED BY <1>1, <1>4, <1>7, <1>8, LossKept

LEMMA LossReview ==
  ASSUME TypeInv, LossInv, Review
  PROVE  LossInv'
<1>1. UNCHANGED <<acked, durable>>
  BY DEF Review, Reject, ApproveFetches, ApproveApplies, ApproveFails, ApproveRemoves,
         streamVars, runVars
<1>2. Kept \subseteq Kept' /\ removing' \subseteq applied'
  <2>1. ASSUME NEW p \in pending, Reject(p) \/ ApproveFetches(p)
        PROVE  Kept \subseteq Kept' /\ removing' \subseteq applied'
    <3>1. CASE Reject(p)
      BY <3>1, WithoutKeys DEF Reject, Kept, PendingKeys, LossInv, graphVars
    <3>2. CASE ApproveFetches(p)
      BY <3>2 DEF ApproveFetches, Kept, PendingKeys, LossInv, graphVars
    <3> QED BY <2>1, <3>1, <3>2
  <2>2. ASSUME NEW p \in approving, ApproveApplies(p) \/ ApproveFails(p)
        PROVE  Kept \subseteq Kept' /\ removing' \subseteq applied'
    <3>1. UNCHANGED <<pending, rejected>>
      BY <2>2 DEF ApproveApplies, ApproveFails
    <3>2. applied \subseteq applied'
      BY <2>2, AppliedGrows DEF ApproveApplies, ApproveFails
    <3>3. removing' \subseteq applied'
      BY <2>2, <3>2, AppliedGrows DEF ApproveApplies, ApproveFails, KeptUnlessApplied, LossInv
    <3> QED BY <3>1, <3>2, <3>3 DEF Kept, PendingKeys
  <2>3. ASSUME NEW k \in removing, ApproveRemoves(k)
        PROVE  Kept \subseteq Kept' /\ removing' \subseteq applied'
    <3>1. pending' = Without(k) /\ UNCHANGED <<applied, rejected>> /\ removing' \subseteq removing
      BY <2>3 DEF ApproveRemoves, graphVars
    <3>2. PendingKeys \subseteq PendingKeys' \cup {k}
      BY <3>1, WithoutKeys DEF PendingKeys
    <3>3. removing \subseteq applied
      BY DEF LossInv
    <3> QED BY <3>1, <3>2, <3>3 DEF Kept
  <2> QED BY <2>1, <2>2, <2>3 DEF Review
<1> QED BY <1>1, <1>2, LossKept DEF LossInv

LEMMA LossNext ==
  ASSUME TypeInv, LossInv, [Next]_vars
  PROVE  LossInv'
<1>1. CASE UNCHANGED vars
  BY <1>1, LossElsewhere DEF vars, streamVars, runVars, Elsewhere
<1>2. ASSUME NEW t \in Targets, Publish(t) PROVE LossInv'
  BY <1>2, LossElsewhere DEF Publish, runVars, Elsewhere
<1>3. ASSUME NEW r \in Runs, Run(r) PROVE LossInv'
  <2>1. ASSUME NEW s \in Scopes, Acquire(r, s) PROVE LossInv'
    BY <2>1, LossElsewhere DEF Acquire, streamVars, Elsewhere
  <2>2. ASSUME NEW idle \in SUBSET PendingIds, ClaimStale(r, idle) PROVE LossInv'
    BY <2>2, LossElsewhere DEF ClaimStale, Elsewhere
  <2>3. CASE ReadOwn(r) \/ ReadNew(r) \/ Generate(r) \/ Handled(r)
    BY <2>3, LossElsewhere
       DEF ReadOwn, ReadNew, Generate, Handled, streamVars, runVars, Elsewhere
  <2>4. CASE RunAborts(r) \/ HeartbeatFails(r)
    BY <2>4, LossElsewhere DEF RunAborts, HeartbeatFails, streamVars, runVars, Elsewhere
  <2>5. CASE Release(r)
    <3>1. \A q \in Runs : durable'[q] \subseteq durable[q]
      BY <2>5 DEF Release, TypeInv, TypeOK
    <3> QED BY <2>5, <3>1, LossElsewhere DEF Release, streamVars, Elsewhere
  <2> QED BY <1>3, <2>1, <2>2, <2>3, <2>4, <2>5, LossAck, LossHandle DEF Run, Step
<1>4. ASSUME NEW e \in Engines, Crash(e) PROVE LossInv'
  <2>1. \A q \in Runs : durable'[q] \subseteq durable[q]
    BY <1>4 DEF Crash
  <2> QED BY <1>4, <2>1, LossElsewhere DEF Crash, streamVars, Elsewhere
<1>5. ASSUME NEW s \in Scopes, LeaseExpires(s) \/ LeaseLapses(s) PROVE LossInv'
  BY <1>5, LossElsewhere DEF LeaseExpires, LeaseLapses, streamVars, runVars, Elsewhere
<1> QED BY <1>1, <1>2, <1>3, <1>4, <1>5, LossReview DEF Next

\* For any engines, shared or not, and any pattern of rejected commands,
\* crashes and lost leases: an acknowledged signal belongs to a proposal that
\* was applied, waits for review or was rejected.
THEOREM SignalsKept == Spec => []NoSignalLost
<1>1. Init => TypeInv /\ LossInv
  BY TypeInit DEF Init, LossInv, NoSignalLost, Effective, Kept
<1>2. TypeInv /\ LossInv /\ [Next]_vars => TypeInv' /\ LossInv'
  BY TypeNext, LossNext
<1>3. LossInv => NoSignalLost
  BY DEF LossInv
<1> QED BY <1>1, <1>2, <1>3, PTL DEF Spec

(***************************************************************************)
(* A signal is owed until its work is durable, and done for good from then *)
(* on: each signal implements AtLeastOnce.  Needed besides what is above:  *)
(* nothing is done before it is published, since the proposals there are   *)
(* were all made of delivered signals.                                     *)
(***************************************************************************)

ApprovingKeys == {p.key : p \in approving}
TodoKeys == UNION {{p.key : p \in todo[r]} : r \in Runs}
SourceInv == \A k \in Kept \cup ApprovingKeys : k.from \subseteq 1..delivered

\* What a step adds to the proposals that are kept or being approved was
\* proposed, and what is kept stays kept.
KeptMoves ==
  /\ Kept \subseteq Kept'
  /\ Kept' \cup ApprovingKeys' \subseteq Kept \cup ApprovingKeys \cup TodoKeys

LEMMA KeptElsewhere == ASSUME Elsewhere PROVE KeptMoves
BY DEF Elsewhere, KeptMoves, Kept, PendingKeys, ApprovingKeys, graphVars, reviewVars

LEMMA AppliedMoves ==
  ASSUME NEW p, SetConfidence(p) \/ UNCHANGED graphVars
  PROVE  applied \subseteq applied' /\ applied' \subseteq applied \cup {p.key}
BY DEF SetConfidence, NotApplied, graphVars

LEMMA KeptHandle ==
  ASSUME NEW r \in Runs, NEW p \in todo[r],
         Apply(r, p) \/ ApplyFails(r, p) \/ Save(r, p)
  PROVE  KeptMoves
<1>1. UNCHANGED <<approving, rejected>>
  BY DEF Apply, ApplyFails, Save, Handles
<1>2. applied \subseteq applied' /\ applied' \subseteq applied \cup {p.key}
  BY AppliedMoves DEF Apply, ApplyFails, Save
<1>3. p.key \in TodoKeys
  BY DEF TodoKeys
<1>4. /\ PendingKeys \subseteq PendingKeys'
      /\ PendingKeys' \subseteq PendingKeys \cup {p.key}
  <2>1. CASE UNCHANGED pending
    BY <2>1 DEF PendingKeys
  <2>2. CASE pending' = Without(p.key) \cup {p}
    <3>1. PendingKeys' = {q.key : q \in Without(p.key)} \cup {p.key}
      BY <2>2 DEF PendingKeys
    <3>2. {q.key : q \in Without(p.key)} \subseteq PendingKeys
      BY DEF Without, PendingKeys
    <3> QED BY <3>1, <3>2, WithoutKeys
  <2> QED BY <2>1, <2>2 DEF Apply, ApplyFails, Save
<1>5. ApprovingKeys' = ApprovingKeys
  BY <1>1 DEF ApprovingKeys
<1> QED BY <1>1, <1>2, <1>3, <1>4, <1>5 DEF KeptMoves, Kept

LEMMA KeptReview ==
  ASSUME LossInv, Review
  PROVE  KeptMoves
<1>0. ASSUME NEW k
      PROVE  {q.key : q \in Without(k)} \subseteq PendingKeys
  BY DEF Without, PendingKeys
<1>1. ASSUME NEW p \in pending, Reject(p) PROVE KeptMoves
  <2>1. /\ PendingKeys' = {q.key : q \in Without(p.key)}
        /\ applied' = applied /\ rejected' = rejected \cup {p.key}
        /\ ApprovingKeys' = ApprovingKeys /\ p.key \in PendingKeys
    BY <1>1 DEF Reject, PendingKeys, ApprovingKeys, graphVars
  <2> QED BY <1>0, <2>1, WithoutKeys DEF KeptMoves, Kept
<1>2. ASSUME NEW p \in pending, ApproveFetches(p) PROVE KeptMoves
  <2>1. /\ UNCHANGED <<PendingKeys, applied, rejected>> /\ p.key \in PendingKeys
        /\ ApprovingKeys' = ApprovingKeys \cup {p.key}
    BY <1>2 DEF ApproveFetches, PendingKeys, ApprovingKeys, graphVars
  <2> QED BY <2>1 DEF KeptMoves, Kept
<1>3. ASSUME NEW p \in approving, ApproveApplies(p) \/ ApproveFails(p) PROVE KeptMoves
  <2>1. /\ UNCHANGED <<PendingKeys, rejected>> /\ p.key \in ApprovingKeys
        /\ ApprovingKeys' \subseteq ApprovingKeys
    BY <1>3 DEF ApproveApplies, ApproveFails, PendingKeys, ApprovingKeys
  <2>2. applied \subseteq applied' /\ applied' \subseteq applied \cup {p.key}
    BY <1>3, AppliedMoves DEF ApproveApplies, ApproveFails
  <2> QED BY <2>1, <2>2 DEF KeptMoves, Kept
<1>4. ASSUME NEW k \in removing, ApproveRemoves(k) PROVE KeptMoves
  <2>1. /\ PendingKeys' = {q.key : q \in Without(k)}
        /\ UNCHANGED <<applied, rejected, ApprovingKeys>> /\ k \in applied
    BY <1>4 DEF ApproveRemoves, PendingKeys, ApprovingKeys, LossInv, graphVars
  <2> QED BY <1>0, <2>1, WithoutKeys DEF KeptMoves, Kept
<1> QED BY <1>1, <1>2, <1>3, <1>4 DEF Review

LEMMA KeptNext ==
  ASSUME LossInv, [Next]_vars
  PROVE  KeptMoves
<1>1. CASE UNCHANGED vars
  BY <1>1, KeptElsewhere DEF vars, Elsewhere
<1>2. ASSUME NEW t \in Targets, Publish(t) PROVE KeptMoves
  BY <1>2, KeptElsewhere DEF Publish, Elsewhere
<1>3. ASSUME NEW r \in Runs, Run(r) PROVE KeptMoves
  <2>1. ASSUME NEW s \in Scopes, Acquire(r, s) PROVE KeptMoves
    BY <2>1, KeptElsewhere DEF Acquire, Elsewhere
  <2>2. ASSUME NEW idle \in SUBSET PendingIds, ClaimStale(r, idle) PROVE KeptMoves
    BY <2>2, KeptElsewhere DEF ClaimStale, Elsewhere
  <2>3. CASE ReadOwn(r) \/ ReadNew(r) \/ Generate(r) \/ Handled(r) \/ Ack(r) \/ Release(r)
    BY <2>3, KeptElsewhere
       DEF ReadOwn, ReadNew, Generate, Handled, Ack, Release, Elsewhere
  <2>4. CASE RunAborts(r) \/ HeartbeatFails(r)
    BY <2>4, KeptElsewhere DEF RunAborts, HeartbeatFails, Elsewhere
  <2> QED BY <1>3, <2>1, <2>2, <2>3, <2>4, KeptHandle DEF Run, Step
<1>4. ASSUME NEW e \in Engines, Crash(e) PROVE KeptMoves
  BY <1>4, KeptElsewhere DEF Crash, Elsewhere
<1>5. ASSUME NEW s \in Scopes, LeaseExpires(s) \/ LeaseLapses(s) PROVE KeptMoves
  BY <1>5, KeptElsewhere DEF LeaseExpires, LeaseLapses, Elsewhere
<1> QED BY <1>1, <1>2, <1>3, <1>4, <1>5, KeptReview DEF Next

\* The stream only grows, by one signal at a time; so does what was delivered.
StreamMoves ==
  /\ delivered \in Nat /\ delivered' \in Nat /\ delivered <= delivered'
  /\ Len(stream) \in Nat /\ delivered <= Len(stream)
  /\ \/ Len(stream') = Len(stream)
     \/ Len(stream') = Len(stream) + 1 /\ Elsewhere

LEMMA StreamNext ==
  ASSUME TypeInv, [Next]_vars
  PROVE  StreamMoves
<1>0. /\ Len(stream) \in Nat /\ stream \in Seq(Targets) /\ delivered \in 0..Len(stream)
      /\ delivered \in Nat
  BY DEF TypeInv, TypeOK
<1>a. ASSUME UNCHANGED <<stream, delivered>> PROVE StreamMoves
  BY <1>0, <1>a DEF StreamMoves
<1>1. CASE UNCHANGED vars
  BY <1>1, <1>a DEF vars, streamVars
<1>2. ASSUME NEW t \in Targets, Publish(t) PROVE StreamMoves
  <2>1. Len(stream') = Len(stream) + 1 /\ delivered' = delivered /\ Elsewhere
    BY <1>0, <1>2 DEF Publish, Elsewhere
  <2> QED BY <1>0, <2>1 DEF StreamMoves
<1>3. ASSUME NEW r \in Runs, Run(r) PROVE StreamMoves
  <2>1. CASE ReadNew(r)
    <3>1. stream' = stream /\ delivered' \in Nat /\ delivered <= delivered'
      <4>1. TypeInv'
        BY TypeNext
      <4>2. delivered' \in 0..Len(stream') /\ stream' = stream
        BY <2>1, <4>1 DEF ReadNew, TypeInv, TypeOK
      <4> DEFINE room == Count - Cardinality(batch[r])
                 limit == IF room > newQuota THEN room ELSE newQuota
      <4>3. limit >= 0 /\ limit \in Int
        <5>1. newQuota \in Nat
          BY ConstAssumption DEF newQuota
        <5>2. Cardinality(batch[r]) \in Nat
          <6>1. batch[r] \subseteq 1..MaxSignals
            BY DEF TypeInv, TypeOK, Ids
          <6>2. IsFiniteSet(1..MaxSignals)
            BY ConstAssumption, FS_Interval
          <6>3. IsFiniteSet(batch[r])
            BY <6>1, <6>2, FS_Subset
          <6> QED BY <6>3, FS_CardinalityType
        <5>3. room \in Int
          BY <5>2, ConstAssumption
        <5> HIDE DEF room
        <5> QED BY <5>1, <5>3
      <4>4. delivered' = IF delivered + limit < Len(stream) THEN delivered + limit
                         ELSE Len(stream)
        BY <2>1, Zenon DEF ReadNew
      <4> HIDE DEF limit
      <4> QED BY <1>0, <4>2, <4>3, <4>4
    <3> QED BY <1>0, <3>1 DEF StreamMoves
  <2>2. ASSUME NEW s \in Scopes, Acquire(r, s) PROVE StreamMoves
    BY <2>2, <1>a DEF Acquire, streamVars
  <2>3. ASSUME NEW idle \in SUBSET PendingIds, ClaimStale(r, idle) PROVE StreamMoves
    BY <2>3, <1>a DEF ClaimStale
  <2>4. CASE ReadOwn(r) \/ Generate(r) \/ Handled(r) \/ Ack(r) \/ Release(r)
    BY <2>4, <1>a DEF ReadOwn, Generate, Handled, Ack, Release, streamVars
  <2>5. CASE RunAborts(r) \/ HeartbeatFails(r)
    BY <2>5, <1>a DEF RunAborts, HeartbeatFails, streamVars
  <2>6. ASSUME NEW p \in todo[r], Apply(r, p) \/ ApplyFails(r, p) \/ Save(r, p)
        PROVE  StreamMoves
    BY <2>6, <1>a DEF Apply, ApplyFails, Save, Handles, streamVars
  <2> QED BY <1>3, <2>1, <2>2, <2>3, <2>4, <2>5, <2>6 DEF Run, Step
<1>4. ASSUME NEW e \in Engines, Crash(e) PROVE StreamMoves
  BY <1>4, <1>a DEF Crash, streamVars
<1>5. ASSUME NEW s \in Scopes, LeaseExpires(s) \/ LeaseLapses(s) PROVE StreamMoves
  BY <1>5, <1>a DEF LeaseExpires, LeaseLapses, streamVars
<1>6. CASE Review
  BY <1>6, <1>a
     DEF Review, Reject, ApproveFetches, ApproveApplies, ApproveFails, ApproveRemoves,
         streamVars
<1> QED BY <1>1, <1>2, <1>3, <1>4, <1>5, <1>6 DEF Next

LEMMA SourceStep ==
  ASSUME TypeInv, LossInv, SourceInv, [Next]_vars
  PROVE  SourceInv'
<1>1. KeptMoves /\ StreamMoves
  BY KeptNext, StreamNext
<1>2. \A k \in TodoKeys : k.from \subseteq 1..delivered
  BY DEF TodoKeys, TypeInv, DeliveredInv
<1>3. \A k \in Kept' \cup ApprovingKeys' : k.from \subseteq 1..delivered
  BY <1>1, <1>2 DEF KeptMoves, SourceInv
<1>4. 1..delivered \subseteq 1..delivered'
  BY <1>1 DEF StreamMoves
<1> QED BY <1>3, <1>4 DEF SourceInv

LEMMA SignalStep ==
  ASSUME TypeInv, LossInv, SourceInv, [Next]_vars, NEW i \in Ids
  PROVE  \/ StatusOf(i)' = StatusOf(i)
         \/ StatusOf(i) = "none" /\ StatusOf(i)' = "owed"
         \/ StatusOf(i) = "owed" /\ StatusOf(i)' = "done"
<1>1. KeptMoves /\ StreamMoves
  BY KeptNext, StreamNext
<1>2. Effective \subseteq Effective'
  BY <1>1 DEF KeptMoves, Effective
<1>3. i \in Nat
  BY ConstAssumption DEF Ids
<1>4. CASE Len(stream') = Len(stream)
  BY <1>2, <1>4 DEF StatusOf
<1>5. CASE Len(stream') = Len(stream) + 1 /\ Elsewhere
  <2>1. Effective' = Effective
    BY <1>5 DEF Elsewhere, Effective, Kept, PendingKeys, graphVars, reviewVars
  <2>2. i \in Effective => i \in 1..Len(stream)
    <3>1. i \in Effective => i \in 1..delivered
      BY DEF Effective, SourceInv
    <3> QED BY <1>1, <3>1 DEF StreamMoves
  <2>3. i \in 1..Len(stream) => i \in 1..Len(stream')
    BY <1>1, <1>5 DEF StreamMoves
  <2> QED BY <2>1, <2>2, <2>3 DEF StatusOf
<1> QED BY <1>1, <1>4, <1>5 DEF StreamMoves

(* Whatever is delivered twice, refused, crashed, lapsed or reviewed in    *)
(* between, a published signal is owed until its work is applied, waits    *)
(* for review or was rejected, and what is done is never undone; with      *)
(* NoSignalLost it is acknowledged only then.                              *)
THEOREM SignalsOwed == ASSUME NEW i \in Ids PROVE Spec => Signal(i)!Safety
<1>1. Init => TypeInv /\ LossInv /\ SourceInv
  BY TypeInit
     DEF Init, LossInv, NoSignalLost, Effective, Kept, PendingKeys, SourceInv,
         ApprovingKeys
<1>2. TypeInv /\ LossInv /\ SourceInv /\ [Next]_vars
        => (TypeInv /\ LossInv /\ SourceInv)'
  BY TypeNext, LossNext, SourceStep
<1>3. Init => Signal(i)!Init
  <2> SUFFICES ASSUME Init PROVE StatusOf(i) = "none"
    BY DEF Signal!Init
  <2> QED BY ConstAssumption DEF Init, StatusOf, Ids
<1>4. TypeInv /\ LossInv /\ SourceInv /\ [Next]_vars
        => [Signal(i)!Next]_([j \in {i} |-> StatusOf(j)])
  <2> SUFFICES ASSUME TypeInv, LossInv, SourceInv, [Next]_vars
               PROVE  [Signal(i)!Next]_([j \in {i} |-> StatusOf(j)])
    OBVIOUS
  <2>1. CASE StatusOf(i)' = StatusOf(i)
    BY <2>1
  <2>2. CASE StatusOf(i) = "none" /\ StatusOf(i)' = "owed"
    <3>1. Signal(i)!Accept(i)
      BY <2>2 DEF Signal!Accept, Signal!Move
    <3> QED BY <3>1 DEF Signal!Next
  <2>3. CASE StatusOf(i) = "owed" /\ StatusOf(i)' = "done"
    <3>1. Signal(i)!Finish(i)
      BY <2>3 DEF Signal!Finish, Signal!Move
    <3> QED BY <3>1 DEF Signal!Next
  <2> QED BY <2>1, <2>2, <2>3, SignalStep
<1> QED BY <1>1, <1>2, <1>3, <1>4, PTL DEF Spec, Signal!Safety

(***************************************************************************)
(* Confidence is earned.  A proposal carries an absolute value, so what    *)
(* must be known of it is that the value is at most one step above what    *)
(* the applied proposals of its target account for; that stays true while  *)
(* the proposal waits, since applied proposals only become more.           *)
(***************************************************************************)

Offer(p) == p.confidence <= Cardinality(OfTarget(p.key.target)) + 1
Open == pending \cup approving \cup UNION {todo[r] : r \in Runs}
EarnInv == /\ IsFiniteSet(applied)
           /\ ConfidenceEarned
           /\ \A p \in Open : Offer(p)

LEMMA OfTargetSize ==
  ASSUME IsFiniteSet(applied), NEW t
  PROVE  IsFiniteSet(OfTarget(t)) /\ Cardinality(OfTarget(t)) \in Nat
<1>1. OfTarget(t) \in SUBSET applied
  BY DEF OfTarget
<1> QED BY <1>1, FS_Subset, FS_CardinalityType

\* What an application of p does to confidences and ledger.
GraphEarned ==
  /\ IsFiniteSet(applied')
  /\ ConfidenceEarned'
  /\ \A t \in Targets : /\ Cardinality(OfTarget(t)) \in Nat
                        /\ Cardinality(OfTarget(t))' \in Nat
                        /\ Cardinality(OfTarget(t)) <= Cardinality(OfTarget(t))'

LEMMA GraphUnchanged ==
  ASSUME EarnInv, UNCHANGED graphVars
  PROVE  GraphEarned
<1>1. \A t \in Targets : Cardinality(OfTarget(t)) \in Nat
  BY OfTargetSize DEF EarnInv
<1>2. \A t : OfTarget(t)' = OfTarget(t)
  BY DEF OfTarget, graphVars
<1>3. \A t \in Targets : Cardinality(OfTarget(t))' = Cardinality(OfTarget(t))
  BY <1>2
<1> QED BY <1>1, <1>3 DEF GraphEarned, EarnInv, ConfidenceEarned, graphVars

LEMMA GraphApplied ==
  ASSUME TypeInv, EarnInv, NEW p \in Proposals, Offer(p), SetConfidence(p)
  PROVE  GraphEarned
<1>1. CASE p.key \in applied
  BY <1>1, GraphUnchanged DEF SetConfidence, NotApplied
<1>2. CASE p.key \notin applied
  <2> DEFINE k == p.key
             u == p.key.target
  <2>0. u \in Targets /\ p.confidence \in Nat /\ confidence \in [Targets -> Nat]
    BY DEF Proposals, Keys, TypeInv, TypeOK
  <2>1. /\ confidence' = [confidence EXCEPT ![u] = p.confidence]
        /\ applied' = applied \cup {k}
    BY <1>2 DEF SetConfidence, NotApplied
  <2>2. IsFiniteSet(applied')
    BY <2>1, FS_AddElement DEF EarnInv
  <2>3. OfTarget(u)' = OfTarget(u) \cup {k} /\ k \notin OfTarget(u)
    BY <1>2, <2>1 DEF OfTarget
  <2>4. \A t \in Targets \ {u} : OfTarget(t)' = OfTarget(t)
    BY <2>1 DEF OfTarget
  <2>5. \A t \in Targets : IsFiniteSet(OfTarget(t)) /\ Cardinality(OfTarget(t)) \in Nat
    BY OfTargetSize DEF EarnInv
  <2>6. Cardinality(OfTarget(u) \cup {k}) = Cardinality(OfTarget(u)) + 1
    BY <2>0, <2>3, <2>5, FS_AddElement
  <2>7. Cardinality(OfTarget(u))' = Cardinality(OfTarget(u)) + 1
    BY <2>3, <2>6
  <2>8. \A t \in Targets \ {u} : Cardinality(OfTarget(t))' = Cardinality(OfTarget(t))
    BY <2>4
  <2>9. p.confidence <= Cardinality(OfTarget(u)) + 1
    BY DEF Offer
  <2>10. \A t \in Targets : confidence[t] <= Cardinality(OfTarget(t))
    BY DEF EarnInv, ConfidenceEarned
  <2> HIDE DEF u, k
  <2>11. \A t \in Targets : confidence'[t] <= Cardinality(OfTarget(t))'
    BY <2>0, <2>1, <2>5, <2>7, <2>8, <2>9, <2>10
  <2>12. \A t \in Targets : /\ Cardinality(OfTarget(t)) \in Nat
                            /\ Cardinality(OfTarget(t))' \in Nat
                            /\ Cardinality(OfTarget(t)) <= Cardinality(OfTarget(t))'
    BY <2>0, <2>5, <2>7, <2>8
  <2> QED BY <2>2, <2>11, <2>12 DEF GraphEarned, ConfidenceEarned
<1> QED BY <1>1, <1>2

\* A step that only moves proposals about keeps their offers.
LEMMA OffersKept ==
  ASSUME TypeInv, EarnInv, GraphEarned, Open' \subseteq Open
  PROVE  EarnInv'
<1>1. ASSUME NEW p \in Open' PROVE Offer(p)'
  <2>1. p \in Proposals /\ Offer(p)
    BY DEF EarnInv, Open, TypeInv, TypeOK
  <2>2. p.key.target \in Targets /\ p.confidence \in Nat
    BY <2>1 DEF Proposals, Keys
  <2> DEFINE t == p.key.target
  <2>3. /\ Cardinality(OfTarget(t)) \in Nat
        /\ Cardinality(OfTarget(t))' \in Nat
        /\ Cardinality(OfTarget(t)) <= Cardinality(OfTarget(t))'
    BY <2>2 DEF GraphEarned
  <2>4. p.confidence <= Cardinality(OfTarget(t)) + 1
    BY <2>1 DEF Offer
  <2> HIDE DEF t
  <2>5. p.confidence <= Cardinality(OfTarget(t))' + 1
    BY <2>2, <2>3, <2>4
  <2> QED BY <2>5 DEF Offer, t
<1> QED BY <1>1 DEF EarnInv, GraphEarned

LEMMA EarnGenerate ==
  ASSUME TypeInv, EarnInv, NEW r \in Runs, Generate(r)
  PROVE  EarnInv'
<1> DEFINE new == {[key |-> [target |-> t, from |-> Cluster(r, t)],
                    confidence |-> confidence[t] + 1] : t \in Ripe(r)}
<1>1. /\ todo' = [todo EXCEPT ![r] = new]
      /\ UNCHANGED <<confidence, applied, pending, approving>>
  BY DEF Generate, graphVars, reviewVars
<1>2. \A t \in Targets : confidence[t] \in Nat /\ Cardinality(OfTarget(t)) \in Nat
  BY OfTargetSize DEF EarnInv, TypeInv, TypeOK
<1>3. \A t \in Targets : confidence[t] + 1 <= Cardinality(OfTarget(t)) + 1
  BY <1>2 DEF EarnInv, ConfidenceEarned
<1>4. \A p \in new : Offer(p)
  BY <1>3 DEF Offer, Ripe
<1> HIDE DEF new
<1>5. Open' \subseteq Open \cup new
  BY <1>1 DEF Open, TypeInv, TypeOK
<1>6. \A p : Offer(p)' <=> Offer(p)
  BY <1>1 DEF Offer, OfTarget
<1>7. \A p \in Open' : Offer(p)'
  BY <1>4, <1>5, <1>6 DEF EarnInv
<1> QED BY <1>1, <1>7 DEF EarnInv, ConfidenceEarned, OfTarget

LEMMA EarnHandle ==
  ASSUME TypeInv, EarnInv, NEW r \in Runs, NEW p \in todo[r],
         Apply(r, p) \/ ApplyFails(r, p) \/ Save(r, p)
  PROVE  EarnInv'
<1>1. p \in Open /\ p \in Proposals
  BY DEF Open, TypeInv, TypeOK
<1>2. SetConfidence(p) \/ UNCHANGED graphVars
  BY DEF Apply, ApplyFails, Save
<1>3. GraphEarned
  BY <1>1, <1>2, GraphApplied, GraphUnchanged DEF EarnInv
<1>4. /\ approving' = approving
      /\ todo' = [todo EXCEPT ![r] = todo[r] \ {p}]
      /\ pending' = pending \/ pending' = Without(p.key) \cup {p}
  BY DEF Apply, ApplyFails, Save, Handles
<1>5. Without(p.key) \subseteq pending
  BY DEF Without
<1>6. \A q \in Runs : todo'[q] \subseteq todo[q]
  BY <1>4 DEF TypeInv, TypeOK
<1>7. pending' \subseteq Open
  BY <1>1, <1>4, <1>5 DEF Open
<1>8. Open' \subseteq Open
  BY <1>4, <1>6, <1>7 DEF Open
<1> QED BY <1>3, <1>8, OffersKept

LEMMA EarnReview ==
  ASSUME TypeInv, EarnInv, Review
  PROVE  EarnInv'
<1>1. todo' = todo
  BY DEF Review, Reject, ApproveFetches, ApproveApplies, ApproveFails, ApproveRemoves, runVars
<1>2. ASSUME NEW p \in pending, Reject(p) \/ ApproveFetches(p) PROVE EarnInv'
  <2>1. GraphEarned
    BY <1>2, GraphUnchanged DEF Reject, ApproveFetches
  <2>2. Open' \subseteq Open
    BY <1>1, <1>2 DEF Reject, ApproveFetches, Without, Open
  <2> QED BY <2>1, <2>2, OffersKept
<1>3. ASSUME NEW p \in approving, ApproveApplies(p) \/ ApproveFails(p) PROVE EarnInv'
  <2>1. p \in Proposals /\ Offer(p)
    BY DEF EarnInv, Open, TypeInv, TypeOK
  <2>2. SetConfidence(p) \/ UNCHANGED graphVars
    BY <1>3 DEF ApproveApplies, ApproveFails
  <2>3. GraphEarned
    BY <2>1, <2>2, GraphApplied, GraphUnchanged
  <2>4. Open' \subseteq Open
    BY <1>1, <1>3 DEF ApproveApplies, ApproveFails, Open
  <2> QED BY <2>3, <2>4, OffersKept
<1>4. ASSUME NEW k \in removing, ApproveRemoves(k) PROVE EarnInv'
  <2>1. GraphEarned
    BY <1>4, GraphUnchanged DEF ApproveRemoves
  <2>2. Open' \subseteq Open
    BY <1>1, <1>4 DEF ApproveRemoves, Without, Open
  <2> QED BY <2>1, <2>2, OffersKept
<1> QED BY <1>2, <1>3, <1>4 DEF Review

\* All the other steps leave the graph and the review store alone and at most
\* drop what a run was going to do.
LEMMA EarnElsewhere ==
  ASSUME TypeInv, EarnInv, UNCHANGED <<graphVars, reviewVars>>,
         \A r \in Runs : todo'[r] \subseteq todo[r]
  PROVE  EarnInv'
<1>1. GraphEarned
  BY GraphUnchanged
<1>2. Open' \subseteq Open
  BY DEF Open, reviewVars
<1> QED BY <1>1, <1>2, OffersKept

LEMMA EarnNext ==
  ASSUME TypeInv, EarnInv, [Next]_vars
  PROVE  EarnInv'
<1>1. CASE UNCHANGED vars
  BY <1>1, EarnElsewhere DEF vars, runVars
<1>2. ASSUME NEW t \in Targets, Publish(t) PROVE EarnInv'
  BY <1>2, EarnElsewhere DEF Publish, runVars
<1>3. ASSUME NEW r \in Runs, Run(r) PROVE EarnInv'
  <2>1. ASSUME NEW s \in Scopes, Acquire(r, s) PROVE EarnInv'
    BY <2>1, EarnElsewhere DEF Acquire
  <2>2. ASSUME NEW idle \in SUBSET PendingIds, ClaimStale(r, idle) PROVE EarnInv'
    BY <2>2, EarnElsewhere DEF ClaimStale
  <2>3. CASE ReadOwn(r) \/ ReadNew(r) \/ Handled(r) \/ Ack(r)
    BY <2>3, EarnElsewhere DEF ReadOwn, ReadNew, Handled, Ack, runVars
  <2>4. CASE RunAborts(r) \/ HeartbeatFails(r)
    BY <2>4, EarnElsewhere DEF RunAborts, HeartbeatFails, runVars
  <2>5. CASE Release(r)
    <3>1. \A q \in Runs : todo'[q] \subseteq todo[q]
      BY <2>5 DEF Release, TypeInv, TypeOK
    <3> QED BY <2>5, <3>1, EarnElsewhere DEF Release
  <2> QED BY <1>3, <2>1, <2>2, <2>3, <2>4, <2>5, EarnGenerate, EarnHandle DEF Run, Step
<1>4. ASSUME NEW e \in Engines, Crash(e) PROVE EarnInv'
  <2>1. \A q \in Runs : todo'[q] \subseteq todo[q]
    BY <1>4 DEF Crash
  <2> QED BY <1>4, <2>1, EarnElsewhere DEF Crash
<1>5. ASSUME NEW s \in Scopes, LeaseExpires(s) \/ LeaseLapses(s) PROVE EarnInv'
  BY <1>5, EarnElsewhere DEF LeaseExpires, LeaseLapses, runVars
<1> QED BY <1>1, <1>2, <1>3, <1>4, <1>5, EarnReview DEF Next

LEMMA EarnInit == ASSUME Init PROVE EarnInv
<1>1. \A t : OfTarget(t) = {}
  BY DEF Init, OfTarget
<1>2. Open = {}
  BY DEF Init, Open
<1>3. ConfidenceEarned
  <2>1. \A t \in Targets : Cardinality(OfTarget(t)) = 0 /\ confidence[t] = 0
    BY <1>1, FS_EmptySet DEF Init
  <2> QED BY <2>1 DEF ConfidenceEarned
<1> QED BY <1>2, <1>3, FS_EmptySet DEF Init, EarnInv

\* However often deliveries are repeated, proposals saved again or approved
\* twice, and whichever runs overlap: no target's confidence has risen by more
\* steps than distinct proposals were applied to it.
THEOREM EarnedConfidence == Spec => []ConfidenceEarned
<1>1. Init => TypeInv /\ EarnInv
  BY TypeInit, EarnInit
<1>2. TypeInv /\ EarnInv /\ [Next]_vars => TypeInv' /\ EarnInv'
  BY TypeNext, EarnNext
<1>3. EarnInv => ConfidenceEarned
  BY DEF EarnInv
<1> QED BY <1>1, <1>2, <1>3, PTL DEF Spec

(***************************************************************************)
(* Two runs are never in progress for one scope, while no lease lapses.    *)
(***************************************************************************)

\* A run in progress holds its scope's lock, and no other run shares it.
HolderInv ==
  lapses = 0 =>
    /\ \A r \in Runs : /\ ~Running(r) => runScope[r] = None
                       /\ runScope[r] # None => lock[runScope[r]] = EngineOf[r]
    /\ \A r, q \in Runs : r # q /\ runScope[r] # None => runScope[r] # runScope[q]

LEMMA HolderElsewhere ==
  ASSUME TypeInv, HolderInv, UNCHANGED <<lock, runScope>>, lapses' \in {lapses, lapses + 1},
         \A r \in Runs : Running(r) => Running(r)'
  PROVE  HolderInv'
<1>1. lapses' = 0 => lapses = 0
  BY DEF TypeInv, TypeOK
<1> QED BY <1>1 DEF HolderInv

\* Locks change hands: SET NX, compare and delete, a crash, expiry.
LEMMA HolderAcquire ==
  ASSUME TypeInv, HolderInv, NEW r \in Runs, NEW s \in Scopes, Acquire(r, s)
  PROVE  HolderInv'
<1>1. /\ lock[s] = None
      /\ lock' = [lock EXCEPT ![s] = EngineOf[r]]
      /\ runScope' = [runScope EXCEPT ![r] = s]
      /\ pc' = [pc EXCEPT ![r] = "own"]
      /\ lapses' = lapses
  BY DEF Acquire, LockFree, bounds
<1>2. SUFFICES ASSUME lapses = 0 PROVE HolderInv'
  BY <1>1 DEF HolderInv
<1>3. \A q \in Runs : runScope[q] # s
  BY <1>1, <1>2, ConstAssumption DEF HolderInv
<1>4. ASSUME NEW q \in Runs
      PROVE  /\ ~Running(q)' => runScope'[q] = None
             /\ runScope'[q] # None => lock'[runScope'[q]] = EngineOf[q]
  BY <1>1, <1>2, <1>3 DEF HolderInv, TypeInv, TypeOK, Running
<1>5. ASSUME NEW q \in Runs, NEW u \in Runs, q # u, runScope'[q] # None
      PROVE  runScope'[q] # runScope'[u]
  BY <1>1, <1>2, <1>3, <1>5 DEF HolderInv, TypeInv, TypeOK
<1> QED BY <1>4, <1>5 DEF HolderInv

\* The lock goes back, or is left to expire; nobody else runs for that scope.
LEMMA HolderRelease ==
  ASSUME TypeInv, HolderInv, NEW r \in Runs, Release(r)
  PROVE  HolderInv'
<1>1. /\ \A s \in Scopes \ {runScope[r]} : lock'[s] = lock[s]
      /\ runScope' = [runScope EXCEPT ![r] = None]
      /\ pc' = [pc EXCEPT ![r] = "idle"]
      /\ lapses' = lapses
  BY DEF Release, TypeInv, TypeOK
<1>2. SUFFICES ASSUME lapses = 0 PROVE HolderInv'
  BY <1>1 DEF HolderInv
<1>3. ASSUME NEW q \in Runs
      PROVE  /\ ~Running(q)' => runScope'[q] = None
             /\ runScope'[q] # None => lock'[runScope'[q]] = EngineOf[q]
  BY <1>1, <1>2 DEF HolderInv, TypeInv, TypeOK, Running
<1>4. ASSUME NEW q \in Runs, NEW u \in Runs, q # u, runScope'[q] # None
      PROVE  runScope'[q] # runScope'[u]
  BY <1>1, <1>2, <1>4 DEF HolderInv, TypeInv, TypeOK
<1> QED BY <1>3, <1>4 DEF HolderInv

LEMMA HolderCrash ==
  ASSUME TypeInv, HolderInv, NEW e \in Engines, Crash(e)
  PROVE  HolderInv'
<1>1. /\ runScope' = [r \in Runs |-> IF r \in RunsOf(e) THEN None ELSE runScope[r]]
      /\ pc' = [r \in Runs |-> IF r \in RunsOf(e) THEN "dead" ELSE pc[r]]
      /\ UNCHANGED <<lock, lapses>>
  BY DEF Crash
<1> QED BY <1>1 DEF HolderInv, Running

\* A lease that expires has no run; one that lapses ends the promise.
LEMMA HolderLease ==
  ASSUME TypeInv, HolderInv, NEW s \in Scopes, LeaseExpires(s) \/ LeaseLapses(s)
  PROVE  HolderInv'
<1>1. /\ lock' = [lock EXCEPT ![s] = None]
      /\ UNCHANGED <<runScope, pc>>
  BY DEF LeaseExpires, LeaseLapses, runVars
<1>2. CASE LeaseLapses(s)
  <2>1. lapses' # 0
    BY <1>2 DEF LeaseLapses, TypeInv, TypeOK
  <2> QED BY <2>1 DEF HolderInv
<1>3. CASE LeaseExpires(s)
  <2>1. lapses' = lapses /\ \A r \in Runs : runScope[r] = s => lock[s] # EngineOf[r]
    BY <1>3 DEF LeaseExpires, Renewed, bounds
  <2>2. SUFFICES ASSUME lapses = 0 PROVE HolderInv'
    BY <2>1 DEF HolderInv
  <2>3. \A r \in Runs : runScope[r] # s
    BY <2>1, <2>2, ConstAssumption DEF HolderInv
  <2> QED BY <1>1, <2>2, <2>3 DEF HolderInv, TypeInv, TypeOK, Running
<1> QED BY <1>2, <1>3

LEMMA HolderNext ==
  ASSUME TypeInv, HolderInv, [Next]_vars
  PROVE  HolderInv'
<1>0. lapses \in Nat /\ pc \in [Runs -> Stages]
  BY DEF TypeInv, TypeOK
<1>1. CASE UNCHANGED vars
  BY <1>1, HolderElsewhere DEF vars, runVars, bounds, Running
<1>2. ASSUME NEW t \in Targets, Publish(t) PROVE HolderInv'
  BY <1>2, HolderElsewhere DEF Publish, runVars, bounds, Running
<1>3. ASSUME NEW r \in Runs, Run(r) PROVE HolderInv'
  <2>1. ASSUME NEW idle \in SUBSET PendingIds, ClaimStale(r, idle) PROVE HolderInv'
    BY <1>0, <2>1, HolderElsewhere DEF ClaimStale, bounds, Running
  <2>2. CASE ReadOwn(r) \/ ReadNew(r) \/ Generate(r) \/ Handled(r) \/ Ack(r)
    BY <1>0, <2>2, HolderElsewhere
       DEF ReadOwn, ReadNew, Generate, Handled, Ack, runVars, bounds, Running
  <2>3. CASE RunAborts(r) \/ HeartbeatFails(r)
    BY <1>0, <2>3, HolderElsewhere DEF RunAborts, HeartbeatFails, runVars, Running
  <2>4. ASSUME NEW p \in todo[r], Apply(r, p) \/ ApplyFails(r, p) \/ Save(r, p)
        PROVE  HolderInv'
    BY <2>4, HolderElsewhere DEF Apply, ApplyFails, Save, Handles, Running
  <2> QED BY <1>3, <2>1, <2>2, <2>3, <2>4, HolderAcquire, HolderRelease DEF Run, Step
<1>4. CASE Review
  BY <1>4, HolderElsewhere
     DEF Review, Reject, ApproveFetches, ApproveApplies, ApproveFails, ApproveRemoves,
         runVars, bounds, Running
<1> QED BY <1>1, <1>2, <1>3, <1>4, HolderCrash, HolderLease DEF Next

(* The lock does its work while leases are renewed in time: no scope has   *)
(* two runs in progress, those of one engine included, whose calls share   *)
(* the name the lock is compared with (locks.ts:33).                       *)
THEOREM RunsApart ==
  Spec => [](lapses = 0 =>
               \A r, q \in Runs :
                 r # q /\ Running(r) /\ Running(q) => runScope[r] # runScope[q])
<1> DEFINE Apart ==
      lapses = 0 =>
        \A r, q \in Runs :
          r # q /\ Running(r) /\ Running(q) => runScope[r] # runScope[q]
           ScopeInv == \A r \in Runs : Running(r) => runScope[r] \in Scopes
<1>1. Init => TypeInv /\ HolderInv /\ ScopeInv
  BY TypeInit DEF Init, HolderInv, Running
<1>2. TypeInv /\ HolderInv /\ [Next]_vars => TypeInv' /\ HolderInv'
  BY TypeNext, HolderNext
<1>3. TypeInv /\ ScopeInv /\ [Next]_vars => ScopeInv'
  <2> SUFFICES ASSUME TypeInv, ScopeInv, [Next]_vars PROVE ScopeInv'
    OBVIOUS
  <2>0. runScope \in [Runs -> Scopes \cup {None}] /\ pc \in [Runs -> Stages]
    BY DEF TypeInv, TypeOK
  <2>1. ASSUME UNCHANGED runScope, \A q \in Runs : Running(q)' => Running(q)
        PROVE  ScopeInv'
    BY <2>1
  <2>2. CASE UNCHANGED vars
    BY <2>1, <2>2 DEF vars, runVars, Running
  <2>3. ASSUME NEW t \in Targets, Publish(t) PROVE ScopeInv'
    BY <2>1, <2>3 DEF Publish, runVars, Running
  <2>4. ASSUME NEW r \in Runs, Run(r) PROVE ScopeInv'
    <3>1. ASSUME NEW s \in Scopes, Acquire(r, s) PROVE ScopeInv'
      BY <2>0, <3>1 DEF Acquire, Running
    <3>2. CASE Release(r)
      BY <2>0, <3>2 DEF Release, Running
    <3>3. ASSUME NEW idle \in SUBSET PendingIds, ClaimStale(r, idle) PROVE ScopeInv'
      BY <2>0, <2>1, <3>3 DEF ClaimStale, Running
    <3>4. CASE ReadOwn(r) \/ ReadNew(r) \/ Generate(r) \/ Handled(r) \/ Ack(r)
      BY <2>0, <2>1, <3>4 DEF ReadOwn, ReadNew, Generate, Handled, Ack, runVars, Running
    <3>5. CASE RunAborts(r) \/ HeartbeatFails(r)
      BY <2>0, <2>1, <3>5 DEF RunAborts, HeartbeatFails, runVars, Running
    <3>6. ASSUME NEW p \in todo[r], Apply(r, p) \/ ApplyFails(r, p) \/ Save(r, p)
          PROVE  ScopeInv'
      BY <2>1, <3>6 DEF Apply, ApplyFails, Save, Handles, Running
    <3> QED BY <2>4, <3>1, <3>2, <3>3, <3>4, <3>5, <3>6 DEF Run, Step
  <2>5. ASSUME NEW e \in Engines, Crash(e) PROVE ScopeInv'
    BY <2>5 DEF Crash, Running
  <2>6. ASSUME NEW s \in Scopes, LeaseExpires(s) \/ LeaseLapses(s) PROVE ScopeInv'
    BY <2>1, <2>6 DEF LeaseExpires, LeaseLapses, runVars, Running
  <2>7. CASE Review
    BY <2>1, <2>7
       DEF Review, Reject, ApproveFetches, ApproveApplies, ApproveFails,
           ApproveRemoves, runVars, Running
  <2> QED BY <2>2, <2>3, <2>4, <2>5, <2>6, <2>7 DEF Next
<1>4. HolderInv /\ ScopeInv => Apart
  BY ConstAssumption DEF HolderInv
<1> QED
  <2> HIDE DEF ScopeInv, Apart
  <2>1. Spec => []Apart
    BY <1>1, <1>2, <1>3, <1>4, PTL DEF Spec
  <2> QED BY <2>1 DEF Apart

(***************************************************************************)
(* Reinforcement never lowers a confidence, where the engine applies its   *)
(* own proposals, but by a run that another one overlaps under the lock of *)
(* the scope "global".                                                     *)
(***************************************************************************)

\* A run for Global and any other run in progress overlap.
OverlapInv ==
  lapses = 0 =>
    \A r, q \in Runs : r # q /\ runScope[r] = Global /\ runScope[q] # None =>
                         r \in overlapped /\ q \in overlapped

\* What a run has yet to apply is for targets it is in charge of and, unless
\* another overlaps it, not below their confidence.
OfferInv ==
  lapses = 0 =>
    \A r \in Runs : \A p \in todo[r] :
      /\ runScope[r] \in {ScopeOf[p.key.target], Global}
      /\ r \notin overlapped => confidence[p.key.target] <= p.confidence
      /\ \A q \in todo[r] : q # p => q.key.target # p.key.target
LeaseInv == HolderInv /\ OverlapInv /\ OfferInv
NothingReviewed == pending = {} /\ approving = {}
RisingInv == LeaseInv /\ NothingReviewed

\* A step that leaves locks and confidences alone and gives no run more to do.
LEMMA RisingElsewhere ==
  ASSUME TypeInv, RisingInv, UNCHANGED <<lock, overlapped, confidence, runScope>>,
         pending' = pending, approving' = approving, lapses' \in {lapses, lapses + 1},
         \A r \in Runs : todo'[r] \subseteq todo[r] /\ (Running(r) => Running(r)')
  PROVE  RisingInv'
<1>1. lapses' = 0 => lapses = 0
  BY DEF TypeInv, TypeOK
<1>2. HolderInv'
  BY HolderElsewhere DEF RisingInv, LeaseInv
<1> QED BY <1>1, <1>2 DEF RisingInv, LeaseInv, OverlapInv, OfferInv, NothingReviewed

\* Who holds a lock and has nothing to apply, or drops it, disturbs nobody.
LEMMA RisingAcquire ==
  ASSUME TypeInv, RisingInv, NEW r \in Runs, NEW s \in Scopes, Acquire(r, s)
  PROVE  RisingInv'
<1>1. /\ runScope' = [runScope EXCEPT ![r] = s] /\ ~Running(r)
      /\ overlapped \subseteq overlapped'
      /\ \A q \in Overlapping(s) : q \in overlapped' /\ r \in overlapped'
      /\ UNCHANGED <<confidence, todo, lapses, pending, approving>>
      /\ lock[s] = None
  BY DEF Acquire, Running, LockFree, graphVars, reviewVars, bounds
<1>2. HolderInv'
  BY HolderAcquire DEF RisingInv, LeaseInv
<1>3. lapses = 0 => todo[r] = {}
  BY <1>1, ConstAssumption
     DEF RisingInv, LeaseInv, HolderInv, OfferInv, TypeInv, TypeOK, Proposals, Keys
<1>4. OfferInv'
  BY <1>1, <1>3 DEF RisingInv, LeaseInv, OfferInv, TypeInv, TypeOK
<1>5. ASSUME lapses = 0, NEW u \in Runs, NEW v \in Runs, u # v,
             runScope'[u] = Global, runScope'[v] # None
      PROVE  u \in overlapped' /\ v \in overlapped'
  <2>1. \A q \in Runs : runScope[q] # s
    BY <1>1, <1>5, ConstAssumption DEF RisingInv, LeaseInv, HolderInv
  <2>2. CASE u = r
    <3>1. s = Global /\ runScope[v] # None /\ Running(v)
      BY <1>1, <1>5, <2>2 DEF RisingInv, LeaseInv, HolderInv, TypeInv, TypeOK
    <3> QED BY <1>1, <2>1, <2>2, <3>1 DEF Overlapping
  <2>3. CASE v = r
    <3>1. runScope[u] = Global /\ Running(u)
      BY <1>1, <1>5, <2>3, ConstAssumption
         DEF RisingInv, LeaseInv, HolderInv, TypeInv, TypeOK
    <3> QED BY <1>1, <2>1, <2>3, <3>1 DEF Overlapping
  <2>4. CASE u # r /\ v # r
    BY <1>1, <1>5, <2>4 DEF RisingInv, LeaseInv, OverlapInv, TypeInv, TypeOK
  <2> QED BY <2>2, <2>3, <2>4
<1>6. OverlapInv'
  BY <1>1, <1>5 DEF OverlapInv
<1> QED BY <1>1, <1>2, <1>4, <1>6 DEF RisingInv, LeaseInv, NothingReviewed

LEMMA RisingRelease ==
  ASSUME TypeInv, RisingInv, NEW r \in Runs, Release(r)
  PROVE  RisingInv'
<1>1. /\ runScope' = [runScope EXCEPT ![r] = None]
      /\ todo' = [todo EXCEPT ![r] = {}]
      /\ overlapped' = overlapped \ {r}
      /\ UNCHANGED <<confidence, lapses, pending, approving>>
  BY DEF Release, graphVars, reviewVars
<1>2. HolderInv'
  BY HolderRelease DEF RisingInv, LeaseInv
<1>3. OfferInv'
  BY <1>1 DEF RisingInv, LeaseInv, OfferInv, TypeInv, TypeOK
<1>4. OverlapInv'
  BY <1>1, ConstAssumption DEF RisingInv, LeaseInv, OverlapInv, TypeInv, TypeOK
<1> QED BY <1>1, <1>2, <1>3, <1>4 DEF RisingInv, LeaseInv, NothingReviewed

\* A crash drops what the engine's runs were going to do.
LEMMA RisingCrash ==
  ASSUME TypeInv, RisingInv, NEW e \in Engines, Crash(e)
  PROVE  RisingInv'
<1>1. /\ runScope' = [r \in Runs |-> IF r \in RunsOf(e) THEN None ELSE runScope[r]]
      /\ todo' = [r \in Runs |-> IF r \in RunsOf(e) THEN {} ELSE todo[r]]
      /\ overlapped' = overlapped \ RunsOf(e)
      /\ UNCHANGED <<confidence, lapses, pending, approving>>
  BY DEF Crash, graphVars, reviewVars
<1>2. HolderInv'
  BY HolderCrash DEF RisingInv, LeaseInv
<1>3. OfferInv'
  BY <1>1 DEF RisingInv, LeaseInv, OfferInv
<1>4. OverlapInv'
  BY <1>1, ConstAssumption DEF RisingInv, LeaseInv, OverlapInv
<1> QED BY <1>1, <1>2, <1>3, <1>4 DEF RisingInv, LeaseInv, NothingReviewed

LEMMA RisingLease ==
  ASSUME TypeInv, RisingInv, NEW s \in Scopes, LeaseExpires(s) \/ LeaseLapses(s)
  PROVE  RisingInv'
<1>1. /\ UNCHANGED <<overlapped, confidence, runScope, todo, pending, approving>>
      /\ lapses' \in {lapses, lapses + 1}
  BY DEF LeaseExpires, LeaseLapses, graphVars, reviewVars, runVars, bounds
<1>2. lapses' = 0 => lapses = 0
  BY <1>1 DEF TypeInv, TypeOK
<1>3. HolderInv'
  BY HolderLease DEF RisingInv, LeaseInv
<1> QED BY <1>1, <1>2, <1>3
        DEF RisingInv, LeaseInv, OverlapInv, OfferInv, NothingReviewed

\* What is generated is one step above what was read, one for each target.
LEMMA RisingGenerate ==
  ASSUME TypeInv, RisingInv, NEW r \in Runs, Generate(r)
  PROVE  RisingInv'
<1> DEFINE new == {[key |-> [target |-> t, from |-> Cluster(r, t)],
                    confidence |-> confidence[t] + 1] : t \in Ripe(r)}
<1>1. ASSUME NEW t \in Ripe(r)
      PROVE  runScope[r] \in {ScopeOf[t], Global} /\ t \in Targets
  <2>1. t \in Targets /\ Cardinality(Cluster(r, t)) >= Threshold
    BY DEF Ripe
  <2>2. Cluster(r, t) # {}
    BY <2>1, FS_EmptySet, ConstAssumption
  <2> QED BY <2>1, <2>2, ConstAssumption DEF Cluster, TypeInv, TypeOK
<1>2. ASSUME NEW p \in new
      PROVE  /\ runScope[r] \in {ScopeOf[p.key.target], Global}
             /\ confidence[p.key.target] <= p.confidence
             /\ \A q \in new : q # p => q.key.target # p.key.target
  BY <1>1 DEF TypeInv, TypeOK
<1> HIDE DEF new
<1>3. /\ todo' = [todo EXCEPT ![r] = new]
      /\ pc' = [pc EXCEPT ![r] = "apply"]
      /\ UNCHANGED <<lock, overlapped, confidence, runScope, lapses, pending, approving>>
  BY DEF Generate, new, graphVars, reviewVars, bounds
<1>4. SUFFICES ASSUME lapses = 0 PROVE LeaseInv'
  BY <1>3 DEF RisingInv, LeaseInv, HolderInv, OverlapInv, OfferInv, NothingReviewed
<1>5. \A q \in Runs : Running(q) => Running(q)'
  BY <1>3 DEF TypeInv, TypeOK, Running
<1>6. ASSUME NEW q \in Runs, NEW p \in todo'[q]
      PROVE  /\ runScope'[q] \in {ScopeOf[p.key.target], Global}
             /\ q \notin overlapped' => confidence'[p.key.target] <= p.confidence
             /\ \A o \in todo'[q] : o # p => o.key.target # p.key.target
  <2>1. CASE q = r
    BY <1>2, <1>3, <2>1 DEF TypeInv, TypeOK
  <2>2. CASE q # r
    BY <1>3, <1>4, <2>2 DEF RisingInv, LeaseInv, HolderInv, OfferInv, TypeInv, TypeOK
  <2> QED BY <2>1, <2>2
<1> QED BY <1>3, <1>4, <1>5, <1>6 DEF RisingInv, LeaseInv, HolderInv, OverlapInv, OfferInv

\* An application does not lower its target, unless its run is overlapped, nor
\* put it above what a run that is not is to apply.
LEMMA RisingHandle ==
  ASSUME AutoApply,
         TypeInv, RisingInv, NEW r \in Runs, NEW p \in todo[r],
         Apply(r, p) \/ ApplyFails(r, p) \/ Save(r, p)
  PROVE  /\ RisingInv'
         /\ lapses = 0 /\ overlapped = {} =>
              \A t \in Targets : confidence'[t] >= confidence[t]
<1>1. /\ UNCHANGED <<lock, overlapped, runScope, pc, lapses, pending, approving>>
      /\ todo' = [todo EXCEPT ![r] = todo[r] \ {p}]
      /\ SetConfidence(p) \/ UNCHANGED graphVars
  BY DEF Apply, ApplyFails, Save, Handles
<1>2. \/ confidence' = [confidence EXCEPT ![p.key.target] = p.confidence]
      \/ confidence' = confidence
  BY <1>1 DEF SetConfidence, graphVars
<1>3. /\ p.key.target \in Targets /\ p.confidence \in Nat
      /\ confidence \in [Targets -> Nat]
  BY DEF TypeInv, TypeOK, Proposals, Keys
<1>4. ASSUME lapses = 0
      PROVE  /\ LeaseInv'
             /\ overlapped = {} => \A t \in Targets : confidence'[t] >= confidence[t]
  <2>1. /\ runScope[r] \in {ScopeOf[p.key.target], Global}
        /\ r \notin overlapped => confidence[p.key.target] <= p.confidence
    BY <1>4 DEF RisingInv, LeaseInv, OfferInv
  <2>2. runScope[r] # None
    BY <2>1, <1>3, ConstAssumption
  <2>3. ASSUME NEW q \in Runs, NEW o \in todo'[q]
        PROVE  /\ o \in todo[q]
               /\ q \notin overlapped => o.key.target # p.key.target
    <3>1. CASE q = r
      BY <1>1, <1>4, <2>3, <3>1 DEF RisingInv, LeaseInv, OfferInv, TypeInv, TypeOK
    <3>2. CASE q # r
      <4>1. o \in todo[q]
        BY <1>1, <2>3, <3>2 DEF TypeInv, TypeOK
      <4>2. runScope[q] \in {ScopeOf[o.key.target], Global} /\ o.key.target \in Targets
        BY <1>4, <4>1 DEF RisingInv, LeaseInv, OfferInv, TypeInv, TypeOK, Proposals, Keys
      <4>3. runScope[q] # None /\ runScope[q] # runScope[r]
        BY <1>4, <2>2, <3>2, <4>2, ConstAssumption DEF RisingInv, LeaseInv, HolderInv
      <4>4. q \notin overlapped => runScope[q] # Global /\ runScope[r] # Global
        BY <1>4, <2>2, <3>2, <4>3 DEF RisingInv, LeaseInv, OverlapInv
      <4> QED BY <2>1, <4>1, <4>2, <4>3, <4>4
    <3> QED BY <3>1, <3>2
  <2>4. ASSUME NEW q \in Runs, NEW o \in todo'[q]
        PROVE  /\ runScope'[q] \in {ScopeOf[o.key.target], Global}
               /\ q \notin overlapped' => confidence'[o.key.target] <= o.confidence
               /\ \A u \in todo'[q] : u # o => u.key.target # o.key.target
    <3>1. /\ o \in todo[q] /\ (q \notin overlapped => o.key.target # p.key.target)
          /\ \A u \in todo'[q] : u \in todo[q]
      BY <2>3
    <3>2. /\ runScope[q] \in {ScopeOf[o.key.target], Global}
          /\ q \notin overlapped => confidence[o.key.target] <= o.confidence
          /\ \A u \in todo'[q] : u # o => u.key.target # o.key.target
      BY <1>4, <3>1 DEF RisingInv, LeaseInv, OfferInv
    <3>3. o.key.target \in Targets
      BY <3>1 DEF TypeInv, TypeOK, Proposals, Keys
    <3>4. q \notin overlapped => confidence'[o.key.target] = confidence[o.key.target]
      BY <1>2, <1>3, <3>1, <3>3
    <3> QED BY <1>1, <3>2, <3>4
  <2>5. LeaseInv'
    BY <1>1, <1>4, <2>4
       DEF RisingInv, LeaseInv, HolderInv, OverlapInv, OfferInv, Running
  <2>6. ASSUME overlapped = {}, NEW t \in Targets PROVE confidence'[t] >= confidence[t]
    BY <1>2, <1>3, <2>1, <2>6
  <2> QED BY <2>5, <2>6
<1> QED BY <1>1, <1>4
        DEF RisingInv, LeaseInv, HolderInv, OverlapInv, OfferInv, NothingReviewed

\* With nothing to review there is no review but the removal of what is gone.
LEMMA RisingReview ==
  ASSUME TypeInv, RisingInv, Review
  PROVE  RisingInv' /\ UNCHANGED confidence
<1>1. PICK k \in removing : ApproveRemoves(k)
  BY DEF Review, RisingInv, NothingReviewed
<1>2. /\ UNCHANGED <<lock, overlapped, confidence, runScope, todo, pc, approving, lapses>>
      /\ pending' = {}
  BY <1>1 DEF ApproveRemoves, Without, RisingInv, NothingReviewed, graphVars, runVars, bounds
<1> QED BY <1>2
        DEF RisingInv, LeaseInv, HolderInv, OverlapInv, OfferInv, NothingReviewed, Running

Rises == lapses' = 0 /\ overlapped = {} =>
           \A t \in Targets : confidence'[t] >= confidence[t]

LEMMA RisingNext ==
  ASSUME AutoApply, TypeInv, RisingInv, [Next]_vars
  PROVE  /\ RisingInv'
         /\ Rises
<1>0. /\ confidence \in [Targets -> Nat] /\ lapses \in Nat
      /\ pc \in [Runs -> Stages]
  BY DEF TypeInv, TypeOK
<1>1. ASSUME RisingInv', UNCHANGED confidence
      PROVE  /\ RisingInv'
             /\ Rises
  BY <1>0, <1>1 DEF Rises
<1>2. CASE UNCHANGED vars
  BY <1>1, <1>2, RisingElsewhere DEF vars, graphVars, runVars, reviewVars, bounds, Running
<1>3. ASSUME NEW t \in Targets, Publish(t) PROVE RisingInv' /\ UNCHANGED confidence
  BY <1>3, RisingElsewhere DEF Publish, graphVars, runVars, reviewVars, bounds, Running
<1>4. ASSUME NEW r \in Runs, Run(r)
      PROVE  /\ RisingInv'
             /\ Rises
  <2>1. ASSUME NEW s \in Scopes, Acquire(r, s) PROVE RisingInv' /\ UNCHANGED confidence
    BY <2>1, RisingAcquire DEF Acquire, graphVars
  <2>2. ASSUME NEW idle \in SUBSET PendingIds, ClaimStale(r, idle)
        PROVE  RisingInv' /\ UNCHANGED confidence
    BY <1>0, <2>2, RisingElsewhere DEF ClaimStale, graphVars, reviewVars, bounds, Running
  <2>3. CASE ReadOwn(r) \/ ReadNew(r) \/ Handled(r) \/ Ack(r)
    BY <1>0, <1>1, <2>3, RisingElsewhere
    DEF ReadOwn, ReadNew, Handled, Ack, graphVars, runVars, reviewVars, bounds, Running
  <2>4. CASE RunAborts(r) \/ HeartbeatFails(r)
    BY <1>0, <1>1, <2>4, RisingElsewhere
    DEF RunAborts, HeartbeatFails, graphVars, runVars, reviewVars, Running
  <2>5. CASE Release(r)
    BY <1>1, <2>5, RisingRelease DEF Release, graphVars
  <2>6. CASE Generate(r)
    BY <1>1, <2>6, RisingGenerate DEF Generate, graphVars
  <2>7. ASSUME NEW p \in todo[r], Apply(r, p) \/ ApplyFails(r, p) \/ Save(r, p)
        PROVE  /\ RisingInv'
               /\ Rises
    <3>1. lapses' = lapses
      BY <2>7 DEF Apply, ApplyFails, Save, Handles
    <3> QED BY <2>7, <3>1, RisingHandle DEF Rises
  <2> QED BY <1>1, <1>4, <2>1, <2>2, <2>3, <2>4, <2>5, <2>6, <2>7 DEF Run, Step
<1>5. ASSUME NEW e \in Engines, Crash(e) PROVE RisingInv' /\ UNCHANGED confidence
  BY <1>5, RisingCrash DEF Crash, graphVars
<1>6. ASSUME NEW s \in Scopes, LeaseExpires(s) \/ LeaseLapses(s)
      PROVE  RisingInv' /\ UNCHANGED confidence
  BY <1>6, RisingLease DEF LeaseExpires, LeaseLapses, graphVars
<1> QED BY <1>1, <1>2, <1>3, <1>4, <1>5, <1>6, RisingReview DEF Next

\* Where the engine applies its own proposals, no application lowers a
\* confidence (consolidation.ts:645) while no lease has lapsed and no run in
\* progress overlaps one for Global, whatever engines, runs that share one,
\* scopes, crashes and failing calls there are.
THEOREM ReinforcementRises ==
  ASSUME AutoApply
  PROVE  Spec => ReinforceNeverLowers
<1>1. Init => TypeInv /\ RisingInv
  BY TypeInit, ConstAssumption
     DEF Init, RisingInv, LeaseInv, HolderInv, OverlapInv, OfferInv, NothingReviewed, Running
<1>2. TypeInv /\ RisingInv /\ [Next]_vars => TypeInv' /\ RisingInv'
  BY TypeNext, RisingNext
<1>3. TypeInv /\ RisingInv /\ [Next]_vars =>
        [lapses' = 0 /\ overlapped = {} =>
           \A t \in Targets : confidence'[t] >= confidence[t]]_vars
  BY RisingNext DEF Rises
<1> QED BY <1>1, <1>2, <1>3, PTL DEF Spec, ReinforceNeverLowers
===============================================================================
