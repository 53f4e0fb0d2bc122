----------------------------- MODULE AtLeastOnce -----------------------------
(***************************************************************************)
(* What a queue of this system promises its producers: a job it has        *)
(* accepted is owed until it is handled to the end or given up as a dead   *)
(* letter, and a dead letter stays one until it is replayed or handled     *)
(* after all.  No job is ever simply gone.  The extraction queue's jobs,   *)
(* the calls that hand them over, and the signals of the consolidation     *)
(* stream, which are never given up, all implement it.                     *)
(***************************************************************************)
CONSTANT Jobs

VARIABLE status    \* status[j]: what the queue owes job j

Init == status = [j \in Jobs |-> "none"]

Move(j, from, to) ==
  /\ status[j] \in from
  /\ status' = [status EXCEPT ![j] = to]

Accept(j) == Move(j, {"none"}, "owed")
Finish(j) == Move(j, {"owed", "dead"}, "done")
Bury(j) == Move(j, {"owed"}, "dead")
Replay(j) == Move(j, {"dead"}, "owed")

Next == \E j \in Jobs : Accept(j) \/ Finish(j) \/ Bury(j) \/ Replay(j)

\* A job that is owed is settled in the end.
Settle(j) == status[j] = "owed" /\ (Finish(j) \/ Bury(j))
Fairness == \A j \in Jobs : WF_status(Settle(j))

Safety == Init /\ [][Next]_status
Spec == Safety /\ Fairness
=============================================================================
