---------------------------- MODULE CaseAuthority ----------------------------
(***************************************************************************)
(* What the evidence ledger promises those who decide by it: a Semantic    *)
(* comes under coverage once and leaves it for good; a case is opened,     *)
(* decided and closed only while it is covered, one transition at a time;  *)
(* and nothing leads back.                                                 *)
(***************************************************************************)
CONSTANT Cases

VARIABLES coverage,  \* "none", "opened" or "revoked"
          case       \* case[c]: how far the authority of case c has got

authority == <<coverage, case>>

Init == coverage = "none" /\ case = [c \in Cases |-> "none"]

Move(c, from, to) ==
  /\ case[c] = from
  /\ case' = [case EXCEPT ![c] = to]

\* Coverage begins, alone or with the case that called for it.
Cover ==
  /\ coverage = "none" /\ coverage' = "opened"
  /\ UNCHANGED case \/ \E c \in Cases : Move(c, "none", "case_opened")

Revoke == coverage = "opened" /\ coverage' = "revoked" /\ UNCHANGED case

Decide(c) ==
  /\ coverage = "opened" /\ UNCHANGED coverage
  /\ \/ Move(c, "none", "case_opened")
     \/ Move(c, "case_opened", "rejected")
     \/ Move(c, "case_opened", "resolution_started")
     \/ Move(c, "resolution_started", "resolved")

Next == Cover \/ Revoke \/ \E c \in Cases : Decide(c)

Safety == Init /\ [][Next]_authority
=============================================================================
