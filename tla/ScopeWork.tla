------------------------------ MODULE ScopeWork ------------------------------
(***************************************************************************)
(* What the consolidation scheduler promises to the stores: one worker     *)
(* serves one scope at a time; a request is withdrawn only by beginning to *)
(* serve that scope; a failed service may make the scope wanted again; no  *)
(* service begins after the halt; and every wanted scope is eventually     *)
(* served or the worker halted.                                            *)
(***************************************************************************)
CONSTANTS Scopes, None

VARIABLES wanted,   \* requested scopes that no service has covered
          serving,  \* the scope being served, or None
          halted

vars == <<wanted, serving, halted>>

Init == wanted = {} /\ serving = None /\ halted = FALSE

Request(s) ==
  /\ ~halted
  /\ wanted' = wanted \cup {s}
  /\ UNCHANGED <<serving, halted>>

\* The current service ends, possibly leaving its scope wanted again ...
End ==
  /\ serving # None
  /\ wanted' \in {wanted, wanted \cup {serving}}
  /\ serving' = None
  /\ UNCHANGED halted

\* ... and the next one may begin in the same step.  A scope may be served
\* that nobody asked for.
Begin(s) ==
  /\ ~halted
  /\ \/ wanted' = wanted \ {s}
     \/ serving # None /\ wanted' = (wanted \cup {serving}) \ {s}
  /\ serving' = s
  /\ UNCHANGED halted

Halt ==
  /\ ~halted
  /\ halted' = TRUE
  /\ UNCHANGED <<wanted, serving>>

Next ==
  \/ \E s \in Scopes : Request(s) \/ Begin(s)
  \/ End \/ Halt

Safety == Init /\ [][Next]_vars
Spec == Safety /\ \A s \in Scopes : WF_vars(s \in wanted /\ Begin(s))
=============================================================================
