----------------------------- MODULE ServedView -----------------------------
(***************************************************************************)
(* What publication promises of the generated wiki: it is a view of the    *)
(* memory graph that may lag behind it but never shows anything the graph  *)
(* does not hold, never loses a change it already showed, and in the end   *)
(* shows every change the graph committed.                                 *)
(***************************************************************************)
EXTENDS FiniteSets

CONSTANT Changes

VARIABLES committed,  \* changes the graph holds
          served      \* changes the served wiki shows

view == <<committed, served>>

ViewInit == committed = {} /\ served = {}

Commit(c) == /\ c \notin committed
             /\ committed' = committed \cup {c}
             /\ UNCHANGED served

\* One publication replaces the whole view by a newer reading of the graph.
Refresh == /\ \E fresh \in SUBSET committed :
                served' = served \cup fresh
           /\ served' # served
           /\ UNCHANGED committed

ViewNext == Refresh \/ \E c \in Changes : Commit(c)

Safety == ViewInit /\ [][ViewNext]_view

\* Every committed change is served in the end.
Liveness == \A c \in Changes : (c \in committed) ~> (c \in served)

Spec == Safety /\ Liveness
=============================================================================
