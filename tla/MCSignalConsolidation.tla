------------------------ MODULE MCSignalConsolidation ------------------------
(* Small instances of SignalConsolidation.                                 *)
EXTENDS SignalConsolidation, TLC
CONSTANTS e1, e2, r1, r2, t1, t2, project
TwoEngines == (r1 :> e1) @@ (r2 :> e2)
OneEngine == [r \in Runs |-> e1]
InProject == [t \in Targets |-> project]
\* Two engines are interchangeable together with their runs.
Twins == {p \in Permutations(Engines \cup Runs) :
            \A r \in Runs : p[r] \in Runs /\ p[EngineOf[r]] = EngineOf[p[r]]}
=============================================================================
