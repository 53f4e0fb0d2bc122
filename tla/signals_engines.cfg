SPECIFICATION Spec
CONSTANTS
  e1 = e1  e2 = e2  r1 = r1  r2 = r2  t1 = t1  t2 = t2
  project = project  Global = Global  None = None
  Engines = {e1, e2}  Runs = {r1, r2}  EngineOf <- TwoEngines
  Targets = {t1}  Scopes = {project, Global}  ScopeOf <- InProject
  Threshold = 1  Count = 4  AutoApply = TRUE
  MaxSignals = 2  MaxCrashes = 1  MaxFailures = 1  MaxLapses = 1
INVARIANTS TypeOK ConfidenceEarned
 
SYMMETRY Twins
