SPECIFICATION FairSpec
CONSTANTS
  e1 = e1  e2 = e2  r1 = r1  r2 = r2  t1 = t1  t2 = t2
  project = project  Global = Global  None = None
  Engines = {e1, e2}  Runs = {r1, r2}  EngineOf <- TwoEngines
  Targets = {t1}  Scopes = {project}  ScopeOf <- InProject
  Threshold = 2  Count = 4  AutoApply = FALSE
  MaxSignals = 2  MaxCrashes = 1  MaxFailures = 2  MaxLapses = 0
INVARIANTS NoSignalLost
PROPERTIES BacklogHandled
