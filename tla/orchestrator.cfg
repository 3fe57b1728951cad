SPECIFICATION Spec
CONSTANTS
  r1 = r1
  r2 = r2
  Resources = {r1, r2}
  Causes = {"c1"}
  NoCause = NoCause
  MaxRuns <- TwiceIfRerun
  Manifests <- MCManifests
  AdapterOutcomes <- MCOutcomes
INVARIANTS
  ContaminationRespected
  CleanupExactlyOnce
  EvidenceAuthentic
  ResultsAreHonest
  RetryKeepsFirstFailure
PROPERTIES
  ImplementsCaseVerdicts
CHECK_DEADLOCK FALSE
