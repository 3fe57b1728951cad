SPECIFICATION CommandSpec
CONSTANTS
  g1 = g1
  Groups = {g1}
  NoGroup = NoGroup
  Smoke = FALSE
  WritesFail = FALSE
  Plans <- RunPlans
  Verdicts <- RunVerdicts
INVARIANTS
  ExitCodeIsTheResults
