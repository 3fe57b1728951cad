SPECIFICATION SessionSpec
CONSTANTS
  g1 = g1
  g2 = g2
  Groups = {g1, g2}
  NoGroup = NoGroup
  Smoke = TRUE
  Plans <- ThreeCases
INVARIANTS
  SharedOnlyWhenRelated
  NoContextIsForgotten
  QuietMeansComplete
CHECK_DEADLOCK FALSE
