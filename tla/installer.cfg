SPECIFICATION Spec
CONSTANTS
  a = a
  b = b
  old = old
  new = new
  Installs = {1, 2, 3}
  Roots = {a, b}
  Bundles = {old, new}
  None = None
  Broken = Broken
  MaxFaults = 2
INVARIANTS
  ReceiptIsEarned
  FailureRestores
  PreviousSkillIsKept
SYMMETRY Alike
CHECK_DEADLOCK FALSE
