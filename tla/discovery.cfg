SPECIFICATION FairSpec
CONSTANTS
  home = home
  login = login
  a1 = a1
  p1 = p1
  p2 = p2
  TaskCount = 2
  Pages = {home, login}
  Approvals = {a1}
  Unapproved = Unapproved
  Packages = {p1, p2}
  Given = p1
  Absent = Absent
  MaxChanges = 2
INVARIANTS
  ManifestIsDiscovered
  ManifestWasCurrent
  RunNeedsClosedContexts
PROPERTIES
  EveryContextIsReleased
CHECK_DEADLOCK FALSE
