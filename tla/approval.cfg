SPECIFICATION Spec
CONSTANTS
  web = web
  db = db
  x = x
  y = y
  p1 = p1
  p2 = p2
  Packages = {p1, p2}
  Actions <- MCActions
  Aliases = {web, db}
  DatabaseAliases = {db}
  Addresses = {x, y}
  MaxEdits = 4
  MaxTime = 2
INVARIANTS
  ExecutesWhatWasApproved
SYMMETRY Alike
CHECK_DEADLOCK FALSE
