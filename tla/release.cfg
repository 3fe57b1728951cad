CONSTANTS
  Archs = {"x64", "arm64"}
  Versions = {1, 2}
  Expected = 1
  MaxCommands = 3
  MaxEdits = 2
  MaxJobs = 5
  MaxChanges = 1
SPECIFICATION Spec
INVARIANTS
  VerifiedIsTrusted
  InstallersLeadToBundles
  SmokeVouches
  OneReleaseOfTheTag
  PublicIsTrusted
CHECK_DEADLOCK FALSE
