CONSTANTS
  Contents <- MCContents
  Mappings <- MCNoMappings
  OverrideSets <- MCOverrideSets
  Guides <- MCGuides
  MaxCommands = 4
SPECIFICATION Spec
INVARIANTS
  CasesAreTheConfirmed
  PreviewIsWhatRuns
  
  LocksAreOrdered
PROPERTIES
  ExamplesSuffice
CHECK_DEADLOCK FALSE
