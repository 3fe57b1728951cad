SPECIFICATION ChainSpec
CONSTANTS
  Inputs <- MCInputs
  Wrappers = {"axios", "transport"}
  CallsOf <- CallsOfWrapper
  Texts = {"reload", "refetch", "showError", "refreshToken", "items"}
  KindOf <- KindOfText
INVARIANTS
  ChainIsTheWay
  OutcomesAreTold
CHECK_DEADLOCK FALSE
