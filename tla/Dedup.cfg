SPECIFICATION Spec
CONSTANTS
  Forums = {"f1", "f2", "f3"}
  Papers = {"p1", "p2"}
  CreativePapers = {"p2"}
  NeurIPSYears = {"neurips 2024"}
  ValueOrder <- MCValueOrder
  NoKey = "no key"
  None = "none"
  VenueYears = {"icml 2023", "icml 2024", "neurips 2024"}
  Inputs <- MCInputs
  Crawls <- MCCrawls
  ListedAt = 1
  NoNative = "none global"
INVARIANTS
  SecondRunChangesNothing
  NeverFoldsTwoPapers
  AuditTellsAll
CHECK_DEADLOCK FALSE
