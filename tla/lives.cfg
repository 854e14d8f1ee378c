SPECIFICATION Spec
CONSTANTS
  Kinds = {"comment", "ci_success"}
  MaxAttempts = 1
  Engine = "claude"
  MaxLives = 2
  MaxEvents = 2
  MaxHuman = 1
INVARIANTS
  TypeOK
  OlderPrUntouched
  WorksAlone
  ReportedIsPushed
  SettledByOwnPr
  LivesAreSeparate
  LifeInBudget
PROPERTIES
  BranchGrows
  KeepsPromise
