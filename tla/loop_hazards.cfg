SPECIFICATION Spec
CONSTANTS
  h1 = h1
  h2 = h2
  Hooks = {h1, h2}
  Kinds = {"ci_success", "comment"}
  MaxAttempts = 1
  MaxEvents = 2
  MaxFaults = 1
  MaxUpdates = 1
  PromptStart = FALSE
SYMMETRY HookSymmetry
INVARIANTS
  TypeOK
  BudgetRespected
  DeliveredOnce
  EventsKept
  TokenIsCurrent
PROPERTIES
  ExecutionAdvances
  TerminalIsFinal
