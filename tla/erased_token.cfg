SPECIFICATION Spec
CONSTANTS
  h1 = h1
  h2 = h2
  Hooks = {h1,h2}
  Kinds = {"ci_success", "comment"}
  MaxAttempts = 1
  MaxEvents = 3
  MaxFaults = 0
  MaxUpdates = 0
  PromptStart = TRUE
INVARIANTS
  ParkedHasToken
