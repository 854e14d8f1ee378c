SPECIFICATION Spec
CONSTANTS
  h1 = h1
  Hooks = {h1}
  Kinds = {"ci_success", "comment", "merged"}
  MaxAttempts = 1
  MaxEvents = 2
  MaxFaults = 0
  MaxUpdates = 0
  PromptStart = TRUE
PROPERTIES
  ReadyKeepsListening
