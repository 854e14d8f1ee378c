SPECIFICATION Spec
CONSTANTS
  f1 = f1
  l1 = l1
  c1 = c1
  c2 = c2
  Fingerprints = {f1}
  Triagers = {l1}
  Updaters = {}
  Clickers = {c1,c2}
  Gated = TRUE
  PrsPerDay = 0
  MaxEvents = 3
  MaxFaults = 0
  PromptStart = TRUE
CHECK_DEADLOCK FALSE
INVARIANTS
  OneExecution
