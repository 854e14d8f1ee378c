SPECIFICATION Spec
CONSTANTS
  f1 = f1
  f2 = f2
  l1 = l1
  l2 = l2
  u1 = u1
  c1 = c1
  c2 = c2
  Fingerprints = {f1,f2}
  Triagers = {l1,l2}
  Updaters = {u1}
  Clickers = {c1,c2}
  Gated = TRUE
  PrsPerDay = 1
  MaxEvents = 5
  MaxFaults = 1
  PromptStart = FALSE
SYMMETRY Symmetry
CHECK_DEADLOCK FALSE
INVARIANTS
  OneExecutionPerClaim
  ClaimIsHeld
PROPERTIES
  ApprovedFirst
