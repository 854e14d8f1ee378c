SPECIFICATION Spec
CONSTANTS
  f1 = f1
  f2 = f2
  f3 = f3
  l1 = l1
  l2 = l2
  Fingerprints = {f1,f2,f3}
  Triagers = {l1,l2}
  Updaters = {}
  Clickers = {}
  Gated = FALSE
  PrsPerDay = 1
  MaxEvents = 4
  MaxFaults = 1
  PromptStart = FALSE
SYMMETRY Symmetry
CHECK_DEADLOCK FALSE
INVARIANTS
  TypeOK
  OneExecutionPerClaim
  ClaimIsHeld
  CapOvershoot
