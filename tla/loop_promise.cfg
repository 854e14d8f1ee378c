SPECIFICATION FairSpec
CONSTANTS
  h1 = h1
  h2 = h2
  Hooks = {h1, h2}
  Kinds = {"ci_success", "comment", "merged", "closed"}
  MaxAttempts = 2
  MaxEvents = 2
  MaxFaults = 2
  MaxUpdates = 0
  PromptStart = TRUE
INVARIANTS
  RowTracksExecution
  CountersAccurate
PROPERTIES
  KeepsPromise
  RunsAsAdmitted
  RunEnds
  Settles
