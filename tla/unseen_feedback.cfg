SPECIFICATION Spec
CONSTANTS
  Kinds = {"comment", "ci_success"}
  MaxAttempts = 1
  Engine = "claude"
  MaxLives = 1
  MaxEvents = 2
  MaxHuman = 1
INVARIANTS
  AddressedWasShown
