SPECIFICATION Spec
CONSTANTS
  timeout = timeout
  typo = typo
  d1 = d1
  d2 = d2
  Errors = {timeout, typo}
  Infra = {timeout}
  Details = {d1, d2}
  Codes = {d2}
  Envs = {"prod", "staging"}
  PageEnvs = {"prod"}
  Levels = {"info", "error", "fatal"}
  LevelsAccepted = {"error", "fatal"}
  EnvsAccepted = {}
  Users = {0, 100}
  Counts = {1}
  MaxHits = 3
  Share = 50
  ConfidenceMin = 60
  LevelFatal = TRUE
  UsersToPage = 50
  EventsToPage = 0
  MaxPosts = 3
  MaxRedelivered = 1
CHECK_DEADLOCK FALSE
INVARIANTS
  TypeOK
  IssuePerBreakage
  NoPrWithoutDefect
  PagedForProduction
  OpenedByAlarms
