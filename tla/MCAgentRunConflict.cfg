\* One SCHEDULE job without a time limit, one run, two connections.
SPECIFICATION AgentSpec
CONSTANTS
  NoJob = NoJob
  Job = {j1}
  TheJob = j1
  WatchJob = {}
  TimeLimited = {}
  RunId = {1}
  Client = {c1, c2}
  NoClient = NoClient
  Reported = {"SUCCESS", "FAILED", "CANCELLED", "TIMEOUT"}
  AlertType = {}
  Switchable = {}
  QueueBound = 1
  ProgressRoom = 0
  Watchdogs = FALSE
INVARIANT ConflictMeansOver
