\* One SCHEDULE job with a time limit, one run, one connection, and the watchdogs.
SPECIFICATION FairAgentSpec
CONSTANTS
  NoJob = NoJob
  Job = {j1}
  TheJob = j1
  WatchJob = {}
  TimeLimited = {j1}
  RunId = {1}
  Client = {c1}
  NoClient = NoClient
  Reported = {"SUCCESS", "FAILED", "CANCELLED", "TIMEOUT"}
  AlertType = {}
  Switchable = {}
  QueueBound = 1
  ProgressRoom = 0
  Watchdogs = TRUE
PROPERTY AbandonedRunIsClosed
