\* The worker against one client: what the watchdogs achieve.
SPECIFICATION FairSpec
CONSTANTS
  NoJob = NoJob
  Job = {j1}
  WatchJob = {}
  TimeLimited = {j1}
  RunId = {1}
  Client = {c1}
  Reported = {"SUCCESS", "TIMEOUT"}
  AlertType = {"JOB_MISSED"}
  Switchable = {j1}
PROPERTIES ImplementsLifecycle WatchdogsCloseRuns MissedAlertFollows
