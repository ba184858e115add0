\* One SCHEDULE job without a time limit, two runs, two clients.
SPECIFICATION Spec
CONSTANTS
  NoJob = NoJob
  Job = {j1}
  WatchJob = {}
  TimeLimited = {}
  RunId = {1, 2}
  Client = {c1, c2}
  Reported = {"SUCCESS", "FAILED"}
  AlertType = {"JOB_FAILED"}
  Switchable = {}
SYMMETRY ClientSymmetry
INVARIANTS TypeOK OneActivePerJob StuckWasNeverTaken GrantIsExclusive FailureAlertIsCurrent
PROPERTIES TerminalIsFinal HandedOverOnce
