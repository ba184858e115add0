CONSTANTS
  Job = {j1}
  NoJob = NoJob
  MaxRun = 2
  ApiTask = {a1}
  Setting = {"on", "unlinked"}
  FaultLimit = 1
SPECIFICATION FairSpec
INVARIANTS TypeOK AlertTellsTheVerdict
PROPERTIES TerminalIsFinal ImplementsLifecycle RunningEnds PendingEnds
