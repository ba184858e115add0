CONSTANTS
  Condition = {x, y}
  NoCondition = NoCondition
  MaxAlert = 2
  MaxUser = 2
  Page = 1
  LinkLimit = 2
  FaultLimit = 1
SPECIFICATION FairSpec
INVARIANTS TypeOK MarkMeansPushed PushedOnce
PROPERTIES ActiveIsPushed
CHECK_DEADLOCK FALSE
