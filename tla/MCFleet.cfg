CONSTANTS
  Client = {c1, c2}
  MaxStamp = 3
  Assignable = {"ACTIVE", "DISABLED"}
  FaultLimit = 1
SPECIFICATION FairSpec
INVARIANTS TypeOK OfflineAlertMeansSilence AlertsFollowHeartbeats
PROPERTIES DisabledIsRespected SilenceIsReported
