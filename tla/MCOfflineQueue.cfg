\* Three rows, of which any may be a completion the backend refuses.
SPECIFICATION FairSpec
CONSTANTS
  NoEvent = NoEvent
  Id = {1, 2, 3}
  Event = {"JobRunPatch", "JobRunComplete", "TimedOutComplete"}
  Durable = {"JobRunComplete", "TimedOutComplete"}
  Refused = {"TimedOutComplete"}
INVARIANTS TypeOK NothingLost
PROPERTIES AcknowledgedInOrder FirstDeliveryInOrder DeliveredUnlessBlocked ImplementsDurableQueue
