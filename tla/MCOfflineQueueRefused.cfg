\* A completion the backend refuses (TIMEOUT) may be queued before others.
SPECIFICATION FairSpec
CONSTANTS
  NoEvent = NoEvent
  Id = {1, 2}
  Event = {"JobRunComplete", "TimedOutComplete"}
  Durable = {"JobRunComplete", "TimedOutComplete"}
  Refused = {"TimedOutComplete"}
PROPERTY DurableEventsGetThrough
