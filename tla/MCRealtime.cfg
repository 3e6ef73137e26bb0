CONSTANTS
  MaxSockets = 3
  MaxConversations = 2
  MaxCrashes = 1
  None = None
SPECIFICATION FairSpec
INVARIANTS OneSubscriber ActiveHasOwner
PROPERTIES ServedIsNotLost AbandonedIsEnded
CHECK_DEADLOCK FALSE
