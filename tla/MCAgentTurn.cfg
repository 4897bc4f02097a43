SPECIFICATION Spec
CONSTANTS
  UserBudget = 2
  PreserveRoot = FALSE
  Text <- MCText
  FreshIds = TRUE
  CompactLimit = 10
  MaxUsers = 2
  MaxNotifications = 1
  MaxReplies = 2
  MaxCalls = 2
  MaxStops = 2
  MaxCompactions = 1
CHECK_DEADLOCK FALSE
INVARIANTS
  InStep
  WireContract
  Barrier
  UsersInOrder
PROPERTIES
  KeptUnlessStopped
  RewindForgetsAligned
  QueueIsServed
