SPECIFICATION ServiceSpec
CONSTANTS
  Requests <- MCRequests
  POSTURE_ACTION_RESPONSE_DELAY = 2
INVARIANTS
  ServiceTypeOK
  CallbacksFollowProtocol
  HandledInOrder
  ActsOnceBeforeAnswer
  WaitsOnlyForPostures
PROPERTIES
  QueuedIsAnswered
  KeepsPromise
CHECK_DEADLOCK FALSE
