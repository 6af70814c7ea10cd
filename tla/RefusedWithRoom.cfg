SPECIFICATION Spec
CONSTANTS
  Calls = {c1, c2, c3}
  MaxConcurrent = 2
  MaxQueueDepth = 2
  QueueTimeout = TRUE
  MaxRequests = 1
  Window = 2
  MaxRetries = 1
  Cancellable = TRUE
PROPERTIES
  RefusedMeansFull
