SPECIFICATION Spec
CONSTANTS
  s1 = s1
  s2 = s2
  Senders = {s1, s2}
  NumSegs = 3
  NumReceived = 2
  NumRequests = 2
  kSegFreeThreshold = 1
INVARIANT ReleasedIsUnused
CHECK_DEADLOCK FALSE
