SPECIFICATION ReceivingFairSpec
CONSTANTS
  l1 = l1
  l2 = l2
  Links = {l1, l2}
  Kinds = {"data"}
  NumSegs = 4
  MaxLosses = 1
  MaxCopies = 2
  LinkLength = 1
INVARIANTS ReceivedInOrder NoLostWakeup
PROPERTY PendingIsDelivered
CHECK_DEADLOCK FALSE
