SPECIFICATION Spec

CONSTANTS
  Monitors = {m1}
  AdapterCount = 2
  Policies = {"manual"}
  IncreaseCount = 2
  DecreaseCount = 2
  SpeedCount = 1
  SerialCount = 1
  HoldOff = 2
  Apps = {"news", "map"}
  BgApp = "BG"
  Types = {0, 1}
  Table <- MCTable
  HistoryEvents <- MCHistoryEvents
  MaxEvents = 1
  MaxRequests = 1
  MaxFailures = 0
  MaxDisturbances = 2

CHECK_DEADLOCK FALSE

INVARIANTS
  GetAdapterNeverAborts
