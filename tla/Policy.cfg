SPECIFICATION FairSpec

CONSTANTS
  Monitors = {m1}
  AdapterCount = 2
  Policies = {"wfdOnly", "btOnly", "throughput", "manual", "appManual", "history"}
  IncreaseCount = 2
  DecreaseCount = 2
  SpeedCount = 1
  SerialCount = 1
  HoldOff = 2
  Apps = {"news", "map"}
  BgApp = "BG"
  Types = {0, 1}
  Table <- MCTable
  HistoryEvents <- MCHistoryEvents
  MaxEvents = 2
  MaxRequests = 1
  MaxFailures = 1
  MaxDisturbances = 2

CHECK_DEADLOCK FALSE

INVARIANTS
  AdapterExists
  ModeIsActive

PROPERTIES
  SwitchIsJustified
  ModeIsReached
  IdleReturns
