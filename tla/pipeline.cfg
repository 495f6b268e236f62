SPECIFICATION FairSpec
CONSTANTS
  Keys = {"gateway", "stranger"}
  MaxKeys = 1
  Window = 2
  Blank <- MCBlank
  Hidden <- MCHidden
  Truthy <- MCTruthy
  RefusedOrigins <- MCRefusedOrigins
  PortOf <- MCPortOf
  DefaultPort = 8080
  MaxPort = 65535
  MaxValue = 8
  MinToken = 2
  WorkingData <- MCWorkingData
  Environments <- MCEnvironments
  Connections = {c1, c2}
  Requests <- MCRequests
  Limit <- MCLimit
  MaxBody = 2
  MaxChunk = 2
  MaxTime = 2
  MaxCalls = 3
  None = None
INVARIANTS
  TablesAreBounded
  BodiesAreCapped
  ProbesAreServed
PROPERTIES
  NoWindowIsReset
  OnlyWritersSpend
  EveryRequestIsAnswered
