SPECIFICATION Spec
CONSTANTS
  Clients = {"prelauncher", "smoke", "probe"}
  Payloads <- MCPayloads
  MaxHandshake <- MCMaxHandshake
  Responses <- MCResponses
  Tables <- MCTables
  GreeterIp = 4
  GreeterPort = 1
  Banner <- MCBanner
  MaxSpoken = 2
INVARIANTS
  TypeOK
  VerdictOnWholePayload
  ScenarioVerdicts
  ListenersProbedOnce
PROPERTIES
  TagTellsTruth
  EveryWaitEnds
CHECK_DEADLOCK FALSE
