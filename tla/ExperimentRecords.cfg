SPECIFICATION Spec
CONSTANTS
  ChaosObjects <- MCOneChaosObject
  Roles = {"sut"}
  Namespaced = {}
  SpecRepetitions = 2
  TopologyDelay = 0
  LoadDelay = 0
  ChaosDelay = 1
  MeasurementDuration = 1
  PauseBetweenRepetitions = 0
  SampleInterval = 1
  TopologyTimeout = 2
  UseTopology = FALSE
  UseChaos = TRUE
  Faults = {"staleCache", "patchError", "lostReply", "chaosError", "deployError", "undeployError", "getError", "measurementsError", "crash", "restart", "specEdit"}
  FaultBudget = 2
  MaxLag = 3
INVARIANTS
  TypeOK
  ResultsRecorded
  ScoreRecorded
  ResultsFromOwnWindow
  ResultsLogged
PROPERTIES
  Progress
