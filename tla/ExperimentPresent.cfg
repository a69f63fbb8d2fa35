SPECIFICATION FairSpec
CONSTANTS
  ChaosObjects <- MCChaosObjects
  Roles = {"sut", "load"}
  Namespaced = {"sut", "load"}
  SpecRepetitions = 2
  TopologyDelay = 1
  LoadDelay = 0
  ChaosDelay = 1
  MeasurementDuration = 1
  PauseBetweenRepetitions = 1
  SampleInterval = 1
  TopologyTimeout = 2
  UseTopology = TRUE
  UseChaos = TRUE
  Faults = {"deployError", "activateError", "deactivateError", "undeployError", "getError", "chaosError", "crash", "lostReply", "staleCache", "restart", "topologyFailed"}
  FaultBudget = 2
  MaxLag = 2
INVARIANTS
  MeasuredSystemPresent
PROPERTIES
  Termination
