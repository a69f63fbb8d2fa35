SPECIFICATION Spec
CONSTANTS
  ChaosObjects <- MCChaosObjects
  Roles = {"sut", "load"}
  Namespaced = {"sut", "load"}
  SpecRepetitions = 2
  TopologyDelay = 1
  LoadDelay = 0
  ChaosDelay = 1
  MeasurementDuration = 1
  PauseBetweenRepetitions = 1
  SampleInterval = 1
  TopologyTimeout = 2
  UseTopology = TRUE
  UseChaos = TRUE
  Faults = {"deployError", "activateError", "getError", "chaosError", "resultsError", "measurementsError", "queryError", "crash", "patchError", "lostReply", "restart", "topologyFailed"}
  FaultBudget = 3
  MaxLag = 1
INVARIANTS
  MeasuredUnderChaos
  ChaosTracked
  SucceededClean
