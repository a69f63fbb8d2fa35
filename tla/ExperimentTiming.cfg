SPECIFICATION Spec
CONSTANTS
  ChaosObjects <- MCOneChaosObject
  Roles = {"sut"}
  Namespaced = {"sut"}
  SpecRepetitions = 2
  TopologyDelay = 1
  LoadDelay = 1
  ChaosDelay = 3
  MeasurementDuration = 4
  PauseBetweenRepetitions = 2
  SampleInterval = 2
  TopologyTimeout = 3
  UseTopology = TRUE
  UseChaos = FALSE
  Faults = {"lateRun", "patchError", "queryError", "staleTopology", "activateError", "deactivateError", "getError", "deployError", "resultsError", "topologyFailed", "crash"}
  FaultBudget = 3
  MaxLag = 1
INVARIANTS
  WindowBounded
  SamplesOrdered
PROPERTIES
  TopologyUsed
