SPECIFICATION SharedFairSpec
CONSTANTS
  Zones <- MCZones
  Objects <- MCObjects
  Home <- MCHome
  Settings = {5, 30}
  Off = 0
  Specs <- MCTuned
  Experiments = {"a", "b"}
  Repetitions <- MCRepetitions
  Faults = {"ensureError", "updateError", "lostReply", "crash"}
  FaultBudget = 1
  MaxGeneration = 20
  MaxLag = 2
INVARIANTS
  SoleUseProvisioned
  SoleUseUndone
PROPERTIES
  EveryExperimentEnds
