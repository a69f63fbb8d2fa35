SPECIFICATION FairSpec
CONSTANTS
  Zones <- MCZones
  Objects <- MCObjects
  Home <- MCHome
  Settings = {1, 5, 30}
  Off = 0
  Specs <- MCTuned
  Faults = {"ensureError", "updateError", "lostReply", "crash"}
  FaultBudget = 2
  MaxGeneration = 4
  MaxLag = 2
INVARIANTS
  TrackedWhenActive
  DeletedClean
PROPERTIES
  Convergence
