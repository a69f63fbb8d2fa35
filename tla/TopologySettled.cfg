SPECIFICATION Spec
CONSTANTS
  Zones <- MCZones
  Objects <- MCObjects
  Home <- MCHome
  Settings = {1, 5, 30}
  Off = 0
  Specs <- MCReshaped
  Faults = {"ensureError", "deleteError", "updateError", "lostReply", "crash"}
  FaultBudget = 2
  MaxGeneration = 4
  MaxLag = 2
INVARIANTS
  ProvisionedWhenSettled
PROPERTIES
  NamespacesKept
  PhaseContract
