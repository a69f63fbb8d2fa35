SPECIFICATION Spec
CONSTANTS
  Clients = {"a", "b"}
  Nobody = "nobody"
  Names = {"x", "y"}
  Roles = {1, 2}
  Verbs <- MCVerbs
  FaultBudget = 0
INVARIANTS
  InitComplete
