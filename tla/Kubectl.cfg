SPECIFICATION FairSpec
CONSTANTS
  Clients = {"a", "b"}
  Nobody = "nobody"
  Names = {"x", "y"}
  Roles = {1, 2}
  Verbs <- MCVerbs
  FaultBudget = 2
INVARIANTS
  InitBundles
  ReportTrue
PROPERTIES
  WaitEnds
