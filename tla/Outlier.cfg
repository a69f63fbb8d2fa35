SPECIFICATION FairSpec
CONSTANTS
  WindowSize = 2
  Width = 2
  Activities = {"a", "b"}
  Cases = {"x", "y", "z"}
  Shards = {1, 2}
  ShardOf <- MCShardOf
  MaxEvents = 5
INVARIANTS
  ScoredInTurn
  ScoredByWindowBefore
  LatestShown
  NoNeedlessWait
  LossyCounting
PROPERTIES
  EventsScored
