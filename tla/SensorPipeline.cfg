SPECIFICATION FairSpec
CONSTANTS
  ReadCount = 2
  MaxLen = 3
  MaxReadings = 5
  MaxEntries = 5
  MaxForeign = 1
  FaultBudget = 2
INVARIANTS
  CountedInOrder
  EveryEntryAccounted
  StrandedBounded
  ReadingsOffByFaults
PROPERTIES
  EntriesReached
