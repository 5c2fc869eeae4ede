CONSTANTS
  Programs <- LightswitchPrograms
  Ledgers <- NoLedgers
  Conflicts <- LightswitchConflicts
  Headcounts <- NoHeadcounts
  Rooms <- NoLedgers
  Serving <- NoServing
  MaxThreads = 3
  MaxPermits = 5
SPECIFICATION Spec
INVARIANT
  RoomExclusion
