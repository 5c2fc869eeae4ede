CONSTANTS
  Programs <- MorrisPrograms
  Ledgers <- NoLedgers
  Conflicts <- MorrisConflicts
  Headcounts <- NoHeadcounts
  Rooms <- NoLedgers
  Serving <- NoServing
  MaxThreads = 3
  MaxPermits = 5
SPECIFICATION Spec
INVARIANT
  RoomExclusion
