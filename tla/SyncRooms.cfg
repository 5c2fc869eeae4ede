CONSTANTS
  Programs <- MCPrograms
  Ledgers <- MCLedgers
  Conflicts <- MCConflicts
  Headcounts <- MCHeadcounts
  Rooms <- MCRooms
  Serving <- MCServing
  MaxThreads = 4
  MaxPermits = 5
SPECIFICATION FairSpec
INVARIANTS
  TypeOK
  QueueAccounted
  QueuedOnce
  ControlFollowed
  NoStandstill
  PermitsConserved
  RoomExclusion
  HeadcountAccurate
PROPERTY
  NobodyLeftWaiting
