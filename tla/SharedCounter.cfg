CONSTANTS
  Child = {c1, c2, c3}
  End = 2
  Free = Free
  Unchecked = Unchecked
SPECIFICATION FairSpec
INVARIANTS
  TypeOK
  OnePermit
  ClaimedOnce
  NoErrors
PROPERTY
  Termination
CHECK_DEADLOCK FALSE
