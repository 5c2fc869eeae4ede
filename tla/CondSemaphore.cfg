CONSTANTS
  Thread = {t1, t2, t3}
  Initial <- MCInitial
  MaxValue = 2
  Free = Free
SPECIFICATION FairSpec
INVARIANTS
  TypeOK
  MutualExclusion
  DeficitAccounted
  NoLostWakeup
PROPERTY
  ImplementsSemaphore
