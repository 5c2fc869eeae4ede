CONSTANTS
  Programs <- MCPrograms
  Critical <- MCCritical
  Reusable <- MCReusable
  MaxThreads = 3
  MaxPermits = 5
SPECIFICATION BarrierSpec
PROPERTIES
  ImplementsBarrier
  EveryoneGetsThrough
CHECK_DEADLOCK FALSE
