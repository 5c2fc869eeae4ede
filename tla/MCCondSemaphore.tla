--------------------------- MODULE MCCondSemaphore ---------------------------
EXTENDS CondSemaphore

MCInitial == {0, 1}
==============================================================================
