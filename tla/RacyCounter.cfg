CONSTANTS
  Child = {c1, c2}
  End = 3
  Unchecked = Unchecked
SPECIFICATION Spec
INVARIANTS
  TypeOK
  ElementsCounted
  OverrunBounded
PROPERTY
  Termination
CHECK_DEADLOCK FALSE
