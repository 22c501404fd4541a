SPECIFICATION FairLifecycleSpec
CONSTANTS
  THRESHOLD = 3
  WITH_LOCK = TRUE
  RAISES <- SmallRaises
INVARIANT
  PaidFromRaise
PROPERTY
  RaiseGraduates
CHECK_DEADLOCK FALSE
