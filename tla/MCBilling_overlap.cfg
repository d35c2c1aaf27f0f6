CONSTANTS
  s1 = s1  s2 = s2
  Subs = {s1}
  HasKey = TRUE
  Overlap = TRUE
  SameSecond = FALSE
  LateEvents = FALSE
  MaxEvents = 5
  MaxCrashes = 0
  None = None
CHECK_DEADLOCK FALSE
SPECIFICATION Spec
PROPERTIES CanceledIsFinal
