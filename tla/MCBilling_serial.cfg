CONSTANTS
  s1 = s1  s2 = s2
  Subs = {s1, s2}
  HasKey = TRUE
  Overlap = FALSE
  SameSecond = FALSE
  LateEvents = FALSE
  MaxEvents = 7
  MaxCrashes = 1
  None = None
CHECK_DEADLOCK FALSE
SPECIFICATION FairSpec
 
PROPERTIES CanceledIsFinal PaidBecomesLicence
