CONSTANTS
  b1 = b1  b2 = b2  t1 = t1  t2 = t2  f1 = f1  f2 = f2  x1 = x1  None = None
  Browsers = {b1}
  Tabs = {t1}
  Home <- OneTab
  Fields = {f1}
  Versions = {x1}
  Account = FALSE
  Events = {"create", "purge", "quota", "versions", "refresh", "list", "act", "loss", "load", "keep", "remove"}
  MaxEdits = 0
  MaxDataVersion = 3
  MaxRev = 2
  MaxAsked = 1
SPECIFICATION Spec
INVARIANTS DirtyIsScheduled
CHECK_DEADLOCK FALSE
