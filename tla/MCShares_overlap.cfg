CONSTANTS
  t1 = t1  t2 = t2  t3 = t3  o1 = o1
  good = good  other = other  bad = bad  f1 = f1  f2 = f2  None = None
  Tasks = {t1, t2, t3}
  MaxRunning = 2
  MaxQueued = 1
  Feeds = {good, other, bad}
  Sound = {good, other}
  Files = {f1, f2}
  MaxVersions = 2
  Visitors = {o1}
  Apart = TRUE
SPECIFICATION SharesSpec
INVARIANTS ServedIsValidated
