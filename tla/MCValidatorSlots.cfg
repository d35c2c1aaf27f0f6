CONSTANTS
  r1 = r1  r2 = r2  r3 = r3
  s1 = s1  s2 = s2
  v1 = v1  v2 = v2  v3 = v3
  Requests = {r1, r2, r3}
  Sessions = {s1, s2}
  SessionOf <- SharedSession
  QueueMax = 2
  None = None
  Validations = {v1, v2, v3}
  LimitBytes = 8
  HeapBytes = 3
  MarginBytes = 1
  XmxBytes = 2
  MaxJvms = 3
SPECIFICATION BothFairSpec
INVARIANTS TypeOK SlotNeverLeaks PartialIsMarked ShutdownStopsImports ValidatorsAreCounted 
PROPERTIES  NobodyWaitsForEver NobodyWaitsForTheValidator
