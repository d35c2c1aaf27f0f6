CONSTANTS
  u1 = u1  u2 = u2  e1 = e1  x1 = x1  h1 = h1
  Uploads = {u1, u2}
  Enters = {e1}
  Exports = {x1}
  Heartbeats = {h1}
  Client = "alone"
  MayIdle = TRUE
  MaxCrashes = 0
  CutsRemovals = FALSE
  None = None
SPECIFICATION FairSpec
INVARIANTS MarkCoversUpload  SessionHasDatabase
PROPERTIES  AbandonedIsRemoved
