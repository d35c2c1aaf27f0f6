CONSTANTS
  u1 = u1  u2 = u2  e1 = e1  x1 = x1  h1 = h1
  Uploads = {u1, u2}
  Enters = {}
  Exports = {}
  Heartbeats = {}
  Client = "any"
  MayIdle = TRUE
  MaxCrashes = 1
  CutsRemovals = FALSE
  None = None
SPECIFICATION FairSpec
PROPERTIES UploadIsAnswered OrphanIsCollected
