CONSTANTS
  u1 = u1  u2 = u2  e1 = e1  x1 = x1  h1 = h1
  Uploads = {u1, u2}
  Enters = {e1}
  Exports = {x1}
  Heartbeats = {h1}
  Client = "alone"
  MayIdle = FALSE
  MaxCrashes = 2
  CutsRemovals = FALSE
  None = None
SPECIFICATION Spec
INVARIANTS  AckedFeedIsServed 
