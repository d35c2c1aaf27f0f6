CONSTANTS
  a = a  b = b  s1 = s1  s2 = s2  s3 = s3
  Ids = {a, b}
  Streams = {s1, s2}
  MaxOpenings = 1
  MaxListeners = 1
  MaxWaiting = 1
  Working = 2
  MaxWords = 3
  None = None
SPECIFICATION FairSpec
INVARIANTS OpenStreamsAreKnown FollowersAreUpToDate StagesEndOnTheirLastCount
PROPERTIES EveryStreamEnds
CHECK_DEADLOCK FALSE
