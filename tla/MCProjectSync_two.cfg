CONSTANTS
  b1 = b1  b2 = b2  t1 = t1  t2 = t2  f1 = f1  f2 = f2  x1 = x1  None = None
  Browsers = {b1,b2}
  Tabs = {t1,t2}
  Home <- OneEach
  Fields = {f1,f2}
  Versions = {}
  Account = TRUE
  Events = {"loss", "close"}
  MaxEdits = 2
  MaxDataVersion = 3
  MaxRev = 2
  MaxAsked = 1
SPECIFICATION FairSpec
INVARIANTS NoEditIsLost
PROPERTIES NoSilentOverwrite ForgottenStaysForgotten EveryEditSettles
CHECK_DEADLOCK FALSE
