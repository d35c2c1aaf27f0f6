CONSTANTS
  home = home  office = office
  Clients = {home, office}
  Ttl = 2
  Resend = 1
  Hour = 3
  Day = 3
  MaxAttempts = 2
  MaxSends = 2
  PerClient = 2
  PerAddress = 3
  MaxTime = 6
  MaxCodes = 4
  None = None
SYMMETRY ClientSymmetry
SPECIFICATION Spec
INVARIANTS TypeOK  CodeOpensOnce SessionsAreHeld
