CONSTANTS
  Passwords <- TwoPasswords
  Disruptions = {"scale", "crash"}
  MaxDisruptions = 3
SPECIFICATION FairSpec
INVARIANT EndpointHasPod
PROPERTY EventuallyGone OnlyCrashesLockOut
