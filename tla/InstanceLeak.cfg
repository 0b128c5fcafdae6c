CONSTANTS
  Passwords <- TwoPasswords
  Disruptions = {"scale"}
  MaxDisruptions = 2
SPECIFICATION FairSpec
PROPERTY EventuallyClean
