CONSTANTS
  Passwords <- TwoPasswords
  Disruptions = {"crash"}
  MaxDisruptions = 1
SPECIFICATION FairSpec
PROPERTY EventuallyExposed
