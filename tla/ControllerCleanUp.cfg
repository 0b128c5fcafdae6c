CONSTANTS
  d1 = d1
  d2 = d2
  a1 = a1
  p1 = p1
  Keys <- OneKey
  Present <- OneKey
  Instances <- TwoInstances
  Disruptions = {"delete"}
  MaxDisruptions = 1
SPECIFICATION FairSpec
PROPERTY EventuallyCleaned
