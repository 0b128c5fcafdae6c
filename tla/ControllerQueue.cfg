CONSTANTS
  d1 = d1
  d2 = d2
  a1 = a1
  p1 = p1
  Keys <- TwoKeys
  Present <- TwoKeys
  Instances <- OneInstance
  Disruptions = {"edit", "delete", "fault", "crash", "relist"}
  MaxDisruptions = 2
SPECIFICATION FairSpec
INVARIANT TypeOK NothingForgotten QueuedOnce UnsyncedOwed ChangesUnderway
PROPERTY EventuallySynced ImplementsReconciler
