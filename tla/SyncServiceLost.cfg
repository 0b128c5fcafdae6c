CONSTANTS
  MaxReplicas = 1
  Specs <- DispatcherSpecs
  Disruptions = {"recreate"}
  MaxDisruptions = 1
  Incarnations = 2
SPECIFICATION FairSpec
PROPERTY KeepsService
