CONSTANTS
  MaxReplicas = 2
  Specs <- ReadmeSpecs
  Disruptions = {"fault", "crash", "delete", "unready", "evict"}
  MaxDisruptions = 2
  Incarnations = 1
SPECIFICATION Spec
INVARIANT OnlyWantedPods NothingStranded
