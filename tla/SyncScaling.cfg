CONSTANTS
  MaxReplicas = 2
  Specs <- PublishSpecs
  Disruptions = {"edit", "fault", "crash"}
  MaxDisruptions = 2
  Incarnations = 1
SPECIFICATION FairSpec
INVARIANT TypeOK VersionedCopies ResizesWithinBounds ResourcesBeforePhase
PROPERTY ShrinkKeepsWanted ImplementsLifecycle Converges StaysAtRest
