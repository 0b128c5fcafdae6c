CONSTANTS
  MaxReplicas = 1
  Specs <- EitherSpecs
  Disruptions = {"recreate", "fault", "crash", "delete", "unready"}
  MaxDisruptions = 2
  Incarnations = 2
SPECIFICATION FairSpec
PROPERTY Converges ImplementsLifecycle
