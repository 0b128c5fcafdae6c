CONSTANTS
  MaxReplicas = 2
  Wants <- OneOrTwo
  Passwords = {a, b, c}
  Foreign = {publish}
  MaxEdits = 2
  Disruptions = {"fault", "crash", "delete"}
  MaxDisruptions = 1
SPECIFICATION FairSpec
INVARIANT TypeOK AgentsKeepFitting
PROPERTY AgentsFit ServingKeepsAgent EventuallyReplicated StaysReplicated
