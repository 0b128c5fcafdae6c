CONSTANTS
  Passwords <- TwoPasswords
  Disruptions = {"fault", "crash", "delete"}
  MaxDisruptions = 3
SPECIFICATION FairSpec
INVARIANT TypeOK InitializedIsSecured
PROPERTY ImplementsCredential EventuallyUsable
