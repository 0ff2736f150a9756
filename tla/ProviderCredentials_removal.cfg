\* A migration is cut short, and the credential is removed afterwards.
SPECIFICATION Spec
CONSTANTS
  d1 = d1
  d2 = d2
  Destinations <- TwoDestinations
  Legacy = Legacy
  None = None
  MaxGeneration = 3
INVARIANTS
  RemovalLeavesNoSecret
