CONSTANTS
  Attempts = {a1, a2}
  Resource = Resource
  NoAttempt = NoAttempt
  MaxEpoch = 1
  Faults = {"storage", "stop"}
SPECIFICATION FairSpec
PROPERTY Recovers
