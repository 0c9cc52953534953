CONSTANTS
  Attempts = {a1}
  Resource = Resource
  NoAttempt = NoAttempt
  MaxEpoch = 2
  Faults = {}
SPECIFICATION FairSpec
PROPERTY TakeoverCompletes
