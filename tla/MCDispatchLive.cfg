CONSTANTS
  Calls = {c1, c2}
  Attempts = {a1}
  Intents = {i1}
  NoAttempt = NoAttempt
  NoIntent = NoIntent
  NoCall = NoCall
  MaxTime = 1
  Lease = 1
  Gated = TRUE
  Honest = FALSE
  MaxSeq = 0
SPECIFICATION FairSpec
PROPERTY EventuallyTerminal
PROPERTY GateReleased
