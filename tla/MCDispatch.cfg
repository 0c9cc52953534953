CONSTANTS
  Calls = {c1, c2}
  Attempts = {a1, a2}
  Intents = {i1, i2}
  NoAttempt = NoAttempt
  NoIntent = NoIntent
  NoCall = NoCall
  MaxTime = 1
  Lease = 1
  Gated = TRUE
  Honest = TRUE
  MaxSeq = 2
SPECIFICATION Spec
INVARIANT TypeOK
INVARIANT AtMostOneWire
INVARIANT WireIsDurable
INVARIANT OutcomeIsTrue
INVARIANT OneBarrierPerIntent
PROPERTY VerdictsStand
PROPERTY ResolutionNotBackdated
PROPERTY ImplementsIntentSubmission
SYMMETRY Sym
