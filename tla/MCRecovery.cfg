CONSTANTS
  Attempts = {a1, a2}
  Resource = Resource
  NoAttempt = NoAttempt
  MaxEpoch = 2
  Faults = {"clock", "storage", "lease"}
SPECIFICATION Spec
INVARIANTS TypeOK ReadyIsQualified
PROPERTIES SendsAreQualified OwnerMovesSafely UnknownNeedsEvidence
SYMMETRY Sym
