SPECIFICATION Spec
CONSTANTS
  Rids = {r1, r2}
  Intents = {i1, i2}
  NoIntent = NoIntent
  cash = cash
  margin = margin
  Resources = {cash, margin}
  Procs = {p1, p2}
  Keys = {k1, k2, k3, k4}
  NoRequest = NoRequest
  Attempts = {a1}
  Requirements <- TwoRequirements
  Available <- OneOffer
  Usages <- OneUsage
  Resubmit = FALSE
SYMMETRY Sym
CHECK_DEADLOCK FALSE
INVARIANTS TypeOK Conserved NothingLost ReleasedNeverFills
PROPERTIES AdmissionFits
