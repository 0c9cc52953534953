SPECIFICATION FairSpec
CONSTANTS
  Writers = {w1, w2}
  Policies = {p1, p2}
  Autonomous = {p2}
  ProtectionOnly = {p2}
  InForce <- AllButTheFirst
  Later = {p2}
  Founding = p1
  Confirmations = {k1}
  Admissions = {a1, a2}
  MaxCommands = 3
  None = None
  MaxTime = 1
  ConfirmedUntil = 1
  MaxWork = 4
INVARIANTS TypeOK RestartAgrees OutcomesReplay EffectsReported
PROPERTIES OperationsEnd SendsAreAuthorised
CHECK_DEADLOCK FALSE
