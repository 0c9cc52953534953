SPECIFICATION Spec
CONSTANTS
  Writers = {w1}
  Policies = {p1}
  Autonomous = {p1}
  ProtectionOnly = {}
  InForce <- AllButTheFirst
  Later = {}
  Founding = p1
  Confirmations = {}
  Admissions = {a1}
  MaxCommands = 3
  None = None
  MaxTime = 0
  ConfirmedUntil = 1
  MaxWork = 4
INVARIANT BlockStands
CHECK_DEADLOCK FALSE
