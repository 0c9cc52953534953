\* A settled fill and its correction.
CONSTANTS
  Procs = {p1, p2}
  OrderIds = {o1}
  Size = 2
  Envelope = 6
  Fills <- MCFills
  Corrections <- MCCorrections
  None = None
  MaxCommits = 5
  o1 = o1
  f1 = f1
  f2 = f2
  f3 = f3
  f4 = f4
  e1 = e1
  e2 = e2
SPECIFICATION Spec
SYMMETRY Sym
CHECK_DEADLOCK FALSE
INVARIANTS
  SpendableIsEvidenced
