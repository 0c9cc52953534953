\* An order and its OCO peer or replacement; four events in every order.
CONSTANTS
  Orders = {o1, o2}
  Groups = {g1}
  Sizes = {2}
  FillIds = {f1, f2}
  Executions = {e1, e2}
  Revisions = {r1, r2}
  Quantities = {1}
  Attempts = {a1}
  ProviderIds = {}
  Commands = {c1}
  None = None
  Keys = {k1, k2, k3, k4}
  Existing = {o1}
SPECIFICATION Spec
SYMMETRY Sym
CHECK_DEADLOCK FALSE
INVARIANTS
  TypeOK
  FillsRedeliverable
  FillsRaceSafely
  OnePending
  ExecutionIsOneFill
PROPERTIES
  BustIsFinal
  OcoNeverErased
