SPECIFICATION Spec
CONSTANTS
  Rids = {r1}
  Intents = {i1}
  NoIntent = NoIntent
  cash = cash
  margin = margin
  Resources = {cash}
  Procs = {p1}
  Keys = {k1, k2, k3}
  NoRequest = NoRequest
  Attempts = {a1}
  Requirements <- OneRequirement
  Available <- OneOffer
  Usages <- OneUsage
  Resubmit = FALSE
CHECK_DEADLOCK FALSE
INVARIANT AlwaysReplayable
