SPECIFICATION FairRouterSpec
CONSTANTS
  Models = {m1, m2}
  Callers = {c1}
  Volatile = {}
  Caps = {1}
  Widths = {1, 2}
  MaxBudget = 1
  Routed = {c1}
  Refs = {k}
  RefOf <- OneKey
  Disturbed = {}
  RecoveryWidths = {1, 2}
  LateCancels = TRUE
PROPERTIES
  BoundedCallEnds
CHECK_DEADLOCK FALSE
