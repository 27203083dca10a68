SPECIFICATION RouterSpec
CONSTANTS
  Models = {m1, m2}
  Callers = {c1, o1}
  Volatile = {m2}
  Caps = {1}
  Widths = {1}
  MaxBudget = 0
  Routed = {c1}
  Refs = {k}
  RefOf <- OneKey
  Disturbed = {m2}
  RecoveryWidths = {2}
  LateCancels = FALSE
INVARIANTS
  NoSlotLeaked
CHECK_DEADLOCK FALSE
