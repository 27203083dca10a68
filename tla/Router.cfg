SPECIFICATION RouterSpec
CONSTANTS
  Models = {m1, m2, m3}
  Callers = {c1}
  Volatile = {}
  Caps = {1}
  Widths = {1, 2}
  MaxBudget = 1
  Routed = {c1}
  Refs = {k}
  RefOf <- OneKey
  Disturbed = {}
  RecoveryWidths = {1, 2}
  LateCancels = FALSE
INVARIANTS
  EveryAttemptIsJournaled
  AnswerIsDelivered
  CrashReachesTheCaller
PROPERTIES
  NeverAskedAgain
  KeepsToThePool
SYMMETRY Symmetry
CHECK_DEADLOCK FALSE
