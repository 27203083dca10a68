SPECIFICATION FairSpec
CONSTANTS
  Models = {m1, m2}
  Callers = {c1, c2}
  Volatile = {m2}
  Caps = {1}
  Widths = {1, 2}
  MaxBudget = 1
INVARIANTS
  TypeOK
  SlotsConserved
  ClaimHasOwner
  EveryWaitHasAWaker
PROPERTIES
  ImplementsSemaphores
  OneWaiterIsWoken
