SPECIFICATION FairJournalSpec
CONSTANTS
  c1 = c1
  c2 = c2
  m1 = m1
  Calls = {c1, c2}
  Models = {m1}
  Model <- OneModel
  Trace <- OneTrace
  Raters = {r1, r2}
  Scores = {0, 1}
  Budgets = {1, 2}
  Window = 2
  Limit = 2
  Retention = 0
  RatingSpan = 1
  BoundSpan = 1
  MaxTime = 1
  MaxEvents = 2
INVARIANTS
  TailIsTheJoin
  OneObservationEach
  LossDoesNotBlind
PROPERTIES
  LearnedFollowsTheJournal
CHECK_DEADLOCK FALSE
