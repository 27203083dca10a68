SPECIFICATION Spec
CONSTANTS
  Models = {m1, m2}
  NoLane = NoLane
  Widths = {1, 2}
  MaxDeltas <- Deltas
  Faults = {"failed", "refused", "crashed"}
INVARIANTS
  SlotsComeBack
  OneRowEach
  NeverSpliced
  NoAnswerLeftBehind
  RateableOnceJournaled
  EveryPauseHasAWaker
PROPERTIES
  WithdrawnOnlyForAnEarlierAnswer
  StreamComesToRest
CHECK_DEADLOCK FALSE
