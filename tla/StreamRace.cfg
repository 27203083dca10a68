SPECIFICATION Spec
CONSTANTS
  Models = {m1, m2, m3}
  NoLane = NoLane
  Widths = {2}
  MaxDeltas <- Deltas
  Faults = {"failed"}
SYMMETRY Interchangeable
INVARIANTS
  AnswersInOrder
  WithinTheWave
CHECK_DEADLOCK FALSE
