SPECIFICATION Spec
CONSTANTS
  EpochBlocks = 2
  SidecarExtent <- MCSidecarExtent
  Sessions = {s1}
  Triggers = {"ReachedLowWatermark", "OperatorCloseOut"}
  Editions = {e1, e2}
  BlockCounts = {1}
  RecordCounts = {2}
  TailBlocks = {}
  MaxTailFiles = 0
  MaxLba = 23
  MaxTotal = 1
  MaxClosed = 11
SYMMETRY Symmetry
INVARIANTS PlanInPlace SealedTail
PROPERTIES PlanIsFinal
