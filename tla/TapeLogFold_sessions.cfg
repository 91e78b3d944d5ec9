SPECIFICATION Spec
CONSTANTS
  EpochBlocks = 2
  SidecarExtent <- MCSidecarExtent
  Sessions = {s1, s2}
  Triggers = {"ReachedLowWatermark"}
  Editions = {e1}
  BlockCounts = {1, 2}
  RecordCounts = {}
  TailBlocks = {0, 1}
  MaxTailFiles = 3
  MaxLba = 9
  MaxTotal = 7
  MaxClosed = 7
SYMMETRY Symmetry
INVARIANTS TypeOK UncoveredIsExact DenseLayout SidecarsPartition DebtIsClosable DebtHasOneOwner ReportIsBoundary TailWindow
