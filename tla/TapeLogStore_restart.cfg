SPECIFICATION Spec
CONSTANTS
  Inodes = {1, 2, 3, 4, 5}
  Faults = {"kill"}
  MaxFaults = 1
  MaxGroups = 3
INVARIANTS ProjectedDurable
