SPECIFICATION Spec
CONSTANTS
  Inodes = {1, 2, 3, 4, 5}
  Faults = {"power", "write", "sync", "observer"}
  MaxFaults = 3
  MaxGroups = 3
INVARIANTS AckedDurable ProjectedDurable
