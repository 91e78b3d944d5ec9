SPECIFICATION Spec
CONSTANTS
  Inodes = {1, 2, 3, 4, 5}
  Faults = {"kill", "power", "write", "sync", "dirsync", "marker", "observer", "corrupt"}
  MaxFaults = 2
  MaxGroups = 3
INVARIANTS TypeOK FoldMatchesLog CatalogAgrees RepairFenced
PROPERTIES ClosedKept FencedIsSilent
