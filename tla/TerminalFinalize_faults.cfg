SPECIFICATION FairSpec
CONSTANTS
    Components = 5
    MaxFaults = 4
INVARIANTS TypeOK RecordedOnMedia CatalogFollows
PROPERTIES ImplementsFinalize AcceptedIsSealed
CHECK_DEADLOCK FALSE
