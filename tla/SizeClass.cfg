SPECIFICATION FairSpec
INVARIANTS Size2ClsBestFit
PROPERTY TablesGenerated
CHECK_DEADLOCK FALSE
