SPECIFICATION FairSpec
CONSTANTS
    None = None
    Always <- Current
    MaxCreated = 2
    MaxEdits = 1
    MaxLag = 2
    MaxFaults = 2
INVARIANTS TypeOK TakenOnce CreatedMeansTaken
PROPERTIES CreatedIsFinal SnapshotCompletes
CHECK_DEADLOCK FALSE
