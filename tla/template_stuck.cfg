SPECIFICATION FairSpec
CONSTANTS
    None = None
    Configs = {0, 1}
    Kinds <- SomeKinds
    Ids = {100, 101}
    MaxLag = 1
    MaxFaults = 1
    MaxDisks = 1
PROPERTIES DeletionCompletes
