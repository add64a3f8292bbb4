SPECIFICATION FairSpec
CONSTANTS
    Configs = {0, 1}
    Kinds <- SomeKinds
    TemplateConfig = 0
    SpecName = "web"
    CloneName = "web"
    Foreign = "other"
    Ids = {100, 101}
    None = None
    MaxFaults = 1
INVARIANTS TypeOK
PROPERTIES KeepsLifecycle ChangesReflected DeletionCompletes
