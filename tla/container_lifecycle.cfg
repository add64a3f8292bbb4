SPECIFICATION FairSpec
CONSTANTS
    Images = {"nginx", "redis"}
    Stems = {"nginx", "redis"}
    Stem <- OwnStem
    Within <- Apart
    Configs = {0, 1}
    Kinds <- SomeKinds
    TemplateConfig = 0
    Ids = {100, 101}
    None = None
    MaxLag = 1
    MaxFaults = 1
    MaxTurns = 2
INVARIANTS TypeOK ImageIsRecorded
PROPERTIES KeepsLifecycle TouchesOnlyItsOwn ContainerConverges DeletionCompletes
