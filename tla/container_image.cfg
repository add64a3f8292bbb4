SPECIFICATION Spec
CONSTANTS
    Images = {"nginx", "nginx-1"}
    Stems = {"nginx", "nginx-1"}
    Stem <- OwnStem
    Within <- Nested
    Configs = {0, 1}
    Kinds <- OneKind
    TemplateConfig = 0
    Ids = {100, 101}
    None = None
    MaxLag = 1
    MaxFaults = 0
    MaxTurns = 2
INVARIANTS AppliedIsTheImage
