SPECIFICATION OneTemplateSpec
CONSTANTS
    MaxReplicas = 2
    Templates = {1, 2}
    None = None
    MaxLag = 1
    MaxTurns = 2
INVARIANT TypeOK
PROPERTIES KeepsReplicas Converges DeletionCompletes
CHECK_DEADLOCK FALSE
