SPECIFICATION FairSpec
CONSTANTS
    w1 = w1
    w2 = w2
    None = None
    Workers = {w1, w2}
    Connections <- BothConnections
    MaxRotations = 1
    MaxLag = 1
    MaxEvents = 1
INVARIANTS TypeOK ObservedReachesClients
PROPERTIES CredentialNeverGoesBack RotationReachesClients
