SPECIFICATION FairPolicies
CONSTANTS
    nightly = nightly
    weekly = weekly
    web = web
    db = db
    Policies = {nightly, weekly}
    Machines = {web, db}
    Selectors <- Overlapping
    Nothing = Nothing
    MaxTime = 1
    MaxChanges = 4
    MaxFailures = 1
INVARIANTS PolicyTypeOK NoLeakedCron
PROPERTIES PolicyTakesEffect RoundReachesAll
CHECK_DEADLOCK FALSE
