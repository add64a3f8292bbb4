SPECIFICATION FairSpec
CONSTANTS
    vmA = vmA
    vmB = vmB
    tplA = tplA
    web = web
    Web = Web
    db = db
    Absent = Absent
    Resources = {vmA, tplA}
    Kind <- VMAndTemplate
    Rank <- RankVMAndTemplate
    Names = {web, db}
    Fold <- FoldTwo
    Modes = {"Reconcile"}
    Webhook = TRUE
    Renames = TRUE
    Recreates = FALSE
    SameSecond = FALSE
    MaxTime = 3
    MaxLag = 1
    MaxFaults = 0
PROPERTY NextTakesTheName
CHECK_DEADLOCK FALSE
