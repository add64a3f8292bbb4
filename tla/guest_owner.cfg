SPECIFICATION Spec
CONSTANTS
    vmA = vmA
    vmB = vmB
    tplA = tplA
    web = web
    Web = Web
    db = db
    Absent = Absent
    Resources = {vmA, vmB}
    Kind <- TwoVMs
    Rank <- RankTwoVMs
    Names = {web, Web}
    Fold <- FoldCase
    Modes = {"Reconcile", "EnsureExists", "WatchOnly"}
    Webhook = FALSE
    Renames = FALSE
    Recreates = FALSE
    SameSecond = FALSE
    MaxTime = 2
    MaxLag = 2
    MaxFaults = 1
INVARIANTS TypeOK OperatorIsOldest HandedOverWhenGone
CHECK_DEADLOCK FALSE
