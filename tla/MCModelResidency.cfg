SPECIFICATION Spec
CONSTANTS
    a = a
    b = b
    ghost = ghost
    turn = turn
    job = job
    command = command
    reconciler = reconciler
    updater = updater
    None = None
    Models <- WithGhost
    Local <- TwoModels
    Wanted <- OnlyA
    Turns <- OneTurn
    Jobs <- Nobody
    Commands <- OneCommand
    Reconcilers <- OneReconciler
    Updaters <- OneUpdater
    MaxDeaths = 0
INVARIANTS TypeOK RegisteredTurnsYield
PROPERTIES ManagedChangesLocked
