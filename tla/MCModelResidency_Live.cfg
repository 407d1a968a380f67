SPECIFICATION FairSpec
CONSTANTS
    a = a
    b = b
    ghost = ghost
    turn = turn
    job = job
    command = command
    reconciler = reconciler
    updater = updater
    None = None
    Models <- TwoModels
    Local <- TwoModels
    Wanted <- DefaultA
    Turns <- Nobody
    Jobs <- OneJob
    Commands <- OneCommand
    Reconcilers <- OneReconciler
    Updaters <- Nobody
    MaxDeaths = 1
PROPERTIES DefaultComesBack ManagedTasksEnd EjectHolds
