SPECIFICATION Spec
CONSTANTS
    sub = sub
    tab = tab
    clerk = clerk
    clerk2 = clerk2
    Chain = Chain
    Expiry = Expiry
    Worker = Worker
    Returner = Returner
    Submissions = {sub}
    Milestones = {"entry", "waiting"}
    AttemptLimit = 5
    Tabs = {}
    Clerks = {clerk, clerk2}
    MaxPayments = 2
    MayRestart = FALSE
    ManualOnly = TRUE
INVARIANTS PaidAtMostOnce
