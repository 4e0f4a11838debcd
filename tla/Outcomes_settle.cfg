SPECIFICATION Spec
CONSTANTS
    sub = sub
    tab = tab
    clerk = clerk
    clerk2 = clerk2
    Chain = Chain
    Expiry = Expiry
    Worker = Worker
    Returner = Returner
    Submissions = {sub}
    Milestones = {"entry", "waiting"}
    AttemptLimit = 5
    Tabs = {tab}
    Clerks = {clerk}
    MaxPayments = 2
    MayRestart = TRUE
    ManualOnly = TRUE
INVARIANTS TypeOK PaidAtMostOnce SettledNotPayable
PROPERTIES TimeoutPaysByStage StageNeverRegresses
