SPECIFICATION Spec
CONSTANTS
    a = a
    b = b
    d = d
    a1 = a1
    a2 = a2
    b1 = b1
    d1 = d1
    arm = arm
    other = other
    Timer = Timer
    Admin = Admin
    Nobody = Nobody
    Participants = {a, b}
    Prolific = {a, b}
    Conditions = {arm}
    GroupSize <- PairOf
    Goal <- GoalOne
    MaxSessions = 1
    MaxRounds = 1
    Requests = {a1, b1}
    Of <- Whose
    Leavers = {a}
    Droppers = {}
    Pausable = {}
    MayRestart = FALSE
    Expiring = {}
PROPERTIES RunningNeverAborted
