SPECIFICATION Spec
CONSTANTS
    a = a
    b = b
    d = d
    a1 = a1
    a2 = a2
    b1 = b1
    d1 = d1
    arm = arm
    other = other
    Timer = Timer
    Admin = Admin
    Nobody = Nobody
    Participants = {a, d}
    Prolific = {a}
    Conditions = {arm}
    GroupSize <- PairOf
    Goal <- GoalOne
    MaxSessions = 2
    MaxRounds = 2
    Requests = {a1, a2, d1}
    Of <- Whose
    Leavers = {}
    Droppers = {}
    Pausable = {}
    MayRestart = FALSE
    Expiring = {1}
INVARIANTS TypeOK OneSeat
PROPERTIES SeatsInOpenRound RoundStartsClean
