SPECIFICATION FairSpec
CONSTANTS
    p = p
    q = q
    m1 = m1
    m2 = m2
    r1 = r1
    r2 = r2
    None = None
    Participants = {p, q}
    Messages = {m1}
    Moves = {}
    Verdicts = {"empty", "invites"}
    Sender <- Authors
    Threshold = 60
    Duration = 2
    WrapUp = 0
    MaxTrouble = 1
INVARIANTS NothingForgotten LetGoSaved OnePerBoundary LoggedNudgesPosted
PROPERTIES ManagedEnds
CHECK_DEADLOCK FALSE
