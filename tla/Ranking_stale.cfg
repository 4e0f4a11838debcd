SPECIFICATION Spec
CONSTANTS
    p = p
    q = q
    m1 = m1
    m2 = m2
    r1 = r1
    r2 = r2
    None = None
    Participants = {p, q}
    Messages = {}
    Moves = {r1, r2}
    Verdicts = {"empty"}
    Sender <- Authors
    Threshold = 60
    Duration = 1
    WrapUp = 0
    MaxTrouble = 1
SYMMETRY Interchangeable
INVARIANTS RankingIsLast
CHECK_DEADLOCK FALSE
