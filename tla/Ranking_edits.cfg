SPECIFICATION Spec
CONSTANTS
    p = p
    q = q
    a = a
    b = b
    c = c
    Members = {p, q}
    Initial <- Order
    MaxEdits = 3
    MaxTrouble = 1
SYMMETRY Interchangeable
INVARIANTS TypeOK LastWriteWins TurnsAgree
CHECK_DEADLOCK FALSE
