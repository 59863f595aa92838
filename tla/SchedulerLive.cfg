SPECIFICATION FairSpec
CONSTANTS
    u1 = u1
    u2 = u2
    u3 = u3
    u4 = u4
    w1 = w1
    w2 = w2
    Unit = {u1, u2, u3}
    Worker = {w1, w2}
    Owner = owner
    Canceller = canceller
    Budget = 2
    Bytes <- MCBytes
    ModalityOf <- MCModality
    Deterministic = FALSE
    Endless = {u1}
    Recurring = {}
    NoUnit = NoUnit
PROPERTIES
    CallsReturn
