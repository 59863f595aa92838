SPECIFICATION Spec
CONSTANTS
    u1 = u1
    u2 = u2
    u3 = u3
    u4 = u4
    w1 = w1
    w2 = w2
    Unit = {u1, u2, u3, u4}
    Worker = {w1, w2}
    Owner = owner
    Canceller = canceller
    Budget = 3
    Bytes <- SmallBytes
    ModalityOf <- BatchModality
    Deterministic = TRUE
    Endless = {}
    Recurring = {}
    NoUnit = NoUnit
PROPERTIES
    BatchIsDeterministic
