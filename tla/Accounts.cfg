SPECIFICATION Spec
CONSTANTS
    Users = {u1, u2, u3}
    Tokens = {t1, t2}
    Bootstrap = TRUE
    SessionTime = 1
    MaxTime = 2
    NoUser = NoUser
SYMMETRY OneOrAnother
INVARIANTS FirstOnce DisabledIsOut
CHECK_DEADLOCK FALSE
