\* A callback outlives a disconnect and a reconnect.
SPECIFICATION Spec
CONSTANTS
    None = None
    Tickets = {t1, t2}
    Callbacks = {c1, c2}
    Operations = {}
    Disconnects = {d1}
    Accounts = {a1, a2}
    MaxVersion = 1
SYMMETRY Symmetry
INVARIANTS NeverResurrected
CHECK_DEADLOCK FALSE
