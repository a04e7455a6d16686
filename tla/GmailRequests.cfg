\* Two consents, two callbacks, two operations and two disconnects.
SPECIFICATION Spec
CONSTANTS
    None = None
    Tickets = {t1, t2}
    Callbacks = {c1, c2}
    Operations = {o1, o2}
    Disconnects = {d1, d2}
    Accounts = {a1, a2}
    MaxVersion = 2
SYMMETRY Symmetry
INVARIANTS TypeOK GrantsHold UsableUnlessDropped
PROPERTIES TombstoneHolds
CHECK_DEADLOCK FALSE
