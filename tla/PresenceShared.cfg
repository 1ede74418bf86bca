SPECIFICATION Spec
CONSTANTS
    alice = alice
    a1 = a1
    c1 = c1
    c2 = c2
    a2 = a2
    Conn = {c1, c2}
    User = {alice}
    SessionToken = {a1, a2}
    UserOf <- OneUser
    None = None
    MaxLogins = 2
INVARIANTS
    PresenceIsCurrent
CONSTRAINT InOrder
CHECK_DEADLOCK FALSE
