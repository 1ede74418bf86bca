SPECIFICATION Spec
CONSTANTS
    UserId = {p, q}
    Settlement = {s1, s2}
    Winner <- PWins
    Loser <- QLoses
    Key = {k1}
    Task = {t1, t2}
    None = None
    MaxOps = 3
CONSTANTS
    p = p
    q = q
    s1 = s1
    s2 = s2
    k1 = k1
    t1 = t1
    t2 = t2
SYMMETRY RepositorySymmetry
INVARIANT StatsSurvive
CHECK_DEADLOCK FALSE
