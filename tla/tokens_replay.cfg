\* a replay races the rotation that follows the stolen token
SPECIFICATION Spec
CONSTANTS
    t1 = t1
    t2 = t2
    t3 = t3
    f1 = f1
    r1 = r1
    r2 = r2
    Tokens = {t1, t2, t3}
    Families = {f1}
    Requests = {r1, r2}
    None = None
INVARIANTS ReuseRevokesFamily
