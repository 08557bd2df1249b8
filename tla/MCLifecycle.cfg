SPECIFICATION Spec
CONSTANTS
    t1 = t1
    t2 = t2
    t3 = t3
    d1 = d1
    d2 = d2
    f1 = f1
    x1 = x1
    x2 = x2
    a1 = a1
    a2 = a2
    none = none
    NoTree = none
    NoArchive = none
    Trees = {t1, t2, t3}
    Deploys = {d1, d2}
    Files = {f1}
    Archives = {x1, x2}
    Admins = {a1, a2}
INVARIANT TreesKept
INVARIANT UploadsKept
INVARIANT CatalogAgrees
PROPERTY OnlySweepLoses
SYMMETRY MCSymmetry
CHECK_DEADLOCK FALSE
