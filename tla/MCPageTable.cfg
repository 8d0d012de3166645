SPECIFICATION Spec
CONSTANTS
    t1 = t1
    t2 = t2
    t3 = t3
    o1 = o1
    r1 = r1
    r2 = r2
    f0 = f0
    f1 = f1
    f2 = f2
    Thread = {t1, t2, t3}
    Owned = {o1}
    Remote = {r1, r2}
    Bucket = f0
    Overflow = {f1, f2}
    NoPid = NoPid
    NoFrame = NoFrame
    NoThread = NoThread
SYMMETRY Symmetry
INVARIANTS
    OneFramePerPid
    FindFrameIsRight
    
