SPECIFICATION MCSpec
CONSTANTS
    Thread = {t1, t2, t3}
    NoThread = NoThread
    MaxVersion = 11
    MaxWrites = 2
    GuardThread = {g1, g2}
    Frame = {f1, f2}
    None = None
SYMMETRY Symmetry
INVARIANTS
    LatchInv
    GuardsAreSound
PROPERTY
    UpgradeMissesNoWrite
