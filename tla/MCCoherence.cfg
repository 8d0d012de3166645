SPECIFICATION MCSpec
CONSTANTS
    o = o
    a = a
    b = b
    c = c
    wo = wo
    wa1 = wa1
    wa2 = wa2
    wb = wb
    wc = wc
    Node = {o, a, b, c}
    Owner = o
    Worker = {wo, wa1, wa2, wb, wc}
    NodeOf <- MCNodeOf
    MessageHandler = MessageHandler
    PageProvider = PageProvider
    NoOne = NoOne
    Nothing = Nothing
    MaxRetries = 1
    Layouts <- AnyThree
    MaxFix = 5
    MaxEvictions = 1
SYMMETRY Symmetry
INVARIANTS
    TypeOK
    SingleWriter
    GuardSeesLastWrite
    
    DirectoryKnowsCopies
    EnsuresHold
PROPERTY
    ImplementsPageLock
