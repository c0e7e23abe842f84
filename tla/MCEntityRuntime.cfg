SPECIFICATION MCSpec
CONSTANTS
    WaiterLimit = 1
    MaxActivation = 2
    Entities <- TwoEntities
    Commands <- TwoCommands
    Observers <- OneObserver
    Closers <- TwoClosers
    Users <- TwoUsers
    Orders <- TwoOrders
    Leases <- TwoLeases
    FactLimit = 4
    d1 = d1
    d2 = d2
    u1 = u1
    u2 = u2
    l1 = l1
    l2 = l2
    NoEvent = NoEvent
    Scenarios <- AllScenarios
    c1 = c1
    c2 = c2
    e1 = e1
    e2 = e2
    o1 = o1
    s1 = s1
    s2 = s2
    Caller = Caller
    NoTask = NoTask
    NoCommand = NoCommand
    NoEntity = NoEntity
    NoCloser = NoCloser
CHECK_DEADLOCK FALSE
SYMMETRY Symmetry
INVARIANTS
    Custody
    DirectoryExact
    HonestRetirement
    ShutdownExact
