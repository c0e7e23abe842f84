SPECIFICATION NativeSpec
CONSTANTS
    WaiterLimit = 1
    MaxActivation = 2
    Entities <- TwoEntities
    Commands <- TwoCommands
    Observers <- OneObserver
    Closers <- OneCloser
    Scenarios <- AllScenarios
    c1 = c1
    c2 = c2
    e1 = e1
    e2 = e2
    o1 = o1
    s1 = s1
    Caller = Caller
    NoTask = NoTask
    NoCommand = NoCommand
    NoEntity = NoEntity
    NoCloser = NoCloser
CHECK_DEADLOCK FALSE
INVARIANTS
    CapacityExact
    FailuresRetained
PROPERTIES
    ImplementsPort
    CallersAnswered
