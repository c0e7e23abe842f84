SPECIFICATION FairSpec
CONSTANTS
    MaxMembers = 3
    CreationLimit = 2
    FamilyCount = 2
    Declarations <- ThreeDeclarations
    Addresses = {a1, a2, a3}
    Faults = {"host", "bind", "install", "setup", "invoke", "binding", "declare", "panic", "callback", "cleanup", "actor", "disposal"}
    c1 = c1
    c2 = c2
    Callers <- TwoCallers
    Commands <- TwoAndOne
    MaxAddress = 3
    ClientCapacity = 1
    RootBirths = 2
    Minimums <- SomeMinimums
    MaxEndpoints = 3
CHECK_DEADLOCK FALSE
INVARIANTS
    HonestOutcome
    WorkBarrier
    CallersExact
    BuildExact
PROPERTIES
    ApplicationReturns
