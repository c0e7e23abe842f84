SPECIFICATION MCSpec
CONSTANTS
    Parts = {"topology", "derives", "startup", "json"}
    Topologies <- AllTopologies
    Labels <- SomeLabels
    Hosts <- SomeHosts
    RoleNames = {"x", "y", "z", "u", "v", "w"}
    Networks <- SomeNetworks
    Amended <- Repaired
    MaxOpenings = 2
    MaxEvents = 11
    Nesting = 2
CHECK_DEADLOCK FALSE
INVARIANTS
    ExpansionExact
    ProfileExact
PROPERTIES
    StartupExact
