SPECIFICATION Spec
CONSTANTS
    Queries <- FourQueries
    Ident <- SameIdent
    Bytes <- Conflicting
    Accepts <- Mixed
    Declarations <- Declared
    Controls = {TRUE, FALSE}
    QueuedQueries = 1
    RetainedQueries = 2
    RetainedRequests = 2
    Diagnostics = 1
    Discharging = TRUE
    MailboxCapacity = 1
    Faults = {"declare", "json", "verification", "request_permission", "reply_permission", "decode", "endpoint", "encode", "protection", "panic"}
    Vacant = Vacant
    q1 = q1
    q2 = q2
    q3 = q3
    q4 = q4
    MaxDelivered = 3
CHECK_DEADLOCK FALSE
INVARIANT WithdrawalPreserved
