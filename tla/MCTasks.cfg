SPECIFICATION MCSpec
CONSTANTS
    MaxTurns = 3
    CancelPoints <- BetweenTurns
    Malformed = TRUE
    MaxMessages = 3
    ConcurrentRequests = 1
    RetainedRequests = 2
    RetainedResponses = 2
    MailboxCapacity = 1
    MaxReplies = 3
    Faults = {"preflight", "declare", "listener", "select", "protection", "json", "matching", "get", "reply", "verification", "reply_permission", "decode", "panic"}
INVARIANTS
    Custody
    CausalOrder
    BarriersOnce
    RepliesOnce
    ClientCustody
PROPERTIES
    FusedTerminal
    OneCausalTurn
    Replies
    ClientReturns
