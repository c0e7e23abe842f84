SPECIFICATION Spec
CONSTANTS
    MaxTurns = 2
    CancelPoints <- Everywhere
    Malformed = FALSE
PROPERTIES
    OneCausalTurn
