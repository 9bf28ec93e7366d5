SPECIFICATION FairSpec
CONSTANTS
    Commands = {"set", "component", "wait", "error"}
    MaxLength = 1
    MaxStartup = 1
    MaxLines = 3
    MaxEvents = 2
INVARIANTS TypeOK HandOver GuiNotBlocked WaitsMatch
PROPERTY PromptReturns
CHECK_DEADLOCK FALSE
