SPECIFICATION FairSpec
CONSTANTS
    Commands = {"component", "wait"}
    MaxLength = 1
    MaxStartup = 0
    MaxLines = 2
    MaxEvents = 2
PROPERTY LineEnds
CHECK_DEADLOCK FALSE
