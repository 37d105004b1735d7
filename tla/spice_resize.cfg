\* The page of Virtlyst has no message area.
CONSTANTS
    MessageArea = FALSE
    MaxTokens = 2
    MaxQueue = 2
SPECIFICATION SessionSpec
INVARIANTS AgentIsAskedToResize
CHECK_DEADLOCK FALSE
