SPECIFICATION Spec
CONSTANTS
    p1 = p1
    p2 = p2
    c1 = c1
    c2 = c2
    Prompts <- MCPrompts
    Callers <- MCCallers
    RetryBackoffs = 1
    DeliveredWindow = 1
    Overlaps = {}
    MaxRetries = 1
    MaxRestarts = 1
    MaxHistory = 3
CHECK_DEADLOCK FALSE
INVARIANT TakenPromptsKept
INVARIANT DeliveredInOrderOnce
 
INVARIANT QueueIsDriven
PROPERTY PromptsArrive
