CONSTANTS
    Workers = 2
    Client = {c1, c2}
    MaxStarts = 3
SPECIFICATION QueueSpec
INVARIANT NothingOutlives
CHECK_DEADLOCK FALSE
