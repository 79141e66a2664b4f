CONSTANTS
    MaxTasks = 1
    MaxHandles = 2
SPECIFICATION RegistrySpec
INVARIANT TimersHonoured
CHECK_DEADLOCK FALSE
