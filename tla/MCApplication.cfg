CONSTANTS
    Child = {c1, c2}
    Starter = {s1}
    MaxClose = 1
SPECIFICATION FairSpec
INVARIANTS ClosedMeansDown TeardownSound RollbackComplete
PROPERTIES AppIsShell ChildIsShell ShellSettles
CHECK_DEADLOCK FALSE
