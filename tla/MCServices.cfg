CONSTANTS
    pool = pool
    cache = cache
    db = db
    gateway = gateway
    Blank = Blank
    Component <- Components
    Id <- Components
    Order <- DependencyOrder
    DependsOn <- Diamond
    Registrations <- AllRegistrations
    Call = {k1, k2}
    Node = {n1, n2}
    Tick = {t1, t2}
    MayStop = {n1}
    NoTick = NoTick
    MaxRenewals = 1
    MaxTasks = 2
    MaxHandles = 4
    MaxEdits = 3
    MaxQueued = 2
SPECIFICATION Services
INVARIANTS ShellSound OrderSound LeaseSafe SchedulesKept ConfigInForce
PROPERTIES ImplementsLease TicksCurrent ServicesEnd
CHECK_DEADLOCK FALSE
