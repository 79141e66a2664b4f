CONSTANTS
    Key = {k1}
    Call = {1, 2, 3}
    Nobody = Nobody
    Caller = {1, 2, 3}
    NoCall = NoCall
    Service = {1, 2}
    MaxAttempts = 2
    MaxTime = 1
    Process = {1, 2}
    Op = {1, 2, 3}
    NoOp = NoOp
    MaxTries = 2
    order = order
    mailer = mailer
    placed = placed
    paid = paid
    billed = billed
    Saga = {order, mailer}
    Topic = {placed, paid, billed}
    RoutesOf <- Routing
    Publishes <- Publishing
    Reacts <- Reacting
    Published = {placed}
    Dispatched = {billed}
    MayHang = {mailer}
    MaxNested = 2
    MaxCallers = 2
    MaxPubs = 3
SPECIFICATION MCSpec
INVARIANTS StaleIsTransient ResetsFinal CacheSafe Coalesced InvalidatedGivenUp
           HandledInOrder OuterWaits SagaShutdownQuiet
PROPERTIES AtomicUpdates PublicationsSettle CallsEnd
CHECK_DEADLOCK FALSE
