CONSTANTS
    Key = {k1}
    Call = {1}
    Nobody = Nobody
    Caller = {1}
    NoCall = NoCall
    Service = {1}
    MaxAttempts = 2
    MaxTime = 1
    Process = {1}
    Op = {1}
    NoOp = NoOp
    MaxTries = 2
    order = order
    mailer = mailer
    placed = placed
    paid = paid
    billed = billed
    Saga = {order, mailer}
    Topic = {placed, paid, billed}
    RoutesOf <- RoutingPastBus
    Publishes <- Publishing
    Reacts <- Reacting
    Published = {placed}
    Dispatched = {}
    MayHang = {}
    MaxNested = 2
    MaxCallers = 1
    MaxPubs = 3
SPECIFICATION MCSpec
PROPERTY PublicationsSettle
CHECK_DEADLOCK FALSE
