CONSTANTS
    Delivery = {d1, d2}
    Target = {h1, h2}
    Workers = 1
    Client = {c1, c2}
    MaxStarts = 3
    Peer = {p1, p2}
    Request = {r1, r2}
    Event = {e1, e2}
    MayCrash = {p2}
    MayClose = {p1}
    Listening = {p2}
    BlankErrors = FALSE
    Unreadable = {r2, e2}
    NoPeer = NoPeer
    NoEntry = NoEntry
SPECIFICATION Spec
INVARIANTS RepliesSound MessagingSafe
PROPERTIES AcceptedWhileStarted SendSettles ShutdownsEnd
CHECK_DEADLOCK FALSE
