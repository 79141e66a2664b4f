CONSTANTS
    Peer = {p1, p2}
    Request = {r1}
    Event = {}
    MayCrash = {}
    MayClose = {}
    Listening = {p1, p2}
    BlankErrors = TRUE
    Unreadable = {}
    NoPeer = NoPeer
    NoEntry = NoEntry
SPECIFICATION MessagingSpec
INVARIANT ErrorsRoundTrip
CHECK_DEADLOCK FALSE
