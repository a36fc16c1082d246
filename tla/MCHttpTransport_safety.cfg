\* Three senders on a channel of one slot, two closers, one flusher and one
\* check-in that may be answered 429 with a short or a long wait.
CONSTANTS
    e1 = e1
    e2 = e2
    e3 = e3
    NoEvent = NoEvent
    Events = {e1, e2, e3}
    Closers = {c1, c2}
    Flushers = {f1}
    CheckIns = {k1}
    QueueSize = 1
    Waits = {1, 2}
SPECIFICATION Safety
SYMMETRY Symmetry
INVARIANTS
    TypeOK
    OpenWhileSending
    PendingAccounting
    EveryEventInOnePlace
    CountersTellTheTruth
    CloseLeavesNothing
PROPERTIES
    AcceptedUntilGivenUp
    NotFlooded
    FlushSeesInFlight
