\* Two Inits and a Close that may meet.
CONSTANTS
    Clients = {i1, i2}
    Closers = {g1}
    Nobody = Nobody
    App = App
SPECIFICATION Spec
CHECK_DEADLOCK FALSE
INVARIANTS
    OwnProfileOnly
    TransportIsLast
    CurrentIsOpen
PROPERTIES
    ReplacedIsClosed
    ClosedByOneThatReturns
