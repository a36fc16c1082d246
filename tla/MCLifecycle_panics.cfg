\* An Init replaces the client that a global Close is closing.
CONSTANTS
    Clients = {i1, i2}
    Closers = {g1}
    Nobody = Nobody
    App = App
SPECIFICATION Safety
CHECK_DEADLOCK FALSE
INVARIANTS
    CloseDoesNotPanic
