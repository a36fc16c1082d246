\* Refinement and progress: two slots, so that an order can be wrong, and a third event
\* that finds them full; two Closes, the second of which finds the transport shut.  Flush
\* changes nothing another goroutine reads and is left out, and pauses come from the
\* worker's own requests.  No symmetry.
CONSTANTS
    e1 = e1
    e2 = e2
    e3 = e3
    NoEvent = NoEvent
    Events = {e1, e2, e3}
    Closers = {c1, c2}
    Flushers = {}
    CheckIns = {}
    QueueSize = 2
    Waits = {1}
SPECIFICATION Spec
PROPERTIES
    ImplementsDelivery
    DeliveryProgress
    CloseReturns
