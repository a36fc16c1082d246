\* Data is attached to a span while its transaction is encoded.
CONSTANTS
    Children = {s1}
    Transaction = Transaction
    Calls = {f1, f2}
    MaxChildren = 2
SPECIFICATION SpanSpec
CHECK_DEADLOCK FALSE
INVARIANTS
    MapsAreNotShared
