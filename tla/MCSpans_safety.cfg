\* Four calls of Finish about three children and the transaction, room for two.
CONSTANTS
    Children = {s1, s2, s3}
    Transaction = Transaction
    Calls = {f1, f2, f3, f4}
    MaxChildren = 2
SPECIFICATION SpanSpec
SYMMETRY Symmetry
CHECK_DEADLOCK FALSE
INVARIANTS
    ReportedOnce
    PayloadIsComplete
