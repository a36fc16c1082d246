\* Every middleware, helper and combination of options, up to two attached errors; two
\* requests over two minutes and two Closes that may be called again.
CONSTANTS
    MaxErrors = 2
    Requests = {r1, r2}
    Closers = {c1, c2}
    MaxMinute = 1
SPECIFICATION HealthSpec
INVARIANTS
    FinishedOnce
    ServerStaysUp
    SessionTellsTheTruth
    RunEndsOnce
    CountsAgree
    CloseReports
PROPERTIES
    CloseEnds
