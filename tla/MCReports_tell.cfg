\* Five errors and a chain of two, two derivations and one record, three services and
\* a call made twice, stacks of nine frames of which six are collected.
CONSTANTS
    MaxErrors = 5
    MaxChain = 2
    Attrs <- AttrSet
    ErrorValues = {"err1", "err2"}
    Names = {"g", "h"}
    Levels <- LevelSet
    MaxDerived = 2
    IdRange = 3
    Services <- ServiceSet
    MaxHops = 3
    MaxCalls = 2
    MaxDepth = 9
    MaxFrames = 6
SPECIFICATION Spec
INVARIANTS
    StackOfTheCause
    ReportNamesEveryError
    LogTellsAll
    TraceHoldsTogether
    StackStartsAtTheCause
CHECK_DEADLOCK FALSE
