\* Four captures of two errors through a table of one entry, with the filter on and off.
CONSTANTS
    Calls = {c1, c2, c3, c4}
    Signatures = {a, b}
    Windows <- TwoOrOff
    MaxEntries = 1
    MaxTime = 3
SPECIFICATION Spec
SYMMETRY Symmetry
INVARIANTS
    RepeatsAddUp
    OncePerWindow
PROPERTIES
    FirstCopyPasses
