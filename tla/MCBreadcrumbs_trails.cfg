\* Every driver, faithful or not, calls one after the other on one pooled connection; two
\* scopes beside the global one, two breadcrumbs, room for one.
CONSTANTS
    Settings <- AnySetting
    MaxRetries = 2
    Scopes = {r1, r2}
    Global = Global
    None = None
    Settable = {r1, r2}
    Crumbs = {b1, b2}
    Limit = 1
    MaxTime = 1
SPECIFICATION BreadcrumbsSpec
SYMMETRY Symmetry
INVARIANTS
    TrailTellsTheResult
    StepsAreKept
    FlowIsItsOwn
PROPERTIES
    FaithfulTakesThePlainPath
