\* A driver that checks its arguments on the connection, and only there.
CONSTANTS
    Settings <- CheckedByConnection
    MaxRetries = 0
SPECIFICATION Spec
PROPERTIES
    TakesThePlainPath
