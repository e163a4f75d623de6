SPECIFICATION Spec
CONSTANTS
    Stdout = stdout
    Stderr = stderr
    NoStream = NoStream
    Limits <- MCLimits
    MaxBytes = 3
    MaxChunk = 2
INVARIANTS
    TempRemovedOnError
