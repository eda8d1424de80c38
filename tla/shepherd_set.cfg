SPECIFICATION Spec
CONSTANTS
    Commands <- Documented
    Lower = 0
    Upper = 0
    MaxConns = 1
INVARIANT KeepsRunning
