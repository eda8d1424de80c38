SPECIFICATION Spec
CONSTANTS
    Commands <- MCCommands
    Lower = 4
    Upper = 5
    MaxConns = 3
INVARIANTS
    TypeOK
    NothingLeftOpen
    OwnSocketsOnly
    NoForgottenZombie
    EveryPortTried
PROPERTIES
    Reaped
    Available
