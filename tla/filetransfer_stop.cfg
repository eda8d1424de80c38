SPECIFICATION Spec
CONSTANTS
    MaxRequests = 2
    MaxLength = 3
    BufSize = 2
    InitLength = 2
    MaxGrowth = 1
PROPERTY StopsWithPeer
