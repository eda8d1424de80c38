SPECIFICATION Spec
CONSTANTS
    MaxRequests = 3
    MaxLength = 3
    BufSize = 2
    InitLength = 3
    MaxGrowth = 2
INVARIANTS
    TypeOK
    PutExact
    ChannelInStep
    

    
