SPECIFICATION Spec
CONSTANTS
    Users <- MCUsers
    GroupNames <- MCGroupNames
    UidOf <- MCUidOf
    GidOf <- MCGidOf
    GidsOf <- MCGidsOf
    GrpGid <- MCGrpGid
    BaseGid = 0
    InitGroups = {0, 9}
    Configs <- MCConfigs
    Requests <- MCRequests
    MaxRequests = 2
    MaxKids = 2
INVARIANTS
    TypeOK
    RunsAsRequested
    NoMixedIdentity
    CleanBetweenRequests
    ReplyFraming
    OnlyCompleteRequests
    KidsTracked
    
PROPERTIES
    
    ServesAsPromised
