SPECIFICATION Spec
CONSTANTS
    Users <- MCUsers
    GroupNames <- MCGroupNames
    UidOf <- MCUidOf
    GidOf <- MCGidOf
    GidsOf <- MCGidsOf
    GrpGid <- MCGrpGid
    BaseGid = 0
    InitGroups = {0, 9}
    Configs <- MCConfigs
    Requests <- MCRequests
    MaxRequests = 1
    MaxKids = 1
INVARIANT GroupsLimited
