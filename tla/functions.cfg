SPECIFICATION Spec
CONSTANTS
    FileSystems <- MCFileSystems
    Top = "top"
    MaxLinks = 1
    AclSettings <- MCAclSettings
    AclRequests <- MCAclRequests
INVARIANTS
    TypeOK
    ListingComplete
    
PROPERTY
    ListingEnds
