SPECIFICATION Spec
CONSTANTS
    Users = {"alice"}
    GroupNames = {"project"}
    Entries <- MCEntries
    Gids = {20}
    Asked <- MCAsked
    Settings <- MCSettings
    CacheTtl = 1
    MaxDelay = 1
    MaxChanges = 2
    MaxTime = 3
INVARIANTS
    TypeOK
    FreshAnswers
    UnknownIsCurrent
    EntriesWhole
    GroupsWithinWindow
    MappingAsDefined
