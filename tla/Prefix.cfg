\* A legacy system with two releases of one kernel.
SPECIFICATION Spec
CONSTANTS
    Files <- MCFiles
    Ending <- MCEnding
    NameBefore <- MCNameBefore
    DirBegins <- MCDirBegins
    LegacyFiles <- PrefixFiles
    Parts <- MCParts
    Begins <- MCBegins
    EtcNames <- MCEtcNames
    MaxChanges = 1
INVARIANTS
    OwnInitrds
