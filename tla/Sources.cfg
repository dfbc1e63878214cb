\* Packages and the administrator change files between a Manager and its syncs.
SPECIFICATION Spec
CONSTANTS
    Files <- MCFiles
    Ending <- MCEnding
    NameBefore <- MCNameBefore
    DirBegins <- MCDirBegins
    LegacyFiles <- MCLegacyFiles
    Parts <- MCParts
    Begins <- MCBegins
    EtcNames <- MCEtcNames
    MaxChanges = 1
INVARIANTS
    TypeOK
    InitrdsLoadable
PROPERTIES
    Independent
    VendorSnippets
    AdministratorLast
