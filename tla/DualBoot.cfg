SPECIFICATION MCSpec
CONSTANTS
    Absent = Absent
    Torn = Torn
    NoRequest = NoRequest
    NoSchema = NoSchema
    NoState = NoState
    MaxCalls = 1
    a1 = a1
    a2 = a2
    a3 = a3
    a4 = a4
    i1 = i1
    i2 = i2
    other = other
    Stem <- MCStem
    StartsWith <- Prefixed
    Requests <- Colliding
    OtherConfs <- MCOtherConfs
    OtherFiles <- MCOtherFiles
    OtherContents = {other}
    InitialDisk <- OtherOnly
INVARIANTS
    OthersKept
