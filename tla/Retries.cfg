SPECIFICATION SyncSpec
CONSTANTS
    Absent = Absent
    Torn = Torn
    NoRequest = NoRequest
    NoSchema = NoSchema
    NoState = NoState
    NoAsset = NoAsset
    a1 = a1
    a2 = a2
    a3 = a3
    i1 = i1
    v1 = v1
    v2 = v2
    v3 = v3
    Stem <- MCStem
    StartsWith <- SameOs
    Requests <- MCRequests
    OtherConfs = {}
    OtherFiles <- MCOtherFiles
    OtherContents <- MCOtherContents
    InitialDisk <- LoaderInstalled
    Goals <- MCGoals
    Capacity = 6
    MaxChanges = 2
    MaxFaults = 2
INVARIANTS
    LoaderTypeOK
    LoaderSurvives
    LoaderCurrent
    Complete
PROPERTIES
    Converges
