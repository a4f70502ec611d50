CONSTANTS
    MaxLen = 3
    RecordMax = 5
    TagLen = 2
    Cuts = {1, 2, 5, 9, 60}
    Samples <- MCSamples
    HdsEncode <- MCHdsEncode
    HdsCompressed <- MCHdsCompressed
    HdsDecode <- MCHdsDecode
    HdsNormal <- MCHdsNormal
    HdsNothing <- MCHdsNothing
SPECIFICATION WireSpec
INVARIANTS
    WireTypeOK
    HdsSurvives
    TlvSurvives
    EventsSurvive
CHECK_DEADLOCK FALSE
