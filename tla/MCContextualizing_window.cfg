CONSTANTS
    Short = short
    Long = long
    Other = other
    Blank = blank
    Text <- MCText
    Count <- MCCount
    Window = 2
    Ceiling = 10
    HeaderCosts = {2, 11}
    MaxLines = 5
SPECIFICATION Spec
INVARIANTS TypeOK WithinCeiling NothingMoreFits NoHoles RightPlace
