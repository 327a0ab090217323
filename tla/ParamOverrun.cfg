SPECIFICATION Spec
CONSTANTS
    Types = {"uint8", "uint16", "int16"}
    Settings = {0, 1}
    Default = 0
    RunTimeWrap = 5
    WriteIntv <- Intervals
INVARIANTS AllPagesCurrent
