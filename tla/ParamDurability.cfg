SPECIFICATION FairSpec
CONSTANTS
    Types = {"uint8", "uint16", "int16", "runtime"}
    Settings = {0, 1}
    Default = 0
    RunTimeWrap = 5
    WriteIntv <- Intervals
INVARIANTS TypeOK FirstRunOnce InitialisedUnlessCut SafePagesCurrent RunTimeLossBounded
PROPERTIES SettingStored
