SPECIFICATION FairSpec
CONSTANTS
    Temps = {2, 6, 7}
    SetPoints = {4, 6}
    EnergyTemp = 6
    TempDeviat = 1
    AdjustTemp <- MCAdjustTemp
    ChangeTime <- MCChangeTime
    Period <- MCPeriod
    MaxDwell = 2
    MaxRequests = 2
INVARIANTS TypeOK
PROPERTIES IntervalKept RulesOnlyWhenActive WarmReachesCool ColdReachesHeat
