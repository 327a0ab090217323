SPECIFICATION StagingSpec
CONSTANTS
    N = 2
    Volumes = {12000, 37000, 60000}
    Rated = 36000
    MinFreq = 250
    MaxFreq = 500
    Period = 1800
    LeastTime = 300
    Hours <- MCHours
    Wayward = {2}
INVARIANT StagingInv ControlMeetsDemand
PROPERTY FullExhaust
VIEW ButFreq
