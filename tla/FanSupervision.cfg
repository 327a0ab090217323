SPECIFICATION FairSpec
CONSTANTS
    MinFanFreq = 0
    MaxFanFreq = 500
    TimeOut = 2
    CtrlErrDelay = 10
    Freqs = {0, 495, 500}
INVARIANTS TypeOK
PROPERTIES OutputInRange CommandSettles RelayReleased DeafFanReported FrequencyDelivered
