SPECIFICATION FairSpec
CONSTANTS
    sSupAir_T = sSupAir_T
    xStopErrFlag = xStopErrFlag
    xCommErr = xCommErr
    sAvgTemp = sAvgTemp
    eSystemMode = eSystemMode
    Vars = {sSupAir_T, xStopErrFlag, xCommErr, sAvgTemp, eSystemMode}
    Vals = {0, 1}
    InitVal = 0
    Cell <- MCCell
    HandlerReads <- MCHandlerReads
    ScanOrder <- MCScanOrder
    Registered = {sSupAir_T, xStopErrFlag, xCommErr}
    UninitRegistered = {sAvgTemp}
    Resynced = {sAvgTemp}
    BMSVars = {eSystemMode}
    Rejectable = {eSystemMode}
    MaxWrites = 1
PROPERTIES UnitChangeHandled
