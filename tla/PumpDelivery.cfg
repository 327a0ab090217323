SPECIFICATION FairSpec
CONSTANTS
    sSupAir_T = sSupAir_T
    xStopErrFlag = xStopErrFlag
    xCommErr = xCommErr
    sAvgTemp = sAvgTemp
    eSystemMode = eSystemMode
    Vars = {xStopErrFlag, xCommErr, sAvgTemp, eSystemMode}
    Vals = {0, 1}
    InitVal = 0
    Cell <- MCCell
    HandlerReads <- MCHandlerReads
    ScanOrder <- MCScanOrder
    Registered = {xStopErrFlag, xCommErr, eSystemMode}
    UninitRegistered = {sAvgTemp}
    Resynced = {sAvgTemp}
    BMSVars = {eSystemMode}
    Rejectable = {eSystemMode}
    MaxWrites = 2
INVARIANTS TypeOK ChangesAccounted
PROPERTIES ResyncedUpToDate
