SPECIFICATION Spec
CONSTANTS
    a = a
    b = b
    Requests = {a, b}
    Dev <- MCDev
    Size <- MCSize
    WaitTimes = 2
    BufSize = 2
    None = None
INVARIANT PortInv
PROPERTIES RequestsServed RequestEnds
