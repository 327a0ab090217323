SPECIFICATION WriteSpec
CONSTANTS
    N = 1
    Checked = {1}
PROPERTY WriteServed
