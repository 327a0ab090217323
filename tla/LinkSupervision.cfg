SPECIFICATION Spec
CONSTANTS
    N = 2
    Checked = {1}
INVARIANT LinkInv
PROPERTY DropsEarned
PROPERTY Refreshed
