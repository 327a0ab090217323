SPECIFICATION Spec
CONSTANTS
    Units = {u1, u2}
    Fans = {f1}
    Notified <- AllKinds
INVARIANTS TypeOK FlagsTruthful AutoHasPlant EmergencyHasUnit BMSMirror StateTruthful
