SPECIFICATION Spec
CONSTANTS
    Units = {u1, u2}
    Fans = {f1}
    Sensors = {"CO2", "IN"}
SYMMETRY UnitSymmetry
INVARIANTS TypeOK ConditionsSounded
