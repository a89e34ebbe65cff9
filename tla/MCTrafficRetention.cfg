SPECIFICATION Spec
CONSTANTS
    Clients = {a}
    Sessions = {s1, s2}
    Paths = {p}
    Retention = {1}
    Damaged = {}
    MaxBytes = 2
    MaxDay = 2
SYMMETRY Symmetry
INVARIANT SameRetention
