SPECIFICATION Spec
CONSTANTS
    Clients = {a}
    Sessions = {s1, s2}
    Paths = {p, q}
    Retention = {2}
    Damaged = {}
    MaxBytes = 2
    MaxDay = 2
SYMMETRY Symmetry
PROPERTY NextSampleUsesNewPath
