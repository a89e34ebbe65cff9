SPECIFICATION Spec
CONSTANTS
    Clients = {a}
    Sessions = {s1, s2}
    Paths = {p}
    Retention = {1, 2}
    Damaged = {"clients"}
    MaxBytes = 2
    MaxDay = 2
SYMMETRY Symmetry
INVARIANTS
    TotalsWithinOnePeriod
    ClientsWithinOnePeriod
