CONSTANTS
    c1 = c1
    c2 = c2
    c3 = c3
    Clients = {c1, c2}
    None = None
    ActiveMax = 2
    MaxRequest = 3
    Definitions <- PhyDefinition
SYMMETRY Symm
SPECIFICATION Spec
INVARIANT DriverUpToDate
