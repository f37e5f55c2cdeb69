SPECIFICATION StoreSpec
CONSTANTS
    StoreProcesses = {p1, p2}
    Rows = {x1, x2}
SYMMETRY Symmetry
INVARIANTS SeparateStores
