SPECIFICATION Spec
CONSTANTS
    Runtimes = {AE,SE}
    Classes = {c1}
    Sizes = {1, 8}
    None = None
SYMMETRY GateSymmetry
INVARIANTS
    TypeOK
    GreenMeansAccurate
PROPERTIES
    ImplementsRatchet
    CheckedStaysChecked
