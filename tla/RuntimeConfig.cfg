SPECIFICATION Spec
CONSTANTS
    Requests = {r1, r2, r3}
    Bodies <- MCBodies
    MaxActive = 2
    MaxFailures = 1
    MaxCrashes = 1
SYMMETRY Symmetry
INVARIANTS NeverTorn ProcessMatchesFile
PROPERTY SiblingsKept
