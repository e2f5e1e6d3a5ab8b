CONSTANTS
    p1 = p1
    p2 = p2
    t1 = t1
    t2 = t2
    t3 = t3
    Null = Null
    Packages <- TwoPackages
    Tasks <- ThreeTasks
    MaxCrashes = 1
SPECIFICATION Spec
INVARIANTS
    RegistryMatchesDisk
    StrayFolderForAReason
PROPERTIES
    RestartKeepsPackages
SYMMETRY Symmetry
