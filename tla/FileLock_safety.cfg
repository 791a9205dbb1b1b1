SPECIFICATION Spec
CONSTANTS
    p1 = p1
    p2 = p2
    p3 = p3
    Processes <- ThreeProcesses
    MaxSaves = 2
SYMMETRY MCSymmetry
INVARIANTS
    TypeOK
    WriterIsAlone
    NoStaleWorkspace
PROPERTY ImplementsSharedFile
