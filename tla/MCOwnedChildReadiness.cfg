CONSTANTS
    c = c
    a = a
    b = b
    NotFound = NotFound
    Owners <- MCOwners
    Ctrl = c
    Workers <- MCWorkers
    MaxPatchFailures = 1
    MaxDeletions = 1
    OwnerKinds <- MCKinds
    MaxGeneration = 2
    MaxGetFailures = 1
    Absent <- NotFound
    ResetsReady = TRUE

SPECIFICATION CSpec

PROPERTY GateHolds
