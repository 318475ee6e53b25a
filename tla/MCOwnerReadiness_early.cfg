CONSTANTS
    NotFound = NotFound
    Absent <- NotFound
    OwnerKinds <- MCReconciledKinds
    MaxGeneration = 3
    MaxGetFailures = 1
    ResetsReady = FALSE

SPECIFICATION FairSpec


PROPERTY FenceHolds
