CONSTANTS
    NotFound = NotFound
    Absent <- NotFound
    OwnerKinds <- MCReconciledKinds
    MaxGeneration = 3
    MaxGetFailures = 1
    ResetsReady = TRUE

SPECIFICATION FairSpec

INVARIANT TypeOK

PROPERTY FenceHolds
PROPERTY EventuallyProceeds
