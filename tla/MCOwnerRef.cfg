CONSTANTS
    c = c
    a = a
    b = b
    Owners <- MCOwners
    Ctrl = c
    Workers <- MCWorkers
    MaxPatchFailures = 1
    MaxDeletions = 1

SPECIFICATION FairSpec

INVARIANT ControllerRefKept
INVARIANT IInv

PROPERTY Converges
