CONSTANTS
    c = c
    a = a
    b = b
    Owners <- MCOwners
    Ctrl = c
    Workers <- MCWorkers
    MaxPatchFailures = 1
    MaxDeletions = 0

SPECIFICATION FairSpec





INVARIANT EnsureOwnerRefEffective
