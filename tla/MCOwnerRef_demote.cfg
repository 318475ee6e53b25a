CONSTANTS
    c = c
    a = a
    b = b
    Owners <- MCOwners
    Ctrl = c
    Workers <- MCWorkersWithCtrl
    MaxPatchFailures = 1
    MaxDeletions = 1

SPECIFICATION FairSpec





PROPERTY IdempotentWhenPresent
