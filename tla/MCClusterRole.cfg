CONSTANTS
    k1 = k1
    k2 = k2
    v1 = v1
    v2 = v2
    r0 = r0
    r1 = r1
    Absent = Absent
    Keys <- MCKeys
    Vals <- MCVals
    Rules <- MCRules
    NoRules = r0
    None = Absent
    DesiredLabels <- MCDesiredLabels
    DesiredAnnotations <- MCDesiredAnnotations
    DesiredRules = r1
    MaxEdits = 2
    MaxDeletions = 2

SPECIFICATION FairSpec

CHECK_DEADLOCK FALSE


PROPERTY Converges
PROPERTY ForeignLabelsKept
PROPERTY NoTakeover
