CONSTANTS
    f1 = f1
    f2 = f2
    Nil = Nil
    Fields <- MCFields
    Names <- MCNames
    MaxRequests = 2

SPECIFICATION Spec

CHECK_DEADLOCK FALSE

INVARIANT TypeOK

PROPERTY AdmittedUpdateHeals
PROPERTY DeprecatedNeverReintroduced
