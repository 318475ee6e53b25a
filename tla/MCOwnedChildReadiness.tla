------------------------ MODULE MCOwnedChildReadiness ------------------------
(* Model-checking instance of OwnedChildReadiness: the controller owner c  *)
(* of kind Deployment, and two other owners a and b.                        *)
EXTENDS OwnedChildReadiness

CONSTANTS c, a, b, NotFound

MCOwners == {c, a, b}
MCWorkers == {a, b}

MCKinds == {"Deployment"}
=============================================================================
