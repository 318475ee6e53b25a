----------------------------- MODULE MCOwnerRef -----------------------------
(* Model-checking instance of OwnerRef: a controller owner c and two other *)
(* owners a and b whose controllers add themselves to the target.           *)
EXTENDS OwnerRef

CONSTANTS c, a, b

MCOwners == {c, a, b}
MCWorkers == {a, b}

(* The controller owner c also calls EnsureOwnerRef on its own child.     *)
MCWorkersWithCtrl == {c, a}
=============================================================================
