-------------------------- MODULE MCOwnerReadiness --------------------------
(* Model-checking instance of OwnerReadiness.                              *)
EXTENDS OwnerReadiness

CONSTANTS NotFound

(* Owners of the kinds whose status IsOwnerServiceReady can see reconciled. *)
MCReconciledKinds == {"ConfigMap", "Deployment"}

(* An owner that is a Pod: Ready condition, no observedGeneration.          *)
MCPodKind == {"Pod"}
=============================================================================
