------------------------- MODULE OwnedChildReadiness -------------------------
(***************************************************************************)
(* The two halves of clusterrole.go's object helpers acting on one child:  *)
(* other owners' controllers add themselves to the child's                 *)
(* ownerReferences with EnsureOwnerRef (module OwnerRef), while the        *)
(* child's own controller gates its work on IsOwnerServiceReady (module    *)
(* OwnerReadiness), which follows the child's controller reference to the  *)
(* owner Ctrl that created it.  Ctrl's controller updates, reconciles and  *)
(* reports the owner's status meanwhile.                                   *)
(*                                                                         *)
(* The child's stored ownerReferences are OwnerRef's refs; the readiness   *)
(* check reads them through ChildView.  Ctrl is not deleted here (its      *)
(* deletion would garbage-collect the child).                              *)
(***************************************************************************)
EXTENDS OwnerRef

CONSTANTS
    OwnerKinds, MaxGeneration, MaxGetFailures, Absent, ResetsReady  \* OwnerReadiness's

ASSUME OwnedChildAssumption ==
    /\ MaxGeneration \in Nat \ {0}
    /\ MaxGetFailures \in Nat
    /\ Absent \notin Nat

VARIABLES
    kind, ownerExists, generation, ready, observedGen, reconciling, reconciled,
    getFailures, verdict

ownerVars == <<kind, ownerExists, generation, ready, observedGen, reconciling,
               reconciled, getFailures, verdict>>
cvars == <<vars, ownerVars>>

(* The child's ownerReferences as IsOwnerServiceReady reads them: each     *)
(* reference names Ctrl, the owner whose status is modelled, or another    *)
(* owner; EnsureOwnerRef writes the owner's own apiVersion, which parses.  *)
ChildView(rs) ==
    [i \in DOMAIN rs |-> [toOwner |-> rs[i].uid = Ctrl,
                          controller |-> rs[i].controller,
                          apiVersionOk |-> TRUE]]

Gate == INSTANCE OwnerReadiness WITH childRefs <- ChildView(refs)

CInit ==
    /\ Init
    /\ kind \in OwnerKinds
    /\ ownerExists = TRUE
    /\ generation = 1
    /\ ready = Absent
    /\ observedGen = Absent
    /\ reconciling = 0
    /\ reconciled = 0
    /\ getFailures = 0
    /\ verdict = Gate!NoVerdict

(* A step of the owner-reference side: a worker's Get or EnsureOwnerRef,  *)
(* or the child's deletion and re-creation by Ctrl.                        *)
OwnerReferenceStep ==
    /\ Next
    /\ UNCHANGED ownerVars

(* A step of Ctrl's own controller on the owner.                          *)
OwnerControllerStep ==
    /\ UNCHANGED vars
    /\ \/ Gate!UpdateOwnerSpec
       \/ Gate!StartOwnerReconcile
       \/ Gate!FinishOwnerReconcile
       \/ Gate!PatchStatusEarly

(* The child's controller reconciles the stored child and calls           *)
(* IsOwnerServiceReady on it.                                              *)
ChildReconcile ==
    /\ exists
    /\ UNCHANGED vars
    /\ \/ Gate!CheckOwnerReady
       \/ Gate!CheckOwnerReadyGetFails

CNext ==
    \/ OwnerReferenceStep
    \/ OwnerControllerStep
    \/ ChildReconcile

CSpec == CInit /\ [][CNext]_cvars

-----------------------------------------------------------------------------
(* The readiness gate survives the other owners: whatever EnsureOwnerRef  *)
(* calls rewrite the child's ownerReferences in between, IsOwnerServiceReady *)
(* tells the child's controller to proceed only when Ctrl's controller has *)
(* finished a reconcile of the owner's current generation and it ended    *)
(* Ready.                                                                  *)
GateHolds ==
    [][ (ChildReconcile /\ verdict' = <<TRUE, "nil">>)
        => (reconciled = generation /\ ready = "True") ]_cvars

=============================================================================
