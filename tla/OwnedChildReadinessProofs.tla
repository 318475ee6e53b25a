--------------------- MODULE OwnedChildReadinessProofs ---------------------
(***************************************************************************)
(* Proof that IsOwnerServiceReady keeps gating a child on its controller   *)
(* owner while other owners' EnsureOwnerRef calls rewrite the child's      *)
(* ownerReferences.  Two invariants combine:                               *)
(*  - OwnerRef's IInv: the stored references keep exactly one controller   *)
(*    reference, Ctrl's, and name every owner once;                        *)
(*  - the readiness fence FenceInv of OwnerReadiness.                      *)
(* The first fixes the reference IsOwnerServiceReady follows, and the      *)
(* second makes its ready verdict mean a reconciled, Ready generation.     *)
(***************************************************************************)
EXTENDS OwnedChildReadiness, OwnerRefProofs, TLAPS

GP == INSTANCE OwnerReadinessProofs WITH childRefs <- ChildView(refs)

(* The owner side's part of the invariant: the owner exists, its numbers  *)
(* have their types, and the fence invariant holds.                        *)
OwnerInv ==
    /\ ownerExists = TRUE
    /\ generation \in Nat /\ reconciling \in Nat /\ reconciled \in Nat
    /\ observedGen \in Nat \cup {Absent}
    /\ Gate!FenceInv

CInv == IInv /\ OwnerInv

-----------------------------------------------------------------------------
(* In a list that keeps Ctrl's controller reference and names every owner *)
(* once, the first controller reference IsOwnerServiceReady finds is      *)
(* Ctrl's, and it parses.                                                  *)
LEMMA ControllerFound ==
    ASSUME NEW rs \in Seq(OwnerReference), KeepsControllerRef(rs), UniqueOwners(rs)
    PROVE  Gate!PointsToOwner(ChildView(rs))
<1> DEFINE cv == ChildView(rs)
<1>1. PICK k \in DOMAIN rs : rs[k] = ControllerRef
  BY DEF KeepsControllerRef
<1>2. \A j \in DOMAIN rs : rs[j].controller => j = k
  BY <1>1 DEF KeepsControllerRef, UniqueOwners, ControllerRef
<1>3. DOMAIN cv = DOMAIN rs /\ DOMAIN rs = 1 .. Len(rs)
  BY DEF cv, ChildView
<1>4. /\ cv[k].controller /\ cv[k].toOwner /\ cv[k].apiVersionOk
      /\ \A j \in DOMAIN cv : cv[j].controller => j = k
  <2>1. cv[k] = [toOwner |-> rs[k].uid = Ctrl, controller |-> rs[k].controller,
                 apiVersionOk |-> TRUE]
    BY Zenon DEF cv, ChildView
  <2>3. rs[k].uid = Ctrl /\ rs[k].controller
    BY <1>1 DEF ControllerRef
  <2>2. ASSUME NEW j \in DOMAIN cv, cv[j].controller PROVE j = k
    <3>1. j \in DOMAIN rs /\ cv[j].controller = rs[j].controller
      BY DEF cv, ChildView
    <3>. QED  BY <3>1, <2>2, <1>2, Zenon
  <2>4. /\ cv[k].controller = rs[k].controller
        /\ cv[k].toOwner = (rs[k].uid = Ctrl)
        /\ cv[k].apiVersionOk = TRUE
    BY <2>1
  <2>. QED  BY <2>2, <2>3, <2>4, Zenon
<1>5. k \in DOMAIN cv /\ \A j \in 1 .. (k - 1) : ~cv[j].controller
  BY <1>3, <1>4
<1>6. Gate!ControllerIndex(cv) = k
  BY <1>4, <1>5 DEF Gate!ControllerIndex
<1>7. k # 0
  BY <1>3
<1>. QED  BY <1>4, <1>6, <1>7 DEF Gate!PointsToOwner, Gate!GetsOwner

(* A ready verdict for a child that points at the existing owner comes    *)
(* only from the status checks.                                            *)
LEMMA ReadyFromStatus ==
    ASSUME NEW cv, Gate!PointsToOwner(cv), ownerExists,
           Gate!IsOwnerServiceReady(cv, ownerExists, kind, generation, ready,
                                    observedGen) = <<TRUE, "nil">>
    PROVE  Gate!OwnerStatusReady(kind, generation, ready, observedGen)
<1> DEFINE i == Gate!ControllerIndex(cv)
<1>1. i # 0 /\ cv[i].apiVersionOk /\ cv[i].toOwner
  BY DEF Gate!PointsToOwner, Gate!GetsOwner
<1>. QED  BY <1>1 DEF Gate!IsOwnerServiceReady

-----------------------------------------------------------------------------
LEMMA CInvInit == CInit => CInv
<1> SUFFICES ASSUME CInit PROVE CInv
  OBVIOUS
<1>1. IInv
  BY IInvInit DEF CInit
<1>2. OwnerInv
  BY OwnedChildAssumption DEF CInit, OwnerInv, Gate!FenceInv
<1>. QED  BY <1>1, <1>2 DEF CInv

(* Steps of the owner's controller keep the owner side's invariant when   *)
(* it resets Ready as it starts.                                           *)
LEMMA OwnerControllerKeeps ==
    ASSUME ResetsReady = TRUE, OwnerInv, OwnerControllerStep
    PROVE  OwnerInv'
<1> USE OwnedChildAssumption DEF OwnerInv, Gate!FenceInv
<1>1. CASE Gate!UpdateOwnerSpec
  BY <1>1, GP!UpdateOwnerSpecFrame DEF Gate!UpdateOwnerSpec, GP!UpdateOwnerSpec
<1>2. CASE Gate!StartOwnerReconcile
  BY <1>2, GP!StartOwnerReconcileFrame DEF Gate!StartOwnerReconcile, GP!StartOwnerReconcile
<1>3. CASE Gate!FinishOwnerReconcile
  <2>1. /\ reconciling # 0 /\ reconciled' = reconciling /\ reconciling' = 0
        /\ observedGen' = IF Gate!HasObservedGeneration(kind) THEN reconciling ELSE Absent
        /\ ownerExists' = ownerExists /\ generation' = generation
    BY <1>3 DEF Gate!FinishOwnerReconcile
  <2>. QED  BY <2>1
<1>4. CASE Gate!PatchStatusEarly
  <2>1. /\ ready' = "False" /\ reconciling' = 0
        /\ observedGen' = IF Gate!HasObservedGeneration(kind) THEN reconciling ELSE Absent
        /\ ownerExists' = ownerExists /\ generation' = generation
        /\ reconciled' = reconciled
    BY <1>4 DEF Gate!PatchStatusEarly
  <2>. QED  BY <2>1
<1>. QED  BY <1>1, <1>2, <1>3, <1>4 DEF OwnerControllerStep

(* The child's checks change only the verdict and the failure count.       *)
LEMMA ChildReconcileFrame ==
    ASSUME ChildReconcile
    PROVE  /\ UNCHANGED vars
           /\ kind' = kind /\ ownerExists' = ownerExists /\ generation' = generation
           /\ ready' = ready /\ observedGen' = observedGen
           /\ reconciling' = reconciling /\ reconciled' = reconciled
BY DEF ChildReconcile, Gate!CheckOwnerReady, Gate!CheckOwnerReadyGetFails, Gate!owner

LEMMA CInvNext ==
    ASSUME Ctrl \notin Workers, ResetsReady = TRUE
    PROVE  CInv /\ [CNext]_cvars => CInv'
<1> SUFFICES ASSUME CInv, [CNext]_cvars PROVE CInv'
  OBVIOUS
<1>1. CASE OwnerReferenceStep
  <2>1. IInv'
    BY <1>1, IInvNext DEF CInv, OwnerReferenceStep
  <2>2. OwnerInv'
    BY <1>1 DEF CInv, OwnerReferenceStep, ownerVars, OwnerInv, Gate!FenceInv
  <2>. QED  BY <2>1, <2>2 DEF CInv
<1>2. CASE OwnerControllerStep
  <2>1. IInv'
    BY <1>2, IInvNext DEF CInv, OwnerControllerStep
  <2>2. OwnerInv'
    BY <1>2, OwnerControllerKeeps DEF CInv
  <2>. QED  BY <2>1, <2>2 DEF CInv
<1>3. CASE ChildReconcile
  <2>1. IInv'
    BY <1>3, ChildReconcileFrame, IInvNext DEF CInv
  <2>2. OwnerInv'
    BY <1>3, ChildReconcileFrame DEF CInv, OwnerInv, Gate!FenceInv
  <2>. QED  BY <2>1, <2>2 DEF CInv
<1>4. CASE UNCHANGED cvars
  <2>1. IInv'
    BY <1>4, IInvNext DEF CInv, cvars
  <2>2. OwnerInv'
    BY <1>4 DEF CInv, cvars, ownerVars, OwnerInv, Gate!FenceInv
  <2>. QED  BY <2>1, <2>2 DEF CInv
<1>. QED  BY <1>1, <1>2, <1>3, <1>4 DEF CNext

(* For any owners, kinds and bounds, when Ctrl does not call EnsureOwnerRef *)
(* on its own child and its controller resets Ready as it starts, no        *)
(* interleaving of the other owners' EnsureOwnerRef calls, failed patches,  *)
(* deletions and re-creations of the child, and reconciles of the owner    *)
(* lets IsOwnerServiceReady tell the child to proceed before its owner's   *)
(* current generation has been reconciled Ready.                           *)
THEOREM GateHoldsProved ==
    ASSUME Ctrl \notin Workers, ResetsReady = TRUE
    PROVE  CSpec => GateHolds
<1>1. CSpec => []CInv
  BY CInvInit, CInvNext, PTL DEF CSpec
<1>2. CInv /\ [CNext]_cvars
        => [ (ChildReconcile /\ verdict' = <<TRUE, "nil">>)
             => (reconciled = generation /\ ready = "True") ]_cvars
  <2> SUFFICES ASSUME CInv, ChildReconcile, verdict' = <<TRUE, "nil">>
               PROVE  reconciled = generation /\ ready = "True"
    OBVIOUS
  <2>1. exists /\ refs \in Seq(OwnerReference)
        /\ KeepsControllerRef(refs) /\ UniqueOwners(refs)
    BY DEF ChildReconcile, CInv, IInv, TypeOK, ControllerRefKept
  <2>2. Gate!PointsToOwner(ChildView(refs))
    BY <2>1, ControllerFound
  <2>3. Gate!CheckOwnerReady
    BY DEF ChildReconcile, Gate!CheckOwnerReadyGetFails
  <2>4. Gate!OwnerStatusReady(kind, generation, ready, observedGen)
    BY <2>2, <2>3, ReadyFromStatus DEF Gate!CheckOwnerReady, CInv, OwnerInv
  <2>. QED  BY <2>4 DEF Gate!OwnerStatusReady, CInv, OwnerInv, Gate!FenceInv
<1>. QED  BY <1>1, <1>2, PTL DEF CSpec, GateHolds
=============================================================================
