------------------------ MODULE OwnerReadinessProofs ------------------------
(***************************************************************************)
(* Proofs about IsOwnerServiceReady against an owner that is updated,      *)
(* reconciled and deleted: its verdicts are well formed, and, when the     *)
(* owner's controller resets Ready as it starts a reconcile, the           *)
(* observedGeneration fence lets a child proceed only on a generation the  *)
(* owner's controller has fully reconciled and found Ready.                *)
(***************************************************************************)
EXTENDS OwnerReadiness, TLAPS

Verdicts == {NoVerdict, <<TRUE, "nil">>, <<FALSE, "nil">>, <<FALSE, "err">>}

(* IsOwnerServiceReady returns one of its three answers.                  *)
LEMMA VerdictType ==
    ASSUME NEW refs, NEW ex, NEW k, NEW gen, NEW rdy, NEW obs
    PROVE  IsOwnerServiceReady(refs, ex, k, gen, rdy, obs) \in Verdicts
BY DEF IsOwnerServiceReady, Verdicts

(* When the child's controller reference names the existing owner and     *)
(* parses, a ready verdict comes only from the status checks.             *)
LEMMA ReadyVerdictFromStatus ==
    ASSUME NEW refs, NEW ex, NEW k, NEW gen, NEW rdy, NEW obs,
           PointsToOwner(refs), ex,
           IsOwnerServiceReady(refs, ex, k, gen, rdy, obs) = <<TRUE, "nil">>
    PROVE  OwnerStatusReady(k, gen, rdy, obs)
<1> DEFINE i == ControllerIndex(refs)
<1>1. i # 0 /\ refs[i].apiVersionOk /\ refs[i].toOwner
  BY DEF PointsToOwner, GetsOwner
<1>. QED  BY <1>1 DEF IsOwnerServiceReady

-----------------------------------------------------------------------------
(* The bounds are natural numbers, and an absent field is not one.        *)
LEMMA Bounds ==
    /\ MaxGeneration \in Nat /\ MaxGetFailures \in Nat
    /\ Absent \notin Nat
BY ReadinessAssumption

(* What each step changes, and what it leaves alone.                      *)
LEMMA UpdateOwnerSpecFrame ==
    ASSUME UpdateOwnerSpec
    PROVE  /\ generation < MaxGeneration /\ generation' = generation + 1
           /\ childRefs' = childRefs /\ kind' = kind /\ ownerExists' = ownerExists
           /\ ready' = ready /\ observedGen' = observedGen /\ reconciling' = reconciling
           /\ reconciled' = reconciled /\ getFailures' = getFailures /\ verdict' = verdict
BY DEF UpdateOwnerSpec

LEMMA StartOwnerReconcileFrame ==
    ASSUME StartOwnerReconcile
    PROVE  /\ reconciling' = generation
           /\ childRefs' = childRefs /\ kind' = kind /\ ownerExists' = ownerExists
           /\ generation' = generation /\ ready' = ready /\ observedGen' = observedGen
           /\ reconciled' = reconciled /\ getFailures' = getFailures /\ verdict' = verdict
BY DEF StartOwnerReconcile

LEMMA FinishOwnerReconcileFrame ==
    ASSUME FinishOwnerReconcile
    PROVE  /\ reconciling # 0
           /\ ready' \in {"True", "False"}
           /\ observedGen' = IF HasObservedGeneration(kind) THEN reconciling ELSE Absent
           /\ reconciled' = reconciling /\ reconciling' = 0
           /\ childRefs' = childRefs /\ kind' = kind /\ ownerExists' = ownerExists
           /\ generation' = generation /\ getFailures' = getFailures /\ verdict' = verdict
BY DEF FinishOwnerReconcile

LEMMA PatchStatusEarlyFrame ==
    ASSUME PatchStatusEarly
    PROVE  /\ reconciling # 0
           /\ ready' = IF ResetsReady THEN "False" ELSE ready
           /\ observedGen' = IF HasObservedGeneration(kind) THEN reconciling ELSE Absent
           /\ reconciling' = 0
           /\ childRefs' = childRefs /\ kind' = kind /\ ownerExists' = ownerExists
           /\ generation' = generation /\ reconciled' = reconciled /\ getFailures' = getFailures
           /\ verdict' = verdict
BY DEF PatchStatusEarly

LEMMA DeleteOwnerFrame ==
    ASSUME DeleteOwner
    PROVE  /\ reconciling' = 0
           /\ childRefs' = childRefs /\ kind' = kind /\ generation' = generation
           /\ ready' = ready /\ observedGen' = observedGen /\ reconciled' = reconciled
           /\ getFailures' = getFailures
BY DEF DeleteOwner

LEMMA CheckOwnerReadyFrame ==
    ASSUME CheckOwnerReady
    PROVE  /\ verdict' \in Verdicts
           /\ childRefs' = childRefs /\ kind' = kind /\ ownerExists' = ownerExists
           /\ generation' = generation /\ ready' = ready /\ observedGen' = observedGen
           /\ reconciling' = reconciling /\ reconciled' = reconciled /\ getFailures' = getFailures
<1>1. verdict' \in Verdicts
  BY VerdictType DEF CheckOwnerReady
<1>. QED  BY <1>1 DEF CheckOwnerReady, owner

LEMMA CheckOwnerReadyGetFailsFrame ==
    ASSUME CheckOwnerReadyGetFails
    PROVE  /\ getFailures < MaxGetFailures /\ getFailures' = getFailures + 1
           /\ verdict' \in Verdicts
           /\ childRefs' = childRefs /\ kind' = kind /\ ownerExists' = ownerExists
           /\ generation' = generation /\ ready' = ready /\ observedGen' = observedGen
           /\ reconciling' = reconciling /\ reconciled' = reconciled
BY DEF CheckOwnerReadyGetFails, owner, Verdicts

LEMMA StutterFrame ==
    ASSUME UNCHANGED vars
    PROVE  childRefs' = childRefs /\ kind' = kind /\ ownerExists' = ownerExists
           /\ generation' = generation /\ ready' = ready /\ observedGen' = observedGen
           /\ reconciling' = reconciling /\ reconciled' = reconciled /\ getFailures' = getFailures
           /\ verdict' = verdict
BY DEF vars, owner

-----------------------------------------------------------------------------
LEMMA TypeOKInit == Init => TypeOK
BY ReadinessAssumption DEF Init, TypeOK, NoVerdict

LEMMA TypeOKNext == TypeOK /\ [Next]_vars => TypeOK'
<1> SUFFICES ASSUME TypeOK, [Next]_vars PROVE TypeOK'
  OBVIOUS
<1> USE Bounds DEF TypeOK, Verdicts
<1>1. CASE UpdateOwnerSpec
  <2>1. generation' \in 1 .. MaxGeneration
    BY <1>1, UpdateOwnerSpecFrame
  <2>. QED  BY <1>1, <2>1, UpdateOwnerSpecFrame
<1>2. CASE StartOwnerReconcile
  <2>1. reconciling' \in 0 .. MaxGeneration
    BY <1>2, StartOwnerReconcileFrame
  <2>. QED  BY <1>2, <2>1, StartOwnerReconcileFrame
<1>3. CASE FinishOwnerReconcile
  <2>1. /\ observedGen' \in (1 .. MaxGeneration) \cup {Absent}
        /\ reconciled' \in 0 .. MaxGeneration /\ reconciling' \in 0 .. MaxGeneration
    BY <1>3, FinishOwnerReconcileFrame
  <2>. QED  BY <1>3, <2>1, FinishOwnerReconcileFrame
<1>4. CASE PatchStatusEarly
  <2>1. /\ observedGen' \in (1 .. MaxGeneration) \cup {Absent}
        /\ reconciling' \in 0 .. MaxGeneration
    BY <1>4, PatchStatusEarlyFrame
  <2>2. ready' \in {"True", "False", Absent}
    BY <1>4, PatchStatusEarlyFrame
  <2>. QED  BY <1>4, <2>1, <2>2, PatchStatusEarlyFrame
<1>5. CASE DeleteOwner
  <2>1. ownerExists' \in BOOLEAN /\ verdict' = verdict
    BY <1>5 DEF DeleteOwner
  <2>2. reconciling' \in 0 .. MaxGeneration
    BY <1>5, DeleteOwnerFrame
  <2>. QED  BY <1>5, <2>1, <2>2, DeleteOwnerFrame
<1>6. CASE CheckOwnerReady
  BY <1>6, CheckOwnerReadyFrame
<1>7. CASE CheckOwnerReadyGetFails
  <2>1. getFailures' \in 0 .. MaxGetFailures
    BY <1>7, CheckOwnerReadyGetFailsFrame
  <2>. QED  BY <1>7, <2>1, CheckOwnerReadyGetFailsFrame
<1>8. CASE UNCHANGED vars
  BY <1>8, StutterFrame
<1>. QED  BY <1>1, <1>2, <1>3, <1>4, <1>5, <1>6, <1>7, <1>8 DEF Next

(* The owner's kind and the child's references stay in the sets the model *)
(* starts from, every verdict is one IsOwnerServiceReady can return, and   *)
(* the generations and failure counts stay within their bounds.            *)
THEOREM ReadinessTypeCorrect == Spec => []TypeOK
BY TypeOKInit, TypeOKNext, PTL DEF Spec

-----------------------------------------------------------------------------
IInv == TypeOK /\ FenceInv

LEMMA IInvInit == Init => IInv
BY TypeOKInit, Bounds DEF Init, IInv, FenceInv

(* Each step keeps the fence invariant when Ready is reset at the start  *)
(* of a reconcile; only its numbers matter, not the rest of TypeOK.        *)
LEMMA FenceInvNext ==
    ASSUME ResetsReady = TRUE, TypeOK, FenceInv, [Next]_vars
    PROVE  FenceInv'
<1>0. /\ generation \in Nat /\ reconciling \in Nat /\ reconciled \in Nat
      /\ observedGen \in Nat \cup {Absent}
  BY DEF TypeOK
<1> USE <1>0, Bounds DEF FenceInv
<1>1. CASE UpdateOwnerSpec
  BY <1>1, UpdateOwnerSpecFrame
<1>2. CASE StartOwnerReconcile
  BY <1>2, StartOwnerReconcileFrame
<1>3. CASE FinishOwnerReconcile
  BY <1>3, FinishOwnerReconcileFrame
<1>4. CASE PatchStatusEarly
  BY <1>4, PatchStatusEarlyFrame
<1>5. CASE DeleteOwner
  BY <1>5, DeleteOwnerFrame
<1>6. CASE CheckOwnerReady
  BY <1>6, CheckOwnerReadyFrame
<1>7. CASE CheckOwnerReadyGetFails
  BY <1>7, CheckOwnerReadyGetFailsFrame
<1>8. CASE UNCHANGED vars
  BY <1>8, StutterFrame
<1>. QED  BY <1>1, <1>2, <1>3, <1>4, <1>5, <1>6, <1>7, <1>8 DEF Next

LEMMA IInvNext ==
    ASSUME ResetsReady = TRUE
    PROVE  IInv /\ [Next]_vars => IInv'
BY TypeOKNext, FenceInvNext DEF IInv

(* For any owner kinds and bounds, when the owner's controller resets     *)
(* Ready at the start of every reconcile, IsOwnerServiceReady's            *)
(* observedGeneration fence never lets the child proceed on a Ready left   *)
(* over from an older generation: a ready verdict for the existing owner  *)
(* means its current generation was reconciled and ended Ready.            *)
THEOREM FenceHoldsProved ==
    ASSUME ResetsReady = TRUE
    PROVE  Spec => FenceHolds
<1>1. Spec => []IInv
  BY IInvInit, IInvNext, PTL DEF Spec
<1>2. IInv /\ [Next]_vars
        => [ (/\ CheckOwnerReady
              /\ verdict' = <<TRUE, "nil">>
              /\ PointsToOwner(childRefs)
              /\ ownerExists)
             => (reconciled = generation /\ ready = "True") ]_vars
  <2> SUFFICES ASSUME IInv,
                      CheckOwnerReady, verdict' = <<TRUE, "nil">>,
                      PointsToOwner(childRefs), ownerExists
               PROVE  reconciled = generation /\ ready = "True"
    OBVIOUS
  <2>1. OwnerStatusReady(kind, generation, ready, observedGen)
    BY ReadyVerdictFromStatus DEF CheckOwnerReady
  <2>2. ready = "True" /\ observedGen = generation
    BY <2>1 DEF OwnerStatusReady
  <2>. QED  BY <2>2 DEF IInv, FenceInv
<1>. QED  BY <1>1, <1>2, PTL DEF Spec, FenceHolds
=============================================================================
