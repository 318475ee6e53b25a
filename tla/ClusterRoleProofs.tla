-------------------------- MODULE ClusterRoleProofs --------------------------
(***************************************************************************)
(* Proofs about ClusterRole.CreateOrPatch and Delete, for any keys,        *)
(* values, rule lists, desired maps and bounds.                            *)
(***************************************************************************)
EXTENDS ClusterRole, TLAPS

USE ClusterRoleAssumption

-----------------------------------------------------------------------------
(* Lemmas about the operators the mutate function and the merge patch are *)
(* built from.                                                              *)

LEMMA MergeStringMapsType ==
    ASSUME NEW base \in StringMap, NEW extra \in StringMap
    PROVE  MergeStringMaps(base, extra) \in StringMap
BY DEF MergeStringMaps, StringMap

LEMMA PatchMapType ==
    ASSUME NEW cur \in StringMap, NEW before, NEW after \in StringMap
    PROVE  PatchMap(cur, before, after) \in StringMap
BY DEF PatchMap, StringMap

LEMMA MutateType ==
    ASSUME NEW obj \in Object
    PROVE  Mutate(obj) \in Object
<1>1. MergeStringMaps(obj.labels, DesiredLabels) \in StringMap
  BY MergeStringMapsType DEF Object
<1>2. MergeStringMaps(MergeStringMaps(obj.labels, DesiredLabels), DesiredAnnotations)
        \in StringMap
  BY <1>1, MergeStringMapsType
<1>. QED  BY <1>1, <1>2 DEF Mutate, Object, Controllers

LEMMA ApplyMergePatchType ==
    ASSUME NEW cur \in Object, NEW before \in Object, NEW after \in Object
    PROVE  ApplyMergePatch(cur, before, after) \in Object
<1>1. /\ PatchMap(cur.labels, before.labels, after.labels) \in StringMap
      /\ PatchMap(cur.annotations, before.annotations, after.annotations) \in StringMap
  BY PatchMapType DEF Object
<1>. QED  BY <1>1 DEF ApplyMergePatch, Object

LEMMA EmptyObjectType == EmptyObject \in Object
BY DEF EmptyObject, EmptyMap, Object, StringMap, Controllers

(* Merging the same desired map twice changes nothing.                     *)
LEMMA MergeStringMapsIdempotent ==
    ASSUME NEW base \in StringMap, NEW extra \in StringMap
    PROVE  MergeStringMaps(MergeStringMaps(base, extra), extra)
             = MergeStringMaps(base, extra)
BY DEF MergeStringMaps, StringMap

(* The mutate function is idempotent: the reconcile after an undisturbed  *)
(* patch finds nothing to patch (PatchUnchanged).                          *)
LEMMA MutateIdempotent ==
    ASSUME NEW obj \in Object
    PROVE  Mutate(Mutate(obj)) = Mutate(obj)
<1> DEFINE labels == MergeStringMaps(obj.labels, DesiredLabels)
<1>1. labels \in StringMap
  BY MergeStringMapsType DEF Object
<1>2. MergeStringMaps(labels, DesiredLabels) = labels
  BY <1>1, MergeStringMapsIdempotent DEF labels, Object
<1>3. Mutate(obj).labels = labels /\ Mutate(obj).rules = DesiredRules
  BY DEF Mutate, labels
<1>. QED  BY <1>2, <1>3 DEF Mutate, labels

(* A merge patch computed against the object as it still is yields the    *)
(* patched copy itself.                                                    *)
LEMMA PatchOntoSnapshot ==
    ASSUME NEW obj \in Object, NEW after \in Object
    PROVE  ApplyMergePatch(obj, obj, after) = after
BY DEF ApplyMergePatch, PatchMap, Object, StringMap

(* The mutate function's output of an object the operator may control has *)
(* the desired rules, labels and annotations, and the operator as         *)
(* controller.                                                             *)
LEMMA MutateDesired ==
    ASSUME NEW obj \in Object, obj.controller # "Other"
    PROVE  /\ Mutate(obj).rules = DesiredRules
           /\ Includes(Mutate(obj).labels, DesiredLabels)
           /\ Includes(Mutate(obj).annotations, DesiredAnnotations)
           /\ Mutate(obj).controller = "Us"
BY DEF Mutate, MergeStringMaps, Includes, Object, Controllers, StringMap

-----------------------------------------------------------------------------
(* Type correctness.                                                        *)

LEMMA TypeOKInit == Init => TypeOK
<1> SUFFICES ASSUME Init PROVE TypeOK
  OBVIOUS
<1>1. edits \in 0 .. MaxEdits /\ deletions \in 0 .. MaxDeletions
  BY DEF Init
<1>2. exists \in BOOLEAN /\ cleanup \in BOOLEAN
  BY Zenon DEF Init
<1>. QED  BY <1>1, <1>2, EmptyObjectType DEF Init, TypeOK

(* The steps CreateOrPatch ends with keep the counters and cleanup.        *)
LEMMA FinishFrame ==
    ASSUME NEW res, Finish(res)
    PROVE  /\ pc' = "get" /\ snap' = None /\ result' = res
           /\ edits' = edits /\ deletions' = deletions /\ cleanup' = cleanup
BY DEF Finish

LEMMA TypeOKNext == TypeOK /\ [Next]_vars => TypeOK'
<1> SUFFICES ASSUME TypeOK, [Next]_vars PROVE TypeOK'
  OBVIOUS
<1>1. CASE GetClusterRole
  BY <1>1 DEF GetClusterRole, TypeOK
<1>2. CASE CreateClusterRole
  <2>1. live' \in Object
    BY <1>2, EmptyObjectType, MutateType DEF CreateClusterRole
  <2>. QED  BY <1>2, <2>1, FinishFrame DEF CreateClusterRole, TypeOK
<1>3. CASE CreateAlreadyExists
  BY <1>3, FinishFrame DEF CreateAlreadyExists, TypeOK
<1>4. CASE MutateAlreadyOwned
  BY <1>4, FinishFrame DEF MutateAlreadyOwned, TypeOK
<1>5. CASE PatchUnchanged
  BY <1>5, FinishFrame DEF PatchUnchanged, TypeOK
<1>6. CASE PatchClusterRole
  <2>1. snap \in Object
    BY <1>6 DEF PatchClusterRole, TypeOK
  <2>2. live' \in Object
    BY <1>6, <2>1, MutateType, ApplyMergePatchType DEF PatchClusterRole, TypeOK
  <2>. QED  BY <1>6, <2>2, FinishFrame DEF PatchClusterRole, TypeOK
<1>7. CASE PatchNotFound
  BY <1>7, FinishFrame DEF PatchNotFound, TypeOK
<1>8. CASE Delete
  BY <1>8 DEF Delete, TypeOK
<1>9. CASE UserEdit
  <2>1. live' \in Object
    BY <1>9 DEF UserEdit, TypeOK, Object, StringMap
  <2>2. edits' \in 0 .. MaxEdits
    BY <1>9 DEF UserEdit, TypeOK
  <2>. QED  BY <1>9, <2>1, <2>2 DEF UserEdit, TypeOK
<1>10. CASE UserDelete
  <2>1. deletions' \in 0 .. MaxDeletions
    BY <1>10 DEF UserDelete, TypeOK
  <2>. QED  BY <1>10, <2>1 DEF UserDelete, TypeOK
<1>11. CASE OtherCreate
  <2>1. deletions' \in 0 .. MaxDeletions
    BY <1>11 DEF OtherCreate, TypeOK
  <2>2. live' \in Object
    BY <1>11, EmptyObjectType DEF OtherCreate, Object, Controllers
  <2>. QED  BY <1>11, <2>1, <2>2 DEF OtherCreate, TypeOK
<1>12. CASE UNCHANGED vars
  BY <1>12 DEF vars, TypeOK
<1>. QED  BY <1>1, <1>2, <1>3, <1>4, <1>5, <1>6, <1>7, <1>8, <1>9, <1>10,
             <1>11, <1>12 DEF Next, CreateOrPatch

(* CreateOrPatch, Delete and the users' edits keep every ClusterRole       *)
(* field of its type.                                                      *)
THEOREM ClusterRoleTypeCorrect == Spec => []TypeOK
BY TypeOKInit, TypeOKNext, PTL DEF Spec

-----------------------------------------------------------------------------
(* No takeover.  ControllerSet is not implied by TypeOK: it needs the      *)
(* fact that every ClusterRole of this name is created with a controller,  *)
(* and that CreateOrPatch only fetches stored ones.  With it, the mutate   *)
(* function leaves the controller of the fetched copy as it is, so the     *)
(* merge patch carries no controller change.                               *)

IInv == TypeOK /\ ControllerSet

(* The mutate function keeps a controller that is already set.             *)
LEMMA MutateKeepsController ==
    ASSUME NEW obj \in Object, obj.controller # "none"
    PROVE  Mutate(obj).controller = obj.controller
BY DEF Mutate

(* A patch of a fetched copy that has a controller leaves the stored      *)
(* object's controller as it is.                                          *)
LEMMA PatchKeepsController ==
    ASSUME TypeOK, ControllerSet, PatchClusterRole
    PROVE  live'.controller = live.controller
<1>1. snap \in Object /\ snap.controller # "none"
  BY DEF PatchClusterRole, TypeOK, ControllerSet
<1>2. Mutate(snap).controller = snap.controller
  BY <1>1, MutateKeepsController
<1>. QED  BY <1>2 DEF PatchClusterRole, ApplyMergePatch

LEMMA IInvInit == Init => IInv
<1>1. Init => ControllerSet
  BY DEF Init, ControllerSet
<1>. QED  BY <1>1, TypeOKInit DEF IInv

LEMMA ControllerSetNext ==
    ASSUME TypeOK, ControllerSet, [Next]_vars
    PROVE  ControllerSet'
<1>1. CASE GetClusterRole
  BY <1>1 DEF GetClusterRole, ControllerSet
<1>2. CASE CreateClusterRole
  BY <1>2 DEF CreateClusterRole, Finish, ControllerSet, Mutate, EmptyObject
<1>3. CASE CreateAlreadyExists
  BY <1>3 DEF CreateAlreadyExists, Finish, ControllerSet
<1>4. CASE MutateAlreadyOwned
  BY <1>4 DEF MutateAlreadyOwned, Finish, ControllerSet
<1>5. CASE PatchUnchanged
  BY <1>5 DEF PatchUnchanged, Finish, ControllerSet
<1>6. CASE PatchClusterRole
  BY <1>6, PatchKeepsController DEF PatchClusterRole, Finish, ControllerSet
<1>7. CASE PatchNotFound
  BY <1>7 DEF PatchNotFound, Finish, ControllerSet
<1>8. CASE Delete
  BY <1>8 DEF Delete, ControllerSet
<1>9. CASE UserEdit
  <2>1. live'.controller = live.controller
    BY <1>9 DEF UserEdit, TypeOK, Object
  <2>. QED  BY <1>9, <2>1 DEF UserEdit, ControllerSet
<1>10. CASE UserDelete
  BY <1>10 DEF UserDelete, ControllerSet
<1>11. CASE OtherCreate
  BY <1>11 DEF OtherCreate, EmptyObject, ControllerSet
<1>12. CASE UNCHANGED vars
  BY <1>12 DEF vars, ControllerSet
<1>. QED  BY <1>1, <1>2, <1>3, <1>4, <1>5, <1>6, <1>7, <1>8, <1>9, <1>10,
             <1>11, <1>12 DEF Next, CreateOrPatch

LEMMA IInvNext == IInv /\ [Next]_vars => IInv'
BY TypeOKNext, ControllerSetNext DEF IInv

(* Every stored ClusterRole and every fetched copy has a controller.       *)
THEOREM ControllerSetHolds == Spec => []IInv
BY IInvInit, IInvNext, PTL DEF Spec

(* A stale CreateOrPatch never makes the operator the controller of a     *)
(* ClusterRole another operator created between its Get and its patch.    *)
THEOREM NoTakeoverHolds == Spec => NoTakeover
<1>1. IInv /\ [Next]_vars
        => [(exists /\ exists' /\ live.controller = "Other")
               => live'.controller = "Other"]_vars
  <2> SUFFICES ASSUME IInv, [Next]_vars, exists, exists', live.controller = "Other"
               PROVE  live'.controller = "Other"
    BY DEF vars
  <2>1. CASE PatchClusterRole
    BY <2>1, PatchKeepsController DEF IInv
  <2>2. CASE UserEdit
    BY <2>2 DEF UserEdit, IInv, TypeOK, Object
  <2>3. CASE CreateClusterRole \/ OtherCreate
    BY <2>3 DEF CreateClusterRole, OtherCreate
  <2>4. CASE Delete \/ UserDelete
    BY <2>4 DEF Delete, UserDelete
  <2>5. CASE \/ GetClusterRole \/ CreateAlreadyExists \/ MutateAlreadyOwned
             \/ PatchUnchanged \/ PatchNotFound \/ UNCHANGED vars
    BY <2>5 DEF GetClusterRole, CreateAlreadyExists, MutateAlreadyOwned,
                PatchUnchanged, PatchNotFound, vars
  <2>. QED  BY <2>1, <2>2, <2>3, <2>4, <2>5 DEF Next, CreateOrPatch
<1>. QED  BY <1>1, ControllerSetHolds, PTL DEF Spec, NoTakeover

-----------------------------------------------------------------------------
(* Concurrent edits.                                                         *)

(* The mutate function leaves a label the operator does not set as the    *)
(* fetched copy has it.                                                     *)
LEMMA MutateKeepsForeignLabel ==
    ASSUME NEW obj \in Object, NEW k \in Keys, DesiredLabels[k] = None
    PROVE  Mutate(obj).labels[k] = obj.labels[k]
BY DEF Mutate, MergeStringMaps

(* A label the operator does not set is never changed by CreateOrPatch,   *)
(* also when a user set or removed it between the Get and the patch.  The *)
(* proof needs both halves: the mutate function keeps the fetched value   *)
(* (MutateKeepsForeignLabel), so the merge patch carries no change of the *)
(* key, and PatchMap then keeps the current value.                         *)
THEOREM ForeignLabelsKeptHolds == Spec => ForeignLabelsKept
<1>1. TypeOK /\ [Next]_vars
        => [(CreateOrPatch /\ exists) =>
              \A k \in Keys :
                 DesiredLabels[k] = None => live'.labels[k] = live.labels[k]]_vars
  <2> SUFFICES ASSUME TypeOK, CreateOrPatch, exists,
                      NEW k \in Keys, DesiredLabels[k] = None
               PROVE  live'.labels[k] = live.labels[k]
    BY DEF vars
  <2>1. CASE PatchClusterRole
    <3>1. snap \in Object
      BY <2>1 DEF PatchClusterRole, TypeOK
    <3>2. Mutate(snap).labels[k] = snap.labels[k]
      BY <3>1, MutateKeepsForeignLabel
    <3>. QED  BY <2>1, <3>2 DEF PatchClusterRole, ApplyMergePatch, PatchMap
  <2>2. CASE CreateClusterRole
    BY <2>2 DEF CreateClusterRole
  <2>3. CASE \/ GetClusterRole \/ CreateAlreadyExists \/ MutateAlreadyOwned
             \/ PatchUnchanged \/ PatchNotFound
    BY <2>3 DEF GetClusterRole, CreateAlreadyExists, MutateAlreadyOwned,
                PatchUnchanged, PatchNotFound
  <2>. QED  BY <2>1, <2>2, <2>3 DEF CreateOrPatch
<1>. QED  BY <1>1, ClusterRoleTypeCorrect, PTL DEF Spec, ForeignLabelsKept

(* A CreateOrPatch whose Get and patch are not interleaved with any other  *)
(* write leaves the ClusterRole as desired.                                *)
THEOREM UndisturbedPatchMatchesDesired ==
    ASSUME IInv, PatchClusterRole, live = snap
    PROVE  MatchesDesired'
<1>1. snap \in Object /\ snap.controller # "Other"
  BY DEF IInv, TypeOK, PatchClusterRole, AlreadyOwned
<1>2. live' = Mutate(snap)
  BY <1>1, MutateType, PatchOntoSnapshot DEF PatchClusterRole
<1>3. exists'
  BY DEF PatchClusterRole
<1>. QED  BY <1>1, <1>2, <1>3, MutateDesired DEF MatchesDesired

=============================================================================
