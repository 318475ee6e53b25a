------------------------------ MODULE OwnerRef ------------------------------
(***************************************************************************)
(* The owner-reference registry of package object (object.go, kept in     *)
(* src/modules/common/clusterrole/clusterrole.go): CheckOwnerRefExist,     *)
(* PatchOwnerRef and EnsureOwnerRef, run by several controller workers     *)
(* against one target object held by the Kubernetes API server.            *)
(*                                                                         *)
(* Each worker is the reconcile loop of one owner.  A reconcile Gets the   *)
(* target (the object the caller hands to EnsureOwnerRef) and then calls   *)
(* EnsureOwnerRef(owner, target).  EnsureOwnerRef mutates its in-memory    *)
(* copy with controllerutil.SetOwnerReference, diffs it against the copy   *)
(* taken before (client.MergeFrom), and sends the JSON merge patch only    *)
(* when the diff has a "metadata" key.  A JSON merge patch replaces a list *)
(* as a whole and MergeFrom carries no resourceVersion, so the server      *)
(* applies it to whatever the object is by then: the whole                 *)
(* ownerReferences list computed from the caller's copy.                   *)
(*                                                                         *)
(* The target is created by its controller owner Ctrl, with Ctrl's         *)
(* controller reference, and may be deleted and created again.             *)
(***************************************************************************)
EXTENDS Naturals, Sequences

CONSTANTS
    Owners,            \* UIDs of the objects that may own the target
    Ctrl,              \* the target's controller owner (creates it)
    Workers,           \* owners whose controllers call EnsureOwnerRef on it
    MaxPatchFailures,  \* bound on the patch calls the server fails
    MaxDeletions       \* bound on the deletions of the target

ASSUME OwnerAssumption ==
    /\ Ctrl \in Owners
    /\ Workers \subseteq Owners
    /\ MaxPatchFailures \in Nat
    /\ MaxDeletions \in Nat

VARIABLES
    exists,    \* the target object is stored by the API server
    refs,      \* the stored target's metadata.ownerReferences
    snap,      \* snap[w]: ownerReferences of worker w's in-memory target
    pc,        \* pc[w]: "get" before the reconcile's Get, "ensure" after it
    result,    \* result[w]: what w's last EnsureOwnerRef returned
    failures,  \* patch calls failed so far
    deletions  \* deletions of the target so far

vars == <<exists, refs, snap, pc, result, failures, deletions>>

(* metav1.OwnerReference, abstracted to the UID (which here also stands   *)
(* for apiVersion/kind/name) and the controller flag.                     *)
OwnerReference == [uid : Owners, controller : BOOLEAN]

(* The reference SetControllerReference gives the target at creation.     *)
ControllerRef == [uid |-> Ctrl, controller |-> TRUE]

(* CheckOwnerRefExist: some element of ownerRefs has the given UID.       *)
CheckOwnerRefExist(uid, ownerRefs) ==
    \E i \in DOMAIN ownerRefs : ownerRefs[i].uid = uid

(* The first index of ownerRefs that refers to the same object as owner   *)
(* (indexOwnerRef of controllerutil); meaningful when one exists.         *)
IndexOwnerRef(ownerRefs, owner) ==
    CHOOSE i \in DOMAIN ownerRefs :
        /\ ownerRefs[i].uid = owner
        /\ \A j \in 1 .. (i - 1) : ownerRefs[j].uid # owner

(* Mutants of SetOwnerReference, plausible bugs of an upsert: the list is  *)
(* replaced by the new reference alone, or the new reference is written   *)
(* over the last element instead of being appended.                       *)
SetOwnerReferenceReplaceList(owner, ownerRefs) ==
    <<[uid |-> owner, controller |-> FALSE]>>

SetOwnerReferenceOffByOne(owner, ownerRefs) ==
    LET ref == [uid |-> owner, controller |-> FALSE]
    IN  IF CheckOwnerRefExist(owner, ownerRefs)
        THEN [ownerRefs EXCEPT ![IndexOwnerRef(ownerRefs, owner)] = ref]
        ELSE [ownerRefs EXCEPT ![Len(ownerRefs)] = ref]

(* controllerutil.SetOwnerReference(owner, object): upsert a reference to *)
(* owner without the controller flag; a reference to the same object is  *)
(* overwritten with the new one, otherwise the new one is appended.       *)
SetOwnerReference(owner, ownerRefs) ==
    LET ref == [uid |-> owner, controller |-> FALSE]
    IN  IF CheckOwnerRefExist(owner, ownerRefs)
        THEN [ownerRefs EXCEPT ![IndexOwnerRef(ownerRefs, owner)] = ref]
        ELSE Append(ownerRefs, ref)

(* PatchOwnerRef: the object after SetOwnerReference; the merge patch has *)
(* a "metadata" key exactly when the ownerReferences changed.             *)
PatchOwnerRef(owner, ownerRefs) == SetOwnerReference(owner, ownerRefs)

HasMetadataDiff(before, after) == before # after

-----------------------------------------------------------------------------
Init ==
    /\ exists = TRUE
    /\ refs = <<ControllerRef>>
    /\ snap = [w \in Workers |-> <<>>]
    /\ pc = [w \in Workers |-> "get"]
    /\ result = [w \in Workers |-> "none"]
    /\ failures = 0
    /\ deletions = 0

(* Environment: the target is deleted (by a user or the garbage           *)
(* collector) ...                                                          *)
DeleteTarget ==
    /\ exists
    /\ deletions < MaxDeletions
    /\ exists' = FALSE
    /\ refs' = <<>>
    /\ deletions' = deletions + 1
    /\ UNCHANGED <<snap, pc, result, failures>>

(* ... and created again by its controller owner.                         *)
CreateTarget ==
    /\ ~exists
    /\ exists' = TRUE
    /\ refs' = <<ControllerRef>>
    /\ UNCHANGED <<snap, pc, result, failures, deletions>>

(* Worker w's reconcile Gets the target; when it is not found the         *)
(* reconcile has nothing to do.                                            *)
GetTarget(w) ==
    /\ pc[w] = "get"
    /\ exists
    /\ snap' = [snap EXCEPT ![w] = refs]
    /\ pc' = [pc EXCEPT ![w] = "ensure"]
    /\ UNCHANGED <<exists, refs, result, failures, deletions>>

(* The four ways EnsureOwnerRef(w, target) returns.  In each the          *)
(* in-memory target keeps the reference SetOwnerReference put in it.      *)
EnsureOwnerRefStep(w, res) ==
    /\ pc[w] = "ensure"
    /\ pc' = [pc EXCEPT ![w] = "get"]
    /\ snap' = [snap EXCEPT ![w] = PatchOwnerRef(w, snap[w])]
    /\ result' = [result EXCEPT ![w] = res]
    /\ UNCHANGED deletions

(* The diff has no metadata: no patch is sent, nil is returned.           *)
EnsureOwnerRefNoop(w) ==
    /\ ~HasMetadataDiff(snap[w], PatchOwnerRef(w, snap[w]))
    /\ EnsureOwnerRefStep(w, "ok")
    /\ UNCHANGED <<exists, refs, failures>>

(* The patch is applied: the stored list becomes the caller's list.       *)
EnsureOwnerRefPatched(w) ==
    /\ HasMetadataDiff(snap[w], PatchOwnerRef(w, snap[w]))
    /\ exists
    /\ refs' = PatchOwnerRef(w, snap[w])
    /\ EnsureOwnerRefStep(w, "ok")
    /\ UNCHANGED <<exists, failures>>

(* The target is gone: IsNotFound is swallowed and nil returned.          *)
EnsureOwnerRefNotFound(w) ==
    /\ HasMetadataDiff(snap[w], PatchOwnerRef(w, snap[w]))
    /\ ~exists
    /\ EnsureOwnerRefStep(w, "ok")
    /\ UNCHANGED <<exists, refs, failures>>

(* Any other patch failure is returned as an error.                       *)
EnsureOwnerRefFailed(w) ==
    /\ HasMetadataDiff(snap[w], PatchOwnerRef(w, snap[w]))
    /\ failures < MaxPatchFailures
    /\ failures' = failures + 1
    /\ EnsureOwnerRefStep(w, "err")
    /\ UNCHANGED <<exists, refs>>

EnsureOwnerRef(w) ==
    \/ EnsureOwnerRefNoop(w)
    \/ EnsureOwnerRefPatched(w)
    \/ EnsureOwnerRefNotFound(w)
    \/ EnsureOwnerRefFailed(w)

Worker(w) == GetTarget(w) \/ EnsureOwnerRef(w)

Next ==
    \/ DeleteTarget
    \/ CreateTarget
    \/ \E w \in Workers : Worker(w)

(* Controllers are level-triggered and resync periodically, so a worker   *)
(* that can run its reconcile keeps doing so.                              *)
Fairness == \A w \in Workers : WF_vars(Worker(w))

Spec == Init /\ [][Next]_vars

FairSpec == Spec /\ Fairness

-----------------------------------------------------------------------------
TypeOK ==
    /\ exists \in BOOLEAN
    /\ refs \in Seq(OwnerReference)
    /\ snap \in [Workers -> Seq(OwnerReference)]
    /\ pc \in [Workers -> {"get", "ensure"}]
    /\ result \in [Workers -> {"none", "ok", "err"}]
    /\ failures \in 0 .. MaxPatchFailures
    /\ deletions \in 0 .. MaxDeletions

(* A list keeps the controller reference of Ctrl, and no other reference  *)
(* claims to be the controller.                                            *)
KeepsControllerRef(ownerRefs) ==
    /\ \E i \in DOMAIN ownerRefs : ownerRefs[i] = ControllerRef
    /\ \A i \in DOMAIN ownerRefs : ownerRefs[i].controller => ownerRefs[i].uid = Ctrl

(* No two references of a list name the same owner.                       *)
UniqueOwners(ownerRefs) ==
    \A i, j \in DOMAIN ownerRefs :
        ownerRefs[i].uid = ownerRefs[j].uid => i = j

(* Concurrent EnsureOwnerRef calls of the other owners, each patching a   *)
(* possibly stale list over the stored one, never lose or demote the      *)
(* target's controller reference.                                          *)
ControllerRefKept == exists => KeepsControllerRef(refs)

(* The inductive invariant behind ControllerRefKept: the stored list and   *)
(* every worker's copy have unique owners, and a copy about to be patched  *)
(* over the stored list keeps the controller reference too.               *)
IInv ==
    /\ TypeOK
    /\ UniqueOwners(refs)
    /\ \A w \in Workers : UniqueOwners(snap[w])
    /\ ControllerRefKept
    /\ \A w \in Workers : pc[w] = "ensure" => KeepsControllerRef(snap[w])

(* When EnsureOwnerRef has returned nil to owner w and the target exists, *)
(* the stored list refers to w (what a nil return promises the caller).   *)
EnsureOwnerRefEffective ==
    \A w \in Workers :
        (result[w] = "ok" /\ exists) => CheckOwnerRefExist(w, refs)

(* EnsureOwnerRef is idempotent: when the target it is given already      *)
(* refers to the owner it does not change the stored object.               *)
IdempotentWhenPresent ==
    [][\A w \in Workers :
         (pc[w] = "ensure" /\ pc'[w] = "get" /\ CheckOwnerRefExist(w, snap[w]))
             => refs' = refs]_vars

(* Level-triggered reconciliation repairs lost references: eventually the *)
(* stored target, whenever it exists, refers to every worker's owner.     *)
Converges ==
    <>[](exists => \A w \in Workers : CheckOwnerRefExist(w, refs))

=============================================================================
