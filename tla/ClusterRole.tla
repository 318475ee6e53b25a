----------------------------- MODULE ClusterRole -----------------------------
(***************************************************************************)
(* ClusterRole.CreateOrPatch and ClusterRole.Delete of package clusterrole *)
(* (clusterrole.go), run by one operator's reconcile loop against the      *)
(* cluster-scoped ClusterRole of the desired name, while users edit its    *)
(* labels, annotations and rules, delete it, and another operator may      *)
(* create one of the same name first.                                      *)
(*                                                                         *)
(* controllerutil.CreateOrPatch Gets the object; when it is not found it   *)
(* runs the mutate function on an empty object and Creates it, otherwise  *)
(* it runs the mutate function on the fetched copy and, if the copy        *)
(* changed, sends a JSON merge patch of the difference (no                 *)
(* resourceVersion).  The Get and the write are two steps: the object may  *)
(* change between them.  A merge patch sets exactly the map keys that      *)
(* differ between the fetched copy and the mutated one and replaces a      *)
(* list that differs as a whole.                                           *)
(***************************************************************************)
EXTENDS Naturals

CONSTANTS
    Keys,                \* label and annotation keys
    Vals,                \* label and annotation values
    Rules,               \* the rule lists an object may have
    NoRules,             \* the empty rule list
    None,                \* a key absent from a map
    DesiredLabels,       \* r.clusterrole.Labels
    DesiredAnnotations,  \* r.clusterrole.Annotations
    DesiredRules,        \* r.clusterrole.Rules
    MaxEdits,            \* bound on the users' edits of the live object
    MaxDeletions         \* bound on the deletions by users

StringMap == [Keys -> Vals \cup {None}]

ASSUME ClusterRoleAssumption ==
    /\ None \notin Vals
    /\ DesiredLabels \in StringMap
    /\ DesiredAnnotations \in StringMap
    /\ NoRules \in Rules
    /\ DesiredRules \in Rules
    /\ MaxEdits \in Nat
    /\ MaxDeletions \in Nat

(* The controller owner of an object: the operator's CR, another          *)
(* operator's CR, or none.                                                 *)
Controllers == {"Us", "Other", "none"}

(* The parts of a ClusterRole the code reads or writes.                   *)
Object == [labels : StringMap, annotations : StringMap, rules : Rules,
           controller : Controllers]

EmptyMap == [k \in Keys |-> None]

VARIABLES
    exists,     \* the ClusterRole is stored
    live,       \* the stored ClusterRole
    snap,       \* the copy the running CreateOrPatch fetched, or None
    pc,         \* "get" or "write": the step CreateOrPatch is at
    result,     \* what the last CreateOrPatch or Delete returned
    edits,      \* edits by users so far
    deletions,  \* deletions by users so far
    cleanup     \* the operator has called Delete and stops reconciling

vars == <<exists, live, snap, pc, result, edits, deletions, cleanup>>

-----------------------------------------------------------------------------
(* util.MergeStringMaps(base, extra): the union of the two maps, the      *)
(* value of extra kept on a key both have.                                 *)
MergeStringMaps(base, extra) ==
    [k \in Keys |-> IF extra[k] # None THEN extra[k] ELSE base[k]]

(* Mutant of the mutate function: annotations merged from the live        *)
(* annotations, as the labels are from the live labels.                    *)
MutateAnnotationsFixed(obj) ==
    LET labels == MergeStringMaps(obj.labels, DesiredLabels)
    IN  [labels      |-> labels,
         annotations |-> MergeStringMaps(obj.annotations, DesiredAnnotations),
         rules       |-> DesiredRules,
         controller  |-> IF obj.controller = "none" THEN "Us" ELSE obj.controller]

(* Mutant of the mutate function: the live labels win over the desired.   *)
MutateLiveWins(obj) ==
    LET labels == MergeStringMaps(DesiredLabels, obj.labels)
    IN  [labels      |-> labels,
         annotations |-> MergeStringMaps(labels, DesiredAnnotations),
         rules       |-> DesiredRules,
         controller  |-> IF obj.controller = "none" THEN "Us" ELSE obj.controller]

(* Mutant of the mutate function: the labels replaced by the desired ones *)
(* instead of merged into the live ones.                                   *)
MutateLabelsReplaced(obj) ==
    [labels      |-> DesiredLabels,
     annotations |-> MergeStringMaps(DesiredLabels, DesiredAnnotations),
     rules       |-> DesiredRules,
     controller  |-> IF obj.controller = "none" THEN "Us" ELSE obj.controller]

(* The mutate function of CreateOrPatch: labels merged into the live      *)
(* labels; annotations merged into the labels just computed (the code     *)
(* passes clusterrole.Labels); rules replaced; SetControllerReference.    *)
Mutate(obj) ==
    LET labels == MergeStringMaps(obj.labels, DesiredLabels)
    IN  [labels      |-> labels,
         annotations |-> MergeStringMaps(labels, DesiredAnnotations),
         rules       |-> DesiredRules,
         controller  |-> IF obj.controller = "none" THEN "Us" ELSE obj.controller]

(* SetControllerReference fails with AlreadyOwnedError on an object       *)
(* another owner controls.                                                 *)
AlreadyOwned(obj) == obj.controller = "Other"

(* The object the API server stores after the JSON merge patch from       *)
(* before to after is applied to cur.                                      *)
PatchMap(cur, before, after) ==
    [k \in Keys |-> IF after[k] # before[k] THEN after[k] ELSE cur[k]]

ApplyMergePatch(cur, before, after) ==
    [labels      |-> PatchMap(cur.labels, before.labels, after.labels),
     annotations |-> PatchMap(cur.annotations, before.annotations, after.annotations),
     rules       |-> IF after.rules # before.rules THEN after.rules ELSE cur.rules,
     controller  |-> IF after.controller # before.controller
                     THEN after.controller ELSE cur.controller]

EmptyObject == [labels |-> EmptyMap, annotations |-> EmptyMap,
                rules |-> NoRules, controller |-> "none"]

-----------------------------------------------------------------------------
Init ==
    /\ exists = FALSE
    /\ live = EmptyObject
    /\ snap = None
    /\ pc = "get"
    /\ result = "none"
    /\ edits = 0
    /\ deletions = 0
    /\ cleanup = FALSE

(* CreateOrPatch starts: the Get of the ClusterRole.                      *)
GetClusterRole ==
    /\ pc = "get"
    /\ ~cleanup
    /\ snap' = IF exists THEN live ELSE None
    /\ pc' = "write"
    /\ UNCHANGED <<exists, live, result, edits, deletions, cleanup>>

(* CreateOrPatch ends, returning res.                                      *)
Finish(res) ==
    /\ pc = "write"
    /\ pc' = "get"
    /\ snap' = None
    /\ result' = res
    /\ UNCHANGED <<edits, deletions, cleanup>>

(* Not found: the mutated empty object is created ...                      *)
CreateClusterRole ==
    /\ snap = None
    /\ ~exists
    /\ exists' = TRUE
    /\ live' = Mutate(EmptyObject)
    /\ Finish("ok")

(* ... unless it has been created since: AlreadyExists, a wrapped error.   *)
CreateAlreadyExists ==
    /\ snap = None
    /\ exists
    /\ Finish("err")
    /\ UNCHANGED <<exists, live>>

(* SetControllerReference fails in the mutate function: a wrapped error.  *)
MutateAlreadyOwned ==
    /\ snap # None
    /\ AlreadyOwned(snap)
    /\ Finish("err")
    /\ UNCHANGED <<exists, live>>

(* The mutated copy equals the fetched one: no patch.                      *)
PatchUnchanged ==
    /\ snap # None
    /\ ~AlreadyOwned(snap)
    /\ Mutate(snap) = snap
    /\ Finish("ok")
    /\ UNCHANGED <<exists, live>>

(* Mutant of PatchClusterRole: the mutated copy written back whole (an    *)
(* Update, as CreateOrUpdate does, without its resourceVersion check).    *)
PatchClusterRoleWhole ==
    /\ snap # None
    /\ ~AlreadyOwned(snap)
    /\ Mutate(snap) # snap
    /\ exists
    /\ live' = Mutate(snap)
    /\ Finish("ok")
    /\ UNCHANGED exists

(* The merge patch is applied to the object as it is now.                  *)
PatchClusterRole ==
    /\ snap # None
    /\ ~AlreadyOwned(snap)
    /\ Mutate(snap) # snap
    /\ exists
    /\ live' = ApplyMergePatch(live, snap, Mutate(snap))
    /\ Finish("ok")
    /\ UNCHANGED exists

(* The object was deleted since the Get: NotFound, RequeueAfter timeout.  *)
PatchNotFound ==
    /\ snap # None
    /\ ~AlreadyOwned(snap)
    /\ Mutate(snap) # snap
    /\ ~exists
    /\ Finish("requeue")
    /\ UNCHANGED <<exists, live>>

CreateOrPatch ==
    \/ GetClusterRole
    \/ CreateClusterRole
    \/ CreateAlreadyExists
    \/ MutateAlreadyOwned
    \/ PatchUnchanged
    \/ PatchClusterRole
    \/ PatchNotFound

(* ClusterRole.Delete: the object of the desired name is deleted;         *)
(* NotFound is ignored.  The operator then stops reconciling.              *)
Delete ==
    /\ pc = "get"
    /\ ~cleanup
    /\ cleanup' = TRUE
    /\ exists' = FALSE
    /\ result' = "ok"
    /\ UNCHANGED <<live, snap, pc, edits, deletions>>

(* Environment: a user sets or removes a label or an annotation, or       *)
(* changes the rules.                                                      *)
UserEdit ==
    /\ exists
    /\ edits < MaxEdits
    /\ edits' = edits + 1
    /\ \/ \E k \in Keys, v \in Vals \cup {None} : live' = [live EXCEPT !.labels[k] = v]
       \/ \E k \in Keys, v \in Vals \cup {None} : live' = [live EXCEPT !.annotations[k] = v]
       \/ \E r \in Rules : live' = [live EXCEPT !.rules = r]
    /\ UNCHANGED <<exists, snap, pc, result, deletions, cleanup>>

(* Environment: a user deletes the ClusterRole ...                         *)
UserDelete ==
    /\ exists
    /\ deletions < MaxDeletions
    /\ deletions' = deletions + 1
    /\ exists' = FALSE
    /\ UNCHANGED <<live, snap, pc, result, edits, cleanup>>

(* ... and another operator creates one of the same name, as its          *)
(* controller.                                                             *)
OtherCreate ==
    /\ ~exists
    /\ deletions < MaxDeletions
    /\ deletions' = deletions + 1
    /\ exists' = TRUE
    /\ live' = [EmptyObject EXCEPT !.controller = "Other"]
    /\ UNCHANGED <<snap, pc, result, edits, cleanup>>

Next ==
    \/ CreateOrPatch
    \/ Delete
    \/ UserEdit
    \/ UserDelete
    \/ OtherCreate

(* The reconcile loop runs again after every return (RequeueAfter, an     *)
(* error's backoff, or the periodic resync).                               *)
Fairness == WF_vars(CreateOrPatch)

Spec == Init /\ [][Next]_vars

FairSpec == Spec /\ Fairness

-----------------------------------------------------------------------------
TypeOK ==
    /\ exists \in BOOLEAN
    /\ live \in Object
    /\ snap \in Object \cup {None}
    /\ pc \in {"get", "write"}
    /\ result \in {"none", "ok", "err", "requeue"}
    /\ edits \in 0 .. MaxEdits
    /\ deletions \in 0 .. MaxDeletions
    /\ cleanup \in BOOLEAN

(* A map holds every key of another with its value.                       *)
Includes(m, sub) == \A k \in Keys : sub[k] # None => m[k] = sub[k]

(* The live ClusterRole is what the operator wants: its rules, its labels *)
(* and annotations, and the operator as controller.                        *)
MatchesDesired ==
    /\ exists
    /\ live.rules = DesiredRules
    /\ Includes(live.labels, DesiredLabels)
    /\ Includes(live.annotations, DesiredAnnotations)
    /\ live.controller = "Us"

(* Reconciling repairs whatever users did: unless the operator has        *)
(* called Delete or another operator holds the name, the ClusterRole      *)
(* eventually stays as desired.                                            *)
Converges ==
    <>[](cleanup \/ (exists /\ live.controller = "Other") \/ MatchesDesired)

(* A label the operator does not set (not in r.clusterrole.Labels) is    *)
(* never changed by CreateOrPatch: the desired labels are merged into the *)
(* fetched ones, and the merge patch writes only what the mutate function *)
(* changed, so a user's label survives every reconcile, also one set or   *)
(* removed between the Get and the patch.                                  *)
ForeignLabelsKept ==
    [][(CreateOrPatch /\ exists) =>
         \A k \in Keys :
            DesiredLabels[k] = None => live'.labels[k] = live.labels[k]]_vars

(* Every ClusterRole of this name is created with a controller reference  *)
(* (by CreateOrPatch's SetControllerReference, or by the other operator),  *)
(* and so is every copy CreateOrPatch fetched.                             *)
ControllerSet ==
    /\ exists => live.controller # "none"
    /\ snap # None => snap.controller # "none"

(* A CreateOrPatch never makes the operator the controller of a           *)
(* ClusterRole another operator controls, even when that one was created  *)
(* between its Get and its patch: the merge patch carries no controller   *)
(* change, so the stale copy's owner reference is never written.           *)
NoTakeover ==
    [][(exists /\ exists' /\ live.controller = "Other") => live'.controller = "Other"]_vars

(* CreateOrPatch merges the desired annotations into the live ones: an    *)
(* annotation the operator does not set is kept.                           *)
AnnotationsMerged ==
    [][(PatchClusterRole \/ PatchUnchanged) =>
         \A k \in Keys :
            DesiredAnnotations[k] = None => live'.annotations[k] = live.annotations[k]]_vars

(* CreateOrPatch refuses a ClusterRole another operator controls         *)
(* (SetControllerReference's AlreadyOwnedError), and concurrent writes to *)
(* one object are to be caught by resourceVersion conflict detection: no  *)
(* CreateOrPatch step changes a ClusterRole another operator controls.     *)
OtherUntouched ==
    [][(CreateOrPatch /\ exists /\ live.controller = "Other") => live' = live]_vars

(* ClusterRole.Delete only removes a ClusterRole the operator controls.   *)
DeletesOnlyOwn ==
    [][(Delete /\ exists) => live.controller = "Us"]_vars

=============================================================================
